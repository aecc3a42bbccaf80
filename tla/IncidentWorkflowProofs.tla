----------------------- MODULE IncidentWorkflowProofs -----------------------
(***************************************************************************)
(* Proofs about IncidentWorkflow, for every number of accounts, reports    *)
(* and threads and every bound on the history.                             *)
(***************************************************************************)
EXTENDS IncidentWorkflow, TLAPS

-----------------------------------------------------------------------------
(* Lemmas about the operators *)

\* A row that a flush leaves is a row, whatever the session saw.
LEMMA FlushType ==
  ASSUME NEW now \in Row, NEW seen \in Row, NEW new \in Row
  PROVE  Flush(now, seen, new) \in Row
  BY DEF Flush, Written, Row

\* Forgetting a user keeps a log of events a log of events of that length.
LEMMA EventsForgetType ==
  ASSUME NEW log \in Seq(Event), NEW u
  PROVE  EventsForget(log, u) \in Seq(Event)
  <1>1. DOMAIN log = 1..Len(log) /\ Len(log) \in Nat
    OBVIOUS
  <1>2. \A k \in 1..Len(log) : log[k] \in Event
    OBVIOUS
  <1>3. \A k \in 1..Len(log) : [log[k] EXCEPT !.actor = Forget(@, u)] \in Event
    BY <1>2 DEF Event, OrNull, Forget
  <1>4. QED
    BY <1>1, <1>3 DEF EventsForget

\* The same of the thread of messages.
LEMMA CommentsForgetType ==
  ASSUME NEW log \in Seq(Comment), NEW u
  PROVE  CommentsForget(log, u) \in Seq(Comment)
  <1>1. DOMAIN log = 1..Len(log) /\ Len(log) \in Nat
    OBVIOUS
  <1>2. \A k \in 1..Len(log) : log[k] \in Comment
    OBVIOUS
  <1>3. \A k \in 1..Len(log) : [log[k] EXCEPT !.author = Forget(@, u)] \in Comment
    BY <1>2 DEF Comment, OrNull, Forget
  <1>4. QED
    BY <1>1, <1>3 DEF CommentsForget

\* A log that may have got one more entry keeps the others where they were.
LEMMA AppendKeeps ==
  ASSUME NEW S, NEW log \in Seq(S), NEW e \in S, NEW after \in {log, Append(log, e)}
  PROVE  /\ \A k \in DOMAIN log : k \in DOMAIN after /\ after[k] = log[k]
         /\ \A k \in DOMAIN after \ DOMAIN log : after = Append(log, e) /\ after[k] = e
  <1>1. CASE after = log
    BY <1>1
  <1>2. CASE after = Append(log, e)
    <2>1. DOMAIN log = 1..Len(log) /\ Len(log) \in Nat
      OBVIOUS
    <2>2. DOMAIN after = 1..(Len(log) + 1)
      BY <1>2
    <2>3. \A k \in 1..Len(log) : after[k] = log[k]
      BY <1>2
    <2>4. after[Len(log) + 1] = e
      BY <1>2
    <2>5. QED
      BY <1>2, <2>1, <2>2, <2>3, <2>4
  <1>3. QED
    BY <1>1, <1>2

LEMMA BlankRowType == BlankRow \in Row
  BY DEF BlankRow, Row, Statuses, OrNull

LEMMA IdleType == Idle \in Request
  BY BlankRowType DEF Idle, Request, OrNull

\* What a handler starts from is a request of its user about its report.
LEMMA LoadedType ==
  ASSUME NEW op \in Ops, NEW u \in Users, NEW i \in Incidents, row[i] \in Row
  PROVE  /\ Loaded(op, u, i) \in Request
         /\ Loaded(op, u, i).user = u
         /\ Loaded(op, u, i).inc = i
  <1>1. (u \in managers) \in BOOLEAN
    OBVIOUS
  <1>2. Loaded(op, u, i) \in Request
    BY <1>1, IdleType DEF Request, OrNull, Loaded, Idle
  <1>3. Loaded(op, u, i).user = u /\ Loaded(op, u, i).inc = i
    BY DEF Loaded, Idle
  <1>4. QED
    BY <1>2, <1>3

-----------------------------------------------------------------------------
(* Type correctness *)

\* A request that fits its type keeps the thread table well typed.
LEMMA BeginType ==
  ASSUME TypeOK, NEW t \in Threads, NEW r \in Request, Begin(t, r), UNCHANGED Tables,
         r.op # "none" => r.user \in Users /\ r.inc \in Incidents
  PROVE  TypeOK'
  BY DEF TypeOK, Begin, Tables

\* Every handler begins with a well-typed request.
LEMMA HandlerType ==
  ASSUME TypeOK, NEW t \in Threads, NEW u \in Users, NEW i \in Incidents, Handler(t, u, i)
  PROVE  TypeOK'
  <1> USE DEF OrNull
  <1>0. row[i] \in Row
    BY DEF TypeOK
  <1>1. ASSUME NEW s \in Statements, NEW isDraft \in BOOLEAN, CreateIncident(t, u, i, s, isDraft)
        PROVE TypeOK'
    <2> DEFINE new == [BlankRow EXCEPT !.creator = u, !.statement = s,
                         !.status = IF isDraft THEN "draft" ELSE "review_requested"]
               r == [Idle EXCEPT !.op = "create", !.user = u, !.manager = u \in managers,
                       !.inc = i, !.ready = isDraft, !.logs = TRUE, !.new = new]
    <2>1. new \in Row
      BY DEF BlankRow, Row, Statuses
    <2>2. (u \in managers) \in BOOLEAN
      OBVIOUS
    <2>3. r \in Request
      BY <2>1, <2>2, IdleType DEF Idle, Request, Ops
    <2>4. r.user = u /\ r.inc = i
      BY DEF Idle
    <2>5. Begin(t, r) /\ UNCHANGED Tables
      BY <1>1 DEF CreateIncident
    <2> HIDE DEF r
    <2>6. QED
      BY <2>3, <2>4, <2>5, BeginType
  <1>2. ASSUME NEW s \in Statements, NEW isDraft \in BOOLEAN, EditIncident(t, u, i, s, isDraft)
        PROVE TypeOK'
    <2> DEFINE l == Loaded("edit", u, i)
               new == Edited(row[i], s, row[i].cites, isDraft)
               r == [l EXCEPT !.ready = isDraft, !.logs = TRUE, !.new = new]
    <2>1. new \in Row
      BY <1>0 DEF Edited, Row, Statuses
    <2>2. l \in Request /\ l.user = u /\ l.inc = i
      BY <1>0, LoadedType DEF Ops
    <2>3. Begin(t, r) /\ UNCHANGED Tables
      BY <1>2 DEF EditIncident
    <2> HIDE DEF l, new
    <2>4. r \in Request /\ r.user = u /\ r.inc = i
      BY <2>1, <2>2 DEF Request
    <2> HIDE DEF r
    <2>5. QED
      BY <2>3, <2>4, BeginType
  <1>3. ASSUME NEW kind \in CommentKinds, AddComment(t, u, i, kind)
        PROVE TypeOK'
    <2> DEFINE l == Loaded("comment", u, i)
               next == NextStatus(kind, row[i].status)
               moves == next # row[i].status
               r == [l EXCEPT !.ready = TRUE, !.logs = moves, !.says = kind, !.new.status = next]
    <2>1. next \in Statuses
      BY <1>0 DEF NextStatus, Statuses, Row
    <2>2. l \in Request /\ l.user = u /\ l.inc = i /\ l.new = row[i]
      <3>1. l \in Request /\ l.user = u /\ l.inc = i
        BY <1>0, LoadedType DEF Ops
      <3>2. l.new = row[i]
        BY DEF Loaded, Idle
      <3>3. QED
        BY <3>1, <3>2
    <2>3. moves \in BOOLEAN
      OBVIOUS
    <2>4. Begin(t, r) /\ UNCHANGED Tables
      BY <1>3 DEF AddComment
    <2> HIDE DEF l, next, moves
    <2>5. [l.new EXCEPT !.status = next] \in Row
      BY <1>0, <2>1, <2>2 DEF Row
    <2>6. r \in Request /\ r.user = u /\ r.inc = i
      BY <2>2, <2>3, <2>5 DEF Request
    <2> HIDE DEF r
    <2>7. QED
      BY <2>4, <2>6, BeginType
  <1>4. ASSUME NEW status \in StatusInputs, UpdateIncidentStatus(t, u, i, status)
        PROVE TypeOK'
    <2> DEFINE l == Loaded("status", u, i)
               r == [l EXCEPT !.ready = TRUE, !.logs = TRUE, !.new.status = status, !.new.assignee = u]
    <2>1. l \in Request /\ l.user = u /\ l.inc = i /\ l.new = row[i]
      <3>1. l \in Request /\ l.user = u /\ l.inc = i
        BY <1>0, LoadedType DEF Ops
      <3>2. l.new = row[i]
        BY DEF Loaded, Idle
      <3>3. QED
        BY <3>1, <3>2
    <2>2. Begin(t, r) /\ UNCHANGED Tables
      BY <1>4 DEF UpdateIncidentStatus
    <2> HIDE DEF l
    <2>3. [l.new EXCEPT !.status = status, !.assignee = u] \in Row
      BY <1>0, <2>1, StatusInputsAssumption DEF Row
    <2>4. r \in Request /\ r.user = u /\ r.inc = i
      BY <2>1, <2>3 DEF Request
    <2> HIDE DEF r
    <2>5. QED
      BY <2>2, <2>4, BeginType
  <1>5. ASSUME OpenReview(t, u, i)
        PROVE TypeOK'
    <2> DEFINE r == Loaded("citations", u, i)
    <2>1. r \in Request /\ r.user = u /\ r.inc = i
      BY <1>0, LoadedType DEF Ops
    <2>2. Begin(t, r) /\ UNCHANGED Tables
      BY <1>5 DEF OpenReview
    <2> HIDE DEF r
    <2>3. QED
      BY <2>1, <2>2, BeginType
  <1>6. QED
    BY <1>1, <1>2, <1>3, <1>4, <1>5 DEF Handler

LEMMA ReplaceCitationsType ==
  ASSUME TypeOK, NEW t \in Threads, NEW empty \in BOOLEAN, ReplaceCitations(t, empty)
  PROVE  TypeOK'
  <1> DEFINE r == req[t]
             list == IF empty THEN Null ELSE r.seen.statement
             new == [row[r.inc] EXCEPT !.cites = list]
  <1>1. r \in Request /\ r.user \in Users /\ r.inc \in Incidents /\ row[r.inc] \in Row
    BY DEF TypeOK, ReplaceCitations
  <1>2. list \in OrNull(Statements)
    BY <1>1 DEF Request, Row, OrNull
  <1>3. new \in Row
    BY <1>1, <1>2 DEF Row
  <1>4. /\ req' = [req EXCEPT ![t] = [r EXCEPT !.ready = TRUE, !.seen = row[r.inc], !.new = new]]
        /\ UNCHANGED Tables
    BY DEF ReplaceCitations
  <1> HIDE DEF new, r
  <1>5. QED
    BY <1>1, <1>3, <1>4 DEF TypeOK, Tables, Request

LEMMA AnalysisType ==
  ASSUME TypeOK, NEW t \in Threads, AnalysisSucceeds(t) \/ AnalysisFails(t)
  PROVE  TypeOK'
  <1> DEFINE r == req[t]
  <1>1. r \in Request /\ (r.op # "none" => r.user \in Users /\ r.inc \in Incidents)
    BY DEF TypeOK
  <1>2. CASE AnalysisSucceeds(t)
    <2>1. PICK c \in {Null, r.new.statement} : req' = [req EXCEPT ![t].ready = TRUE, ![t].new.cites = c]
      BY <1>2 DEF AnalysisSucceeds
    <2>2. UNCHANGED Tables
      BY <1>2 DEF AnalysisSucceeds
    <2>3. [r.new EXCEPT !.cites = c] \in Row
      BY <1>1 DEF Request, Row, OrNull
    <2>4. req'[t] = [r EXCEPT !.ready = TRUE, !.new = [r.new EXCEPT !.cites = c]]
      BY <2>1 DEF TypeOK
    <2>5. req' = [req EXCEPT ![t] = req'[t]]
      BY <2>1 DEF TypeOK
    <2>6. req'[t] \in Request /\ req'[t].op = r.op /\ req'[t].user = r.user /\ req'[t].inc = r.inc
      <3> HIDE DEF r
      <3>1. QED
        BY <1>1, <2>3, <2>4 DEF Request
    <2>7. QED
      BY <1>1, <2>2, <2>5, <2>6 DEF TypeOK, Tables
  <1>3. CASE AnalysisFails(t)
    <2> DEFINE now == row[r.inc]
               unloaded == [now EXCEPT !.statement = Null, !.cites = r.new.statement]
               edited == Edited(now, r.new.statement, Null, FALSE)
    <2>1. UNCHANGED Tables /\ r.op \in {"create", "edit"}
      BY <1>3 DEF AnalysisFails, Analysed
    <2>2. r.new \in Row /\ r.new.statement \in OrNull(Statements)
      BY <1>1 DEF Request, Row
    <2>3. CASE r.op = "edit"
      <3>1. now \in Row
        BY <1>1, <2>3 DEF TypeOK
      <3>2. req' = [req EXCEPT ![t] = [r EXCEPT !.ready = TRUE, !.seen = unloaded, !.new = edited]]
        BY <1>3, <2>3 DEF AnalysisFails
      <3> HIDE DEF now, r
      <3>3. edited \in Row /\ unloaded \in Row
        BY <2>2, <3>1 DEF Edited, Row, Statuses, OrNull
      <3> HIDE DEF edited, unloaded
      <3>4. QED
        BY <1>1, <2>1, <3>2, <3>3 DEF TypeOK, Tables, Request
    <2>4. CASE r.op # "edit"
      <3> DEFINE new == [r.new EXCEPT !.cites = Null]
      <3>1. req' = [req EXCEPT ![t] = [r EXCEPT !.ready = TRUE, !.new = new]]
        <4>1. req' = [req EXCEPT ![t] = [r EXCEPT !.ready = TRUE, !.new.cites = Null]]
          BY <1>3, <2>4 DEF AnalysisFails
        <4>2. QED
          BY <4>1
      <3> HIDE DEF r
      <3>2. new \in Row
        BY <2>2 DEF Row, OrNull
      <3> HIDE DEF new
      <3>3. QED
        BY <1>1, <2>1, <3>1, <3>2 DEF TypeOK, Tables, Request
    <2>5. QED
      BY <2>3, <2>4
  <1>4. QED
    BY <1>2, <1>3

LEMMA CommitType ==
  ASSUME TypeOK, NEW t \in Threads, Commit(t)
  PROVE  TypeOK'
  <1> DEFINE r == req[t]
             i == r.inc
  <1>1. r \in Request /\ r.user \in Users /\ i \in Incidents
    BY DEF TypeOK, Commit
  <1>2. Flush(row[i], r.seen, r.new) \in Row
    BY <1>1, FlushType DEF TypeOK, Request
  <1>3. row' \in [Incidents -> Row]
    BY <1>1, <1>2 DEF TypeOK, Commit
  <1>4. EventOf(r) \in Event
    <2>1. r.op \in Ops /\ r.new.status \in Statuses
      BY <1>1 DEF Commit, Request, Row
    <2>2. QED
      BY <1>1, <2>1 DEF EventOf, Event, OrNull
  <1>5. events' \in [Incidents -> Seq(Event)]
    BY <1>1, <1>4 DEF TypeOK, Commit
  <1>6. r.says # Null => CommentOf(r) \in Comment
    BY <1>1 DEF CommentOf, Comment, OrNull, Request
  <1>7. comments' \in [Incidents -> Seq(Comment)]
    BY <1>1, <1>6 DEF TypeOK, Commit
  <1>8. /\ req' \in [Threads -> Request]
        /\ \A x \in Threads : req'[x].op # "none" => req'[x].user \in Users /\ req'[x].inc \in Incidents
    <2>1. Idle.op = "none"
      BY DEF Idle
    <2>2. QED
      BY <2>1, IdleType DEF TypeOK, Commit
  <1>9. stored' \subseteq Incidents /\ UNCHANGED <<accounts, managers>>
    BY <1>1 DEF TypeOK, Commit
  <1>10. QED
    BY <1>3, <1>5, <1>7, <1>8, <1>9 DEF TypeOK

LEMMA DeleteAccountType ==
  ASSUME TypeOK, NEW u \in Users, DeleteAccount(u)
  PROVE  TypeOK'
  <1>1. row' \in [Incidents -> Row]
    <2>1. ASSUME NEW x \in Row
          PROVE [x EXCEPT !.creator = Forget(@, u), !.assignee = Forget(@, u)] \in Row
      <3>1. Forget(x.creator, u) \in OrNull(Users) /\ Forget(x.assignee, u) \in OrNull(Users)
        BY DEF Row, Forget, OrNull
      <3>2. QED
        BY <3>1 DEF Row
    <2>2. QED
      BY <2>1 DEF TypeOK, DeleteAccount
  <1>2. events' \in [Incidents -> Seq(Event)]
    BY EventsForgetType DEF TypeOK, DeleteAccount
  <1>3. comments' \in [Incidents -> Seq(Comment)]
    BY CommentsForgetType DEF TypeOK, DeleteAccount
  <1>4. QED
    BY <1>1, <1>2, <1>3 DEF TypeOK, DeleteAccount

\* Every variable keeps its type.
THEOREM TypeCorrect == Spec => []TypeOK
  <1>1. Init => TypeOK
    <2>1. Idle.op = "none"
      BY DEF Idle
    <2>2. QED
      BY <2>1, BlankRowType, IdleType DEF Init, TypeOK
  <1>2. TypeOK /\ [Next]_vars => TypeOK'
    <2> SUFFICES ASSUME TypeOK, [Next]_vars PROVE TypeOK'
      OBVIOUS
    <2>1. ASSUME NEW t \in Threads, NEW u \in Users, NEW i \in Incidents, Handler(t, u, i)
          PROVE TypeOK'
      BY <2>1, HandlerType
    <2>2. ASSUME NEW t \in Threads, NEW empty \in BOOLEAN, ReplaceCitations(t, empty)
          PROVE TypeOK'
      BY <2>2, ReplaceCitationsType
    <2>3. ASSUME NEW t \in Threads, AnalysisSucceeds(t) \/ AnalysisFails(t)
          PROVE TypeOK'
      BY <2>3, AnalysisType
    <2>4. ASSUME NEW t \in Threads, Commit(t)
          PROVE TypeOK'
      BY <2>4, CommitType
    <2>5. ASSUME NEW t \in Threads, CommitFails(t)
          PROVE TypeOK'
      <3>1. Idle.op = "none"
        BY DEF Idle
      <3>2. QED
        BY <2>5, <3>1, IdleType DEF TypeOK, CommitFails, Tables
    <2>6. ASSUME NEW u \in Users, SwitchRole(u)
          PROVE TypeOK'
      BY <2>6 DEF TypeOK, SwitchRole
    <2>7. ASSUME NEW u \in Users, DeleteAccount(u)
          PROVE TypeOK'
      BY <2>7, DeleteAccountType
    <2>8. CASE UNCHANGED vars
      BY <2>8 DEF TypeOK, vars
    <2>9. QED
      BY <2>1, <2>2, <2>3, <2>4, <2>5, <2>6, <2>7, <2>8 DEF Next
  <1>3. QED
    BY <1>1, <1>2, PTL DEF Spec

-----------------------------------------------------------------------------
(* The inductive invariant *)

\* A new request that fits its report keeps the invariant: the tables do not move.
LEMMA BeginKeepsInv ==
  ASSUME IInv, NEW t \in Threads, NEW r, Begin(t, r), UNCHANGED Tables, TypeOK',
         RequestFits(r), r.op = "create" => r.inc \notin Reserved
  PROVE  IInv'
  <1>1. req' = [req EXCEPT ![t] = r] /\ UNCHANGED <<accounts, managers, stored, row, events, comments>>
    BY DEF Begin, Tables
  <1>2. RequestFits(r)'  <=> RequestFits(r)
    BY <1>1 DEF RequestFits
  <1>3. \A x \in Threads : RequestFits(req[x])'
    <2>1. ASSUME NEW x \in Threads PROVE RequestFits(req[x])'
      <3>1. CASE x = t
        <4>1. req'[x] = r
          BY <1>1, <3>1 DEF IInv, TypeOK
        <4>2. QED
          BY <1>1, <4>1 DEF RequestFits
      <3>2. CASE x # t
        <4>1. req'[x] = req[x]
          BY <1>1, <3>2 DEF IInv, TypeOK
        <4>2. RequestFits(req[x])
          BY DEF IInv
        <4>3. QED
          BY <1>1, <4>1, <4>2 DEF RequestFits
      <3>3. QED
        BY <3>1, <3>2
    <2>2. QED
      BY <2>1
  <1>4. CreatesApart'
    BY <1>1 DEF IInv, CreatesApart, Reserved, TypeOK
  <1>5. UnstoredIsBlank' /\ StatusIsLogged' /\ AssigneeTookCharge' /\ RequesterSideIsCreators'
    BY <1>1 DEF IInv, UnstoredIsBlank, StatusIsLogged, AssigneeTookCharge, RequesterSideIsCreators
  <1>6. QED
    BY <1>3, <1>4, <1>5 DEF IInv

\* Each handler begins with a request that fits.
LEMMA HandlerKeepsInv ==
  ASSUME IInv, NEW t \in Threads, NEW u \in Users, NEW i \in Incidents, Handler(t, u, i)
  PROVE  IInv'
  <1>1. TypeOK'
    BY HandlerType DEF IInv
  <1>2. Null \notin RequesterKinds /\ Null \notin Users
    BY NullAssumption DEF CommentKinds
  <1>3. ASSUME NEW s \in Statements, NEW isDraft \in BOOLEAN, CreateIncident(t, u, i, s, isDraft)
        PROVE IInv'
    <2> DEFINE r == [Idle EXCEPT !.op = "create", !.user = u, !.manager = u \in managers,
                       !.inc = i, !.ready = isDraft, !.logs = TRUE,
                       !.new = [BlankRow EXCEPT !.creator = u, !.statement = s,
                                  !.status = IF isDraft THEN "draft" ELSE "review_requested"]]
    <2>1. Begin(t, r) /\ UNCHANGED Tables /\ i \notin stored /\ i \notin Reserved
      BY <1>3 DEF CreateIncident
    <2>2. /\ r.op = "create" /\ r.user = u /\ r.inc = i /\ r.logs /\ r.seen = BlankRow
          /\ r.says = Null /\ r.new.creator = u /\ r.new.assignee = Null /\ BlankRow.assignee = Null
      BY DEF Idle, BlankRow
    <2> HIDE DEF r
    <2>3. RequestFits(r)
      BY <1>2, <2>1, <2>2 DEF RequestFits
    <2>4. QED
      BY <1>1, <2>1, <2>2, <2>3, BeginKeepsInv
  <1>4. ASSUME NEW s \in Statements, NEW isDraft \in BOOLEAN, EditIncident(t, u, i, s, isDraft)
        PROVE IInv'
    <2> DEFINE new == Edited(row[i], s, row[i].cites, isDraft)
               r == [Loaded("edit", u, i) EXCEPT !.ready = isDraft, !.logs = TRUE, !.new = new]
    <2>1. Begin(t, r) /\ UNCHANGED Tables /\ i \in stored /\ row[i].creator = u
      BY <1>4 DEF EditIncident
    <2>2. new.creator = row[i].creator /\ new.assignee = row[i].assignee
      BY DEF Edited, IInv, TypeOK, Row
    <2> HIDE DEF new
    <2>3. /\ r.op = "edit" /\ r.user = u /\ r.inc = i /\ r.logs /\ r.seen = row[i]
          /\ r.says = Null /\ r.new = new
      BY DEF Loaded, Idle
    <2> HIDE DEF r
    <2>4. RequestFits(r)
      BY <2>1, <2>2, <2>3 DEF RequestFits
    <2>5. QED
      BY <1>1, <2>1, <2>3, <2>4, BeginKeepsInv
  <1>5. ASSUME NEW kind \in CommentKinds, AddComment(t, u, i, kind)
        PROVE IInv'
    <2> DEFINE next == NextStatus(kind, row[i].status)
               moves == next # row[i].status
               r == [Loaded("comment", u, i) EXCEPT !.ready = TRUE, !.logs = moves, !.says = kind,
                                                    !.new.status = next]
    <2>1. Begin(t, r) /\ UNCHANGED Tables /\ i \in stored /\ MaySay(u, i, kind)
      BY <1>5 DEF AddComment
    <2>2. kind \in RequesterKinds => row[i].creator = u
      <3>1. kind \in RequesterKinds => kind \notin ManagerKinds
        BY DEF RequesterKinds, ManagerKinds
      <3>2. QED
        BY <2>1, <3>1 DEF MaySay, CanView
    <2>3. moves <=> next # row[i].status
      OBVIOUS
    <2> HIDE DEF next, moves
    <2>4. /\ r.op = "comment" /\ r.user = u /\ r.inc = i /\ r.logs = moves /\ r.seen = row[i]
          /\ r.says = kind /\ r.new = [row[i] EXCEPT !.status = next]
      BY DEF Loaded, Idle
    <2> HIDE DEF r
    <2>5. r.new.creator = row[i].creator /\ r.new.assignee = row[i].assignee /\ r.new.status = next
      BY <2>4 DEF IInv, TypeOK, Row
    <2>6. RequestFits(r)
      BY <2>1, <2>2, <2>3, <2>4, <2>5 DEF RequestFits
    <2>7. QED
      BY <1>1, <2>1, <2>4, <2>6, BeginKeepsInv
  <1>6. ASSUME NEW status \in StatusInputs, UpdateIncidentStatus(t, u, i, status)
        PROVE IInv'
    <2> DEFINE r == [Loaded("status", u, i) EXCEPT !.ready = TRUE, !.logs = TRUE,
                       !.new.status = status, !.new.assignee = u]
    <2>1. Begin(t, r) /\ UNCHANGED Tables /\ i \in stored
      BY <1>6 DEF UpdateIncidentStatus
    <2>2. /\ r.op = "status" /\ r.user = u /\ r.inc = i /\ r.logs /\ r.seen = row[i]
          /\ r.says = Null /\ r.new = [row[i] EXCEPT !.status = status, !.assignee = u]
      BY DEF Loaded, Idle
    <2> HIDE DEF r
    <2>3. r.new.creator = row[i].creator /\ r.new.assignee = u
      BY <2>2 DEF IInv, TypeOK, Row
    <2>4. RequestFits(r)
      BY <1>2, <2>1, <2>2, <2>3 DEF RequestFits
    <2>5. QED
      BY <1>1, <2>1, <2>2, <2>4, BeginKeepsInv
  <1>7. ASSUME OpenReview(t, u, i)
        PROVE IInv'
    <2> DEFINE r == Loaded("citations", u, i)
    <2>1. Begin(t, r) /\ UNCHANGED Tables /\ i \in stored
      BY <1>7 DEF OpenReview
    <2>2. /\ r.op = "citations" /\ r.user = u /\ r.inc = i /\ r.seen = row[i] /\ r.new = row[i]
          /\ r.says = Null
      BY DEF Loaded, Idle
    <2> HIDE DEF r
    <2>3. RequestFits(r)
      BY <1>2, <2>1, <2>2 DEF RequestFits
    <2>4. QED
      BY <1>1, <2>1, <2>2, <2>3, BeginKeepsInv
  <1>8. QED
    BY <1>3, <1>4, <1>5, <1>6, <1>7 DEF Handler

\* A request may be replaced by one that fits, stays with its report and is
\* of the same handler.
LEMMA RequestStepKeepsInv ==
  ASSUME IInv, NEW t \in Threads, NEW r, req' = [req EXCEPT ![t] = r], UNCHANGED Tables, TypeOK',
         RequestFits(r), r.op \in {req[t].op, "none"}, r.inc = req[t].inc \/ r.op = "none"
  PROVE  IInv'
  <1>1. UNCHANGED <<accounts, managers, stored, row, events, comments>>
    BY DEF Tables
  <1>2. ASSUME NEW x \in Threads PROVE RequestFits(req[x])'
    <2>1. CASE x = t
      <3>1. req'[x] = r
        BY <2>1 DEF IInv, TypeOK
      <3>2. QED
        BY <1>1, <3>1 DEF RequestFits
    <2>2. CASE x # t
      <3>1. req'[x] = req[x]
        BY <2>2 DEF IInv, TypeOK
      <3>2. RequestFits(req[x])
        BY DEF IInv
      <3>3. QED
        BY <1>1, <3>1, <3>2 DEF RequestFits
    <2>3. QED
      BY <2>1, <2>2
  <1>3. CreatesApart'
    BY DEF IInv, CreatesApart, TypeOK
  <1>4. UnstoredIsBlank' /\ StatusIsLogged' /\ AssigneeTookCharge' /\ RequesterSideIsCreators'
    BY <1>1 DEF IInv, UnstoredIsBlank, StatusIsLogged, AssigneeTookCharge, RequesterSideIsCreators
  <1>5. QED
    BY <1>2, <1>3, <1>4 DEF IInv

LEMMA IdleFits == RequestFits(Idle)
  <1>1. Null \notin RequesterKinds
    BY NullAssumption DEF CommentKinds
  <1>2. QED
    BY <1>1 DEF RequestFits, Idle

LEMMA ReplaceCitationsKeepsInv ==
  ASSUME IInv, NEW t \in Threads, NEW empty \in BOOLEAN, ReplaceCitations(t, empty)
  PROVE  IInv'
  <1> DEFINE list == IF empty THEN Null ELSE req[t].seen.statement
             new == [row[req[t].inc] EXCEPT !.cites = list]
             r == [req[t] EXCEPT !.ready = TRUE, !.seen = row[req[t].inc], !.new = new]
  <1>1. TypeOK'
    BY ReplaceCitationsType DEF IInv
  <1>2. req[t] \in Request /\ req[t].op = "citations" /\ row[req[t].inc] \in Row /\ RequestFits(req[t])
    BY DEF IInv, TypeOK, ReplaceCitations
  <1>3. req' = [req EXCEPT ![t] = r] /\ UNCHANGED Tables
    BY DEF ReplaceCitations
  <1>4. /\ new.creator = row[req[t].inc].creator /\ new.assignee = row[req[t].inc].assignee
        /\ new.status = row[req[t].inc].status
    BY <1>2 DEF Row
  <1> HIDE DEF new
  <1>5. /\ r.op = req[t].op /\ r.inc = req[t].inc /\ r.user = req[t].user /\ r.says = req[t].says
        /\ r.logs = req[t].logs /\ r.seen = row[req[t].inc] /\ r.new = new
    BY <1>2 DEF Request
  <1> HIDE DEF r
  <1>6. RequestFits(r)
    BY <1>2, <1>4, <1>5 DEF RequestFits
  <1>7. QED
    BY <1>1, <1>3, <1>5, <1>6, RequestStepKeepsInv

LEMMA AnalysisKeepsInv ==
  ASSUME IInv, NEW t \in Threads, AnalysisSucceeds(t) \/ AnalysisFails(t)
  PROVE  IInv'
  <1>1. TypeOK'
    BY AnalysisType DEF IInv
  <1>2. req[t] \in Request /\ RequestFits(req[t])
    BY DEF IInv, TypeOK
  <1>3. CASE AnalysisSucceeds(t)
    <2>1. PICK c \in {Null, req[t].new.statement} :
            req' = [req EXCEPT ![t].ready = TRUE, ![t].new.cites = c]
      BY <1>3 DEF AnalysisSucceeds
    <2> DEFINE r == [req[t] EXCEPT !.ready = TRUE, !.new = [req[t].new EXCEPT !.cites = c]]
    <2>2. req' = [req EXCEPT ![t] = r] /\ UNCHANGED Tables
      <3>1. req' = [req EXCEPT ![t] = r]
        BY <1>2, <2>1 DEF IInv, TypeOK, Request
      <3>2. QED
        BY <1>3, <3>1 DEF AnalysisSucceeds
    <2>3. /\ r.op = req[t].op /\ r.inc = req[t].inc /\ r.user = req[t].user /\ r.says = req[t].says
          /\ r.logs = req[t].logs /\ r.seen = req[t].seen
          /\ r.new.creator = req[t].new.creator /\ r.new.assignee = req[t].new.assignee
          /\ r.new.status = req[t].new.status
      BY <1>2 DEF Request, Row
    <2> HIDE DEF r
    <2>4. RequestFits(r)
      BY <1>2, <2>3 DEF RequestFits
    <2>5. QED
      BY <1>1, <2>2, <2>3, <2>4, RequestStepKeepsInv
  <1>4. CASE AnalysisFails(t) /\ req[t].op = "edit"
    <2> DEFINE now == row[req[t].inc]
               unloaded == [now EXCEPT !.statement = Null, !.cites = req[t].new.statement]
               edited == Edited(now, req[t].new.statement, Null, FALSE)
               r == [req[t] EXCEPT !.ready = TRUE, !.seen = unloaded, !.new = edited]
    <2>1. req' = [req EXCEPT ![t] = r] /\ UNCHANGED Tables
      BY <1>4 DEF AnalysisFails
    <2>2. now \in Row
      BY <1>4 DEF IInv, TypeOK
    <2>3. /\ unloaded.creator = now.creator /\ unloaded.assignee = now.assignee
          /\ edited.creator = now.creator /\ edited.assignee = now.assignee
      BY <2>2 DEF Edited, Row
    <2> HIDE DEF now, unloaded, edited
    <2>4. /\ r.op = req[t].op /\ r.inc = req[t].inc /\ r.user = req[t].user /\ r.says = req[t].says
          /\ r.logs = req[t].logs /\ r.seen = unloaded /\ r.new = edited
      BY <1>2 DEF Request
    <2> HIDE DEF r
    <2>5. RequestFits(r)
      BY <1>2, <1>4, <2>3, <2>4 DEF RequestFits
    <2>6. QED
      BY <1>1, <1>4, <2>1, <2>4, <2>5, RequestStepKeepsInv
  <1>5. CASE AnalysisFails(t) /\ req[t].op # "edit"
    <2> DEFINE new == [req[t].new EXCEPT !.cites = Null]
               r == [req[t] EXCEPT !.ready = TRUE, !.new = new]
    <2>1. req' = [req EXCEPT ![t] = r] /\ UNCHANGED Tables
      <3>1. req' = [req EXCEPT ![t] = [req[t] EXCEPT !.ready = TRUE, !.new.cites = Null]]
        BY <1>5 DEF AnalysisFails
      <3>2. QED
        BY <1>5, <3>1 DEF AnalysisFails
    <2>2. /\ new.creator = req[t].new.creator /\ new.assignee = req[t].new.assignee
          /\ new.status = req[t].new.status
      BY <1>2 DEF Request, Row
    <2> HIDE DEF new
    <2>3. /\ r.op = req[t].op /\ r.inc = req[t].inc /\ r.user = req[t].user /\ r.says = req[t].says
          /\ r.logs = req[t].logs /\ r.seen = req[t].seen /\ r.new = new
      BY <1>2 DEF Request
    <2> HIDE DEF r
    <2>4. RequestFits(r)
      BY <1>2, <2>2, <2>3 DEF RequestFits
    <2>5. QED
      BY <1>1, <2>1, <2>2, <2>3, <2>4, RequestStepKeepsInv
  <1>6. QED
    BY <1>3, <1>4, <1>5

\* The commit of a request that fits: what it writes is backed by what it logs.
LEMMA CommitKeepsInv ==
  ASSUME IInv, NEW t \in Threads, Commit(t)
  PROVE  IInv'
  <1> DEFINE r == req[t]
             i == r.inc
             flushed == Flush(row[i], r.seen, r.new)
  <1>1. TypeOK'
    BY CommitType DEF IInv
  <1>2. /\ r \in Request /\ r.user \in Users /\ i \in Incidents /\ RequestFits(r)
        /\ r.op # "none" /\ (ReferencesUser(r) => r.user \in accounts)
    BY DEF IInv, TypeOK, Commit
  <1>3. /\ stored' = stored \cup {i}
        /\ row' = [row EXCEPT ![i] = flushed]
        /\ events' = IF r.logs THEN [events EXCEPT ![i] = Append(@, EventOf(r))] ELSE events
        /\ comments' = IF r.says # Null THEN [comments EXCEPT ![i] = Append(@, CommentOf(r))] ELSE comments
        /\ req' = [req EXCEPT ![t] = Idle]
        /\ UNCHANGED <<accounts, managers>>
    BY DEF Commit
  <1>4. /\ flushed.status = Written(row[i].status, r.seen.status, r.new.status)
        /\ flushed.creator = Written(row[i].creator, r.seen.creator, r.new.creator)
        /\ flushed.assignee = Written(row[i].assignee, r.seen.assignee, r.new.assignee)
    BY DEF Flush
  <1>5. \A j \in Incidents : row'[j] = IF j = i THEN flushed ELSE row[j]
    BY <1>2, <1>3 DEF IInv, TypeOK
  <1> HIDE DEF flushed
  <1>6. \A j \in Incidents : events[j] \in Seq(Event) /\ comments[j] \in Seq(Comment)
    BY DEF IInv, TypeOK
  <1>7. ASSUME NEW j \in Incidents
        PROVE  /\ events'[j] = IF j = i /\ r.logs THEN Append(events[j], EventOf(r)) ELSE events[j]
               /\ comments'[j] = IF j = i /\ r.says # Null THEN Append(comments[j], CommentOf(r)) ELSE comments[j]
    BY <1>3 DEF IInv, TypeOK
  <1>7e. ASSUME NEW j \in Incidents
        PROVE  /\ \A k \in DOMAIN events[j] : k \in DOMAIN events'[j] /\ events'[j][k] = events[j][k]
               /\ \A k \in DOMAIN events'[j] \ DOMAIN events[j] : events'[j][k] = EventOf(r)
    <2>1. EventOf(r) \in Event
      <3>1. r.op \in Ops /\ r.new.status \in Statuses
        BY <1>2 DEF Request, Row
      <3>2. QED
        BY <1>2, <3>1 DEF EventOf, Event, OrNull
    <2>2. events'[j] \in {events[j], Append(events[j], EventOf(r))}
      BY <1>7
    <2>3. QED
      BY <1>6, <2>1, <2>2, AppendKeeps
  <1>7c. ASSUME NEW j \in Incidents
        PROVE  /\ \A k \in DOMAIN comments[j] : k \in DOMAIN comments'[j] /\ comments'[j][k] = comments[j][k]
               /\ \A k \in DOMAIN comments'[j] \ DOMAIN comments[j] :
                    comments'[j][k] = CommentOf(r) /\ r.says # Null
    <2>1. CASE r.says = Null
      BY <1>7, <2>1
    <2>2. CASE r.says # Null
      <3>1. CommentOf(r) \in Comment
        BY <1>2, <2>2 DEF CommentOf, Comment, OrNull, Request
      <3>2. comments'[j] \in {comments[j], Append(comments[j], CommentOf(r))}
        BY <1>7
      <3>3. QED
        BY <1>6, <2>2, <3>1, <3>2, AppendKeeps
    <2>3. QED
      BY <2>1, <2>2
  \* A report that is created now had no row and no history before.
  <1>8. r.op = "create" =>
          /\ i \notin stored /\ row[i] = BlankRow /\ r.seen = BlankRow
          /\ events[i] = <<>> /\ comments[i] = <<>> /\ r.logs
    BY <1>2 DEF RequestFits, IInv, UnstoredIsBlank
  <1>9. r.op # "create" => i \in stored
    BY <1>2 DEF RequestFits
  \* Its creator is the requester from the start, and is never rewritten.
  <1>10. r.op # "create" => flushed.creator = row[i].creator
    BY <1>2, <1>4 DEF RequestFits, Written
  <1>11. r.op = "create" => flushed.creator = r.user
    BY <1>2, <1>4, <1>8 DEF RequestFits, Written, BlankRow
  <1>12. r.says # Null => r.op = "comment"
    BY <1>2 DEF RequestFits
  <1>13. \A x \in Threads : RequestFits(req[x])'
    <2>1. ASSUME NEW x \in Threads PROVE RequestFits(req[x])'
      <3>1. CASE x = t
        <4>1. req'[x] = Idle
          BY <1>3, <3>1 DEF IInv, TypeOK
        <4>2. Null \notin RequesterKinds
          BY NullAssumption DEF CommentKinds
        <4>3. QED
          BY <4>1, <4>2 DEF RequestFits, Idle
      <3>2. CASE x # t
        <4>1. req'[x] = req[x]
          BY <1>3, <3>2 DEF IInv, TypeOK
        <4>2. RequestFits(req[x])
          BY DEF IInv
        <4>3. req[x].op = "create" => req[x].inc \notin stored'
          <5>1. req[x].op = "create" /\ r.op = "create" => req[x].inc # i
            BY <3>2 DEF IInv, CreatesApart
          <5>2. QED
            BY <1>3, <1>9, <4>2, <5>1 DEF RequestFits
        <4>4. /\ req[x].op = "edit" \/ req[x].says \in RequesterKinds
              /\ req[x].user \in accounts
              => row'[req[x].inc].creator = req[x].user
          <5>1. SUFFICES ASSUME req[x].op = "edit" \/ req[x].says \in RequesterKinds,
                                req[x].user \in accounts
                         PROVE  row'[req[x].inc].creator = req[x].user
            OBVIOUS
          <5>2. req[x].op \notin {"none", "create"}
            <6>1. Null \notin RequesterKinds
              BY NullAssumption DEF CommentKinds
            <6>2. QED
              BY <4>2, <5>1, <6>1 DEF RequestFits
          <5>3. req[x].inc \in stored /\ row[req[x].inc].creator = req[x].user
            BY <4>2, <5>1, <5>2 DEF RequestFits
          <5>4. req[x].inc \in Incidents
            BY <5>2 DEF IInv, TypeOK
          <5>5. req[x].inc = i => row'[i].creator = row[i].creator
            BY <1>5, <1>8, <1>10, <5>3, <5>4
          <5>6. QED
            BY <1>5, <5>3, <5>4, <5>5
        <4>5. QED
          BY <1>3, <4>1, <4>2, <4>3, <4>4 DEF RequestFits
      <3>3. QED
        BY <3>1, <3>2
    <2>2. QED
      BY <2>1
  <1>14. CreatesApart'
    BY <1>3 DEF IInv, CreatesApart, TypeOK, Idle
  <1>15. UnstoredIsBlank'
    BY <1>3, <1>5, <1>7 DEF IInv, UnstoredIsBlank
  <1>16. StatusIsLogged'
    <2>1. ASSUME NEW j \in stored'
          PROVE \E k \in DOMAIN events'[j] : events'[j][k].status = row'[j].status
      <3>0. j \in Incidents
        BY <1>1, <2>1 DEF TypeOK
      <3>1. CASE j # i
        <4>1. j \in stored /\ events'[j] = events[j] /\ row'[j] = row[j]
          BY <1>3, <1>5, <1>7, <2>1, <3>0, <3>1
        <4>2. QED
          BY <4>1 DEF IInv, StatusIsLogged
      <3>2. CASE j = i /\ r.new.status # r.seen.status
        <4>1. r.logs /\ row'[j].status = r.new.status
          BY <1>2, <1>4, <1>5, <3>0, <3>2 DEF RequestFits, Written
        <4>2. events'[j] = Append(events[j], EventOf(r))
          BY <1>7, <3>0, <3>2, <4>1
        <4>3. /\ Len(events[j]) + 1 \in DOMAIN events'[j]
              /\ events'[j][Len(events[j]) + 1] = EventOf(r)
          BY <1>6, <3>0, <4>2
        <4>4. EventOf(r).status = r.new.status
          BY DEF EventOf
        <4>5. QED
          BY <4>1, <4>3, <4>4
      <3>3. CASE j = i /\ r.new.status = r.seen.status /\ r.op # "create"
        <4>1. j \in stored /\ row'[j].status = row[j].status
          BY <1>4, <1>5, <1>9, <3>0, <3>3 DEF Written
        <4>2. PICK k \in DOMAIN events[j] : events[j][k].status = row[j].status
          BY <4>1 DEF IInv, StatusIsLogged
        <4>3. k \in DOMAIN events'[j] /\ events'[j][k] = events[j][k]
          BY <1>7e, <3>0, <4>2
        <4>4. QED
          BY <4>1, <4>2, <4>3
      <3>4. CASE j = i /\ r.new.status = r.seen.status /\ r.op = "create"
        <4>1. r.logs /\ row'[j].status = r.new.status
          BY <1>4, <1>5, <1>8, <3>0, <3>4 DEF Written
        <4>2. events'[j] = Append(events[j], EventOf(r))
          BY <1>7, <3>0, <3>4, <4>1
        <4>3. /\ Len(events[j]) + 1 \in DOMAIN events'[j]
              /\ events'[j][Len(events[j]) + 1] = EventOf(r)
          BY <1>6, <3>0, <4>2
        <4>4. EventOf(r).status = r.new.status
          BY DEF EventOf
        <4>5. QED
          BY <4>1, <4>3, <4>4
      <3>5. QED
        BY <3>1, <3>2, <3>3, <3>4
    <2>2. QED
      BY <2>1 DEF StatusIsLogged
  <1>17. AssigneeTookCharge'
    <2>1. ASSUME NEW j \in stored', row'[j].assignee # Null
          PROVE \E k \in DOMAIN events'[j] :
                  events'[j][k].actor = row'[j].assignee /\ events'[j][k].op = "status"
      <3>0. j \in Incidents
        BY <1>1, <2>1 DEF TypeOK
      <3>1. CASE j # i
        <4>1. j \in stored /\ events'[j] = events[j] /\ row'[j] = row[j]
          BY <1>3, <1>5, <1>7, <2>1, <3>0, <3>1
        <4>2. QED
          BY <2>1, <4>1 DEF IInv, AssigneeTookCharge
      <3>2. CASE j = i /\ r.new.assignee # r.seen.assignee
        <4>1. r.logs /\ r.op = "status" /\ row'[j].assignee = r.user
          BY <1>2, <1>4, <1>5, <3>0, <3>2 DEF RequestFits, Written
        <4>2. events'[j] = Append(events[j], EventOf(r))
          BY <1>7, <3>0, <3>2, <4>1
        <4>3. /\ Len(events[j]) + 1 \in DOMAIN events'[j]
              /\ events'[j][Len(events[j]) + 1] = EventOf(r)
          BY <1>6, <3>0, <4>2
        <4>4. EventOf(r).actor = r.user /\ EventOf(r).op = r.op
          BY DEF EventOf
        <4>5. QED
          BY <4>1, <4>3, <4>4
      <3>3. CASE j = i /\ r.new.assignee = r.seen.assignee
        <4>1. row'[j].assignee = row[j].assignee
          BY <1>4, <1>5, <3>0, <3>3 DEF Written
        <4>2. j \in stored
          BY <1>8, <1>9, <2>1, <3>3, <4>1 DEF BlankRow
        <4>3. PICK k \in DOMAIN events[j] :
                events[j][k].actor = row[j].assignee /\ events[j][k].op = "status"
          BY <2>1, <4>1, <4>2 DEF IInv, AssigneeTookCharge
        <4>4. k \in DOMAIN events'[j] /\ events'[j][k] = events[j][k]
          BY <1>7e, <3>0, <4>3
        <4>5. QED
          BY <4>1, <4>3, <4>4
      <3>4. QED
        BY <3>1, <3>2, <3>3
    <2>2. QED
      BY <2>1 DEF AssigneeTookCharge
  <1>18. RequesterSideIsCreators'
    <2>1. ASSUME NEW j \in stored'
          PROVE  /\ \A k \in DOMAIN events'[j] :
                      events'[j][k].op \in {"create", "edit"} => events'[j][k].actor = row'[j].creator
                 /\ \A k \in DOMAIN comments'[j] :
                      comments'[j][k].kind \in RequesterKinds => comments'[j][k].author = row'[j].creator
      <3>0. j \in Incidents
        BY <1>1, <2>1 DEF TypeOK
      <3>1. CASE j # i
        <4>1. j \in stored /\ events'[j] = events[j] /\ comments'[j] = comments[j] /\ row'[j] = row[j]
          BY <1>3, <1>5, <1>7, <2>1, <3>0, <3>1
        <4>2. QED
          BY <4>1 DEF IInv, RequesterSideIsCreators
      <3>2. CASE j = i /\ r.op = "create"
        <4>1. DOMAIN events[j] = {} /\ DOMAIN comments[j] = {} /\ r.says = Null
          BY <1>8, <1>12, <3>2
        <4>2. EventOf(r).actor = r.user /\ row'[j].creator = r.user
          BY <1>5, <1>11, <3>0, <3>2 DEF EventOf
        <4>3. QED
          BY <1>7e, <1>7c, <3>0, <4>1, <4>2
      <3>3. CASE j = i /\ r.op # "create"
        <4>1. j \in stored /\ row'[j].creator = row[j].creator
          BY <1>5, <1>9, <1>10, <3>0, <3>3
        <4>2. r.op = "edit" => EventOf(r).actor = row[j].creator
          BY <1>2, <3>3 DEF EventOf, RequestFits, ReferencesUser
        <4>3. r.says \in RequesterKinds /\ r.says # Null => CommentOf(r).author = row[j].creator
          BY <1>2, <1>12, <3>3 DEF CommentOf, RequestFits, ReferencesUser
        <4>4. EventOf(r).op = r.op /\ CommentOf(r).kind = r.says
          BY DEF EventOf, CommentOf
        <4>5. ASSUME NEW k \in DOMAIN events'[j], events'[j][k].op \in {"create", "edit"}
              PROVE  events'[j][k].actor = row'[j].creator
          <5>1. CASE k \in DOMAIN events[j]
            <6>1. events'[j][k] = events[j][k]
              BY <1>7e, <3>0, <5>1
            <6>2. QED
              BY <4>1, <4>5, <5>1, <6>1 DEF IInv, RequesterSideIsCreators
          <5>2. CASE k \notin DOMAIN events[j]
            <6>1. events'[j][k] = EventOf(r)
              BY <1>7e, <3>0, <4>5, <5>2
            <6>2. QED
              BY <3>3, <4>1, <4>2, <4>4, <4>5, <6>1
          <5>3. QED
            BY <5>1, <5>2
        <4>6. ASSUME NEW k \in DOMAIN comments'[j], comments'[j][k].kind \in RequesterKinds
              PROVE  comments'[j][k].author = row'[j].creator
          <5>1. CASE k \in DOMAIN comments[j]
            <6>1. comments'[j][k] = comments[j][k]
              BY <1>7c, <3>0, <5>1
            <6>2. QED
              BY <4>1, <4>6, <5>1, <6>1 DEF IInv, RequesterSideIsCreators
          <5>2. CASE k \notin DOMAIN comments[j]
            <6>1. comments'[j][k] = CommentOf(r) /\ r.says # Null
              BY <1>7c, <3>0, <4>6, <5>2
            <6>2. QED
              BY <4>1, <4>3, <4>4, <4>6, <6>1
          <5>3. QED
            BY <5>1, <5>2
        <4>7. QED
          BY <4>5, <4>6
      <3>4. QED
        BY <3>1, <3>2, <3>3
    <2>2. QED
      BY <2>1 DEF RequesterSideIsCreators
  <1>19. QED
    BY <1>1, <1>13, <1>14, <1>15, <1>16, <1>17, <1>18 DEF IInv

\* Deleting an account forgets it in the row and in the history alike.
LEMMA DeleteAccountKeepsInv ==
  ASSUME IInv, NEW u \in Users, DeleteAccount(u)
  PROVE  IInv'
  <1>1. TypeOK'
    BY DeleteAccountType DEF IInv
  <1>2. Null \notin RequesterKinds /\ Null # u
    BY NullAssumption DEF CommentKinds
  <1>3. accounts' = accounts \ {u} /\ UNCHANGED <<stored, req>>
    BY DEF DeleteAccount
  <1>4. ASSUME NEW j \in Incidents
        PROVE  /\ row'[j].status = row[j].status
               /\ row'[j].creator = Forget(row[j].creator, u)
               /\ row'[j].assignee = Forget(row[j].assignee, u)
    <2>1. row'[j] = [row[j] EXCEPT !.creator = Forget(@, u), !.assignee = Forget(@, u)]
      BY DEF DeleteAccount
    <2>2. row[j] \in Row
      BY DEF IInv, TypeOK
    <2>3. QED
      BY <2>1, <2>2 DEF Row
  <1>5. ASSUME NEW j \in Incidents
        PROVE  /\ DOMAIN events'[j] = DOMAIN events[j]
               /\ \A k \in DOMAIN events[j] :
                    /\ events'[j][k].status = events[j][k].status
                    /\ events'[j][k].op = events[j][k].op
                    /\ events'[j][k].actor = Forget(events[j][k].actor, u)
    <2>1. events'[j] = [k \in DOMAIN events[j] |-> [events[j][k] EXCEPT !.actor = Forget(@, u)]]
      BY DEF DeleteAccount, EventsForget
    <2>2. \A k \in DOMAIN events[j] : events[j][k] \in Event
      BY DEF IInv, TypeOK
    <2>3. QED
      BY <2>1, <2>2 DEF Event
  <1>6. ASSUME NEW j \in Incidents
        PROVE  /\ DOMAIN comments'[j] = DOMAIN comments[j]
               /\ \A k \in DOMAIN comments[j] :
                    /\ comments'[j][k].kind = comments[j][k].kind
                    /\ comments'[j][k].author = Forget(comments[j][k].author, u)
    <2>1. comments'[j] = [k \in DOMAIN comments[j] |-> [comments[j][k] EXCEPT !.author = Forget(@, u)]]
      BY DEF DeleteAccount, CommentsForget
    <2>2. \A k \in DOMAIN comments[j] : comments[j][k] \in Comment
      BY DEF IInv, TypeOK
    <2>3. QED
      BY <2>1, <2>2 DEF Comment
  <1>7. \A x \in Threads : RequestFits(req[x])'
    <2>1. ASSUME NEW x \in Threads PROVE RequestFits(req[x])'
      <3>1. RequestFits(req[x]) /\ req'[x] = req[x]
        BY <1>3 DEF IInv
      <3>2. req[x].op = "edit" \/ req[x].says \in RequesterKinds => req[x].inc \in Incidents
        BY <1>2, <3>1 DEF IInv, TypeOK, RequestFits
      <3>3. /\ req[x].op = "edit" \/ req[x].says \in RequesterKinds
            /\ req[x].user \in accounts'
            => row'[req[x].inc].creator = req[x].user
        BY <1>3, <1>4, <3>1, <3>2 DEF RequestFits, Forget
      <3>4. QED
        BY <1>3, <3>1, <3>3 DEF RequestFits
    <2>2. QED
      BY <2>1
  <1>8. CreatesApart'
    BY <1>3 DEF IInv, CreatesApart
  <1>9. UnstoredIsBlank'
    <2>1. ASSUME NEW j \in Incidents \ stored'
          PROVE row'[j] = BlankRow /\ events'[j] = <<>> /\ comments'[j] = <<>>
      <3>1. row[j] = BlankRow /\ events[j] = <<>> /\ comments[j] = <<>>
        BY <1>3 DEF IInv, UnstoredIsBlank
      <3>2. row'[j] = [row[j] EXCEPT !.creator = Forget(@, u), !.assignee = Forget(@, u)]
        BY DEF DeleteAccount
      <3>3. row'[j] = BlankRow
        <4>1. Forget(BlankRow.creator, u) = Null /\ Forget(BlankRow.assignee, u) = Null
          BY <1>2 DEF BlankRow, Forget
        <4>2. row'[j] = [BlankRow EXCEPT !.creator = Null, !.assignee = Null]
          BY <3>1, <3>2, <4>1
        <4>3. QED
          BY <4>2 DEF BlankRow
      <3>4. events'[j] = <<>>
        <4>1. events'[j] = EventsForget(<<>>, u)
          BY <3>1 DEF DeleteAccount
        <4>2. QED
          BY <4>1 DEF EventsForget
      <3>5. comments'[j] = <<>>
        <4>1. comments'[j] = CommentsForget(<<>>, u)
          BY <3>1 DEF DeleteAccount
        <4>2. QED
          BY <4>1 DEF CommentsForget
      <3>6. QED
        BY <3>3, <3>4, <3>5
    <2>2. QED
      BY <2>1 DEF UnstoredIsBlank
  <1>10. stored \subseteq Incidents
    BY DEF IInv, TypeOK
  <1>11. StatusIsLogged'
    BY <1>3, <1>4, <1>5, <1>10 DEF IInv, StatusIsLogged
  <1>12. AssigneeTookCharge'
    BY <1>2, <1>3, <1>4, <1>5, <1>10 DEF IInv, AssigneeTookCharge, Forget
  <1>13. RequesterSideIsCreators'
    BY <1>3, <1>4, <1>5, <1>6, <1>10 DEF IInv, RequesterSideIsCreators
  <1>14. QED
    BY <1>1, <1>7, <1>8, <1>9, <1>11, <1>12, <1>13 DEF IInv

LEMMA SwitchRoleKeepsInv ==
  ASSUME IInv, NEW u \in Users, SwitchRole(u)
  PROVE  IInv'
  <1>1. TypeOK'
    BY DEF IInv, TypeOK, SwitchRole
  <1>2. UNCHANGED <<accounts, stored, row, events, comments, req>>
    BY DEF SwitchRole
  <1>3. QED
    BY <1>1, <1>2 DEF IInv, RequestFits, CreatesApart, UnstoredIsBlank,
       StatusIsLogged, AssigneeTookCharge, RequesterSideIsCreators

LEMMA CommitFailsKeepsInv ==
  ASSUME IInv, NEW t \in Threads, CommitFails(t)
  PROVE  IInv'
  <1>1. req' = [req EXCEPT ![t] = Idle] /\ UNCHANGED Tables
    BY DEF CommitFails
  <1>2. Idle.op = "none"
    BY DEF Idle
  <1>3. TypeOK'
    BY <1>1, <1>2, IdleType DEF IInv, TypeOK, Tables
  <1>4. QED
    BY <1>1, <1>2, <1>3, IdleFits, RequestStepKeepsInv

\* The inductive invariant holds in every reachable state.
THEOREM Inductive == Spec => []IInv
  <1>1. Init => IInv
    <2> SUFFICES ASSUME Init PROVE IInv
      OBVIOUS
    <2>1. Idle.op = "none"
      BY DEF Idle
    <2>2. TypeOK
      BY <2>1, BlankRowType, IdleType DEF Init, TypeOK
    <2>3. \A t \in Threads : RequestFits(req[t])
      BY IdleFits DEF Init
    <2>4. CreatesApart
      BY <2>1 DEF Init, CreatesApart
    <2>5. UnstoredIsBlank /\ StatusIsLogged /\ AssigneeTookCharge /\ RequesterSideIsCreators
      BY DEF Init, UnstoredIsBlank, StatusIsLogged, AssigneeTookCharge, RequesterSideIsCreators
    <2>6. QED
      BY <2>2, <2>3, <2>4, <2>5 DEF IInv
  <1>2. IInv /\ [Next]_vars => IInv'
    <2> SUFFICES ASSUME IInv, [Next]_vars PROVE IInv'
      OBVIOUS
    <2>1. ASSUME NEW t \in Threads, NEW u \in Users, NEW i \in Incidents, Handler(t, u, i)
          PROVE IInv'
      BY <2>1, HandlerKeepsInv
    <2>2. ASSUME NEW t \in Threads, NEW empty \in BOOLEAN, ReplaceCitations(t, empty)
          PROVE IInv'
      BY <2>2, ReplaceCitationsKeepsInv
    <2>3. ASSUME NEW t \in Threads, AnalysisSucceeds(t) \/ AnalysisFails(t)
          PROVE IInv'
      BY <2>3, AnalysisKeepsInv
    <2>4. ASSUME NEW t \in Threads, Commit(t)
          PROVE IInv'
      BY <2>4, CommitKeepsInv
    <2>5. ASSUME NEW t \in Threads, CommitFails(t)
          PROVE IInv'
      BY <2>5, CommitFailsKeepsInv
    <2>6. ASSUME NEW u \in Users, SwitchRole(u)
          PROVE IInv'
      BY <2>6, SwitchRoleKeepsInv
    <2>7. ASSUME NEW u \in Users, DeleteAccount(u)
          PROVE IInv'
      BY <2>7, DeleteAccountKeepsInv
    <2>8. CASE UNCHANGED vars
      BY <2>8 DEF IInv, vars, TypeOK, RequestFits, CreatesApart, UnstoredIsBlank,
         StatusIsLogged, AssigneeTookCharge, RequesterSideIsCreators
    <2>9. QED
      BY <2>1, <2>2, <2>3, <2>4, <2>5, <2>6, <2>7, <2>8 DEF Next
  <1>3. QED
    BY <1>1, <1>2, PTL DEF Spec

\* The current status of a report is always one its audit trail records.
THEOREM StatusAlwaysLogged == Spec => []StatusIsLogged
  <1>1. IInv => StatusIsLogged
    BY DEF IInv
  <1>2. QED
    BY <1>1, Inductive, PTL

\* The manager in charge of a report is one who took it by a logged status change.
THEOREM AssigneeAlwaysTookCharge == Spec => []AssigneeTookCharge
  <1>1. IInv => AssigneeTookCharge
    BY DEF IInv
  <1>2. QED
    BY <1>1, Inductive, PTL

\* Nobody but its creator ever wrote on the requester's side of a report.
THEOREM RequesterSideAlwaysCreators == Spec => []RequesterSideIsCreators
  <1>1. IInv => RequesterSideIsCreators
    BY DEF IInv
  <1>2. QED
    BY <1>1, Inductive, PTL

-----------------------------------------------------------------------------
(* What a step may never do *)

\* A request is begun by a handler that leaves the tables alone.
LEMMA HandlerBegins ==
  ASSUME NEW t \in Threads, NEW u \in Users, NEW i \in Incidents, Handler(t, u, i)
  PROVE  (\E r : Begin(t, r)) /\ UNCHANGED Tables
  <1>1. ASSUME NEW s \in Statements, NEW isDraft \in BOOLEAN, CreateIncident(t, u, i, s, isDraft)
        PROVE (\E r : Begin(t, r)) /\ UNCHANGED Tables
    BY <1>1 DEF CreateIncident
  <1>2. ASSUME NEW s \in Statements, NEW isDraft \in BOOLEAN, EditIncident(t, u, i, s, isDraft)
        PROVE (\E r : Begin(t, r)) /\ UNCHANGED Tables
    BY <1>2 DEF EditIncident
  <1>3. ASSUME NEW kind \in CommentKinds, AddComment(t, u, i, kind)
        PROVE (\E r : Begin(t, r)) /\ UNCHANGED Tables
    BY <1>3 DEF AddComment
  <1>4. ASSUME NEW status \in StatusInputs, UpdateIncidentStatus(t, u, i, status)
        PROVE (\E r : Begin(t, r)) /\ UNCHANGED Tables
    BY <1>4 DEF UpdateIncidentStatus
  <1>5. CASE OpenReview(t, u, i)
    BY <1>5 DEF OpenReview
  <1>6. QED
    BY <1>1, <1>2, <1>3, <1>4, <1>5 DEF Handler

\* A request is moved by the steps of its own thread only.
LEMMA OwnSteps ==
  ASSUME TypeOK, [Next]_vars, NEW t \in Threads, req'[t] # req[t]
  PROVE  \/ \E u \in Users, i \in Incidents : Handler(t, u, i)
         \/ \E empty \in BOOLEAN : ReplaceCitations(t, empty)
         \/ AnalysisSucceeds(t) \/ AnalysisFails(t)
         \/ Commit(t) \/ CommitFails(t)
  <1>1. req \in [Threads -> Request]
    BY DEF TypeOK
  <1>2. ASSUME NEW x \in Threads, NEW r, req' = [req EXCEPT ![x] = r]
        PROVE x = t
    BY <1>1, <1>2
  <1>3. ASSUME NEW x \in Threads, NEW u \in Users, NEW i \in Incidents, Handler(x, u, i)
        PROVE x = t
    <2>1. PICK r : Begin(x, r)
      BY <1>3, HandlerBegins
    <2>2. QED
      BY <1>2, <2>1 DEF Begin
  <1>4. ASSUME NEW x \in Threads, NEW empty \in BOOLEAN, ReplaceCitations(x, empty)
        PROVE x = t
    BY <1>2, <1>4 DEF ReplaceCitations
  <1>5. ASSUME NEW x \in Threads, AnalysisSucceeds(x)
        PROVE x = t
    <2>1. PICK c : req' = [req EXCEPT ![x].ready = TRUE, ![x].new.cites = c]
      BY <1>5 DEF AnalysisSucceeds
    <2>2. QED
      BY <1>1, <2>1
  <1>6. ASSUME NEW x \in Threads, AnalysisFails(x)
        PROVE x = t
    BY <1>2, <1>6 DEF AnalysisFails
  <1>7. ASSUME NEW x \in Threads, Commit(x) \/ CommitFails(x)
        PROVE x = t
    BY <1>2, <1>7 DEF Commit, CommitFails
  <1>8. ASSUME NEW u \in Users, SwitchRole(u) \/ DeleteAccount(u)
        PROVE FALSE
    <2>1. CASE SwitchRole(u)
      BY <2>1 DEF SwitchRole
    <2>2. CASE DeleteAccount(u)
      <3>1. UNCHANGED req
        BY <2>2, Zenon DEF DeleteAccount
      <3>2. QED
        BY <3>1
    <2>3. QED
      BY <1>8, <2>1, <2>2
  <1>10. req' # req
    OBVIOUS
  <1>9. QED
    BY <1>3, <1>4, <1>5, <1>6, <1>7, <1>8, <1>10 DEF Next, vars

\* What a request is about never changes while it runs.
SameRequest(r, after) ==
  /\ after.op = r.op /\ after.user = r.user /\ after.manager = r.manager
  /\ after.inc = r.inc /\ after.logs = r.logs /\ after.says = r.says

\* An analysis, successful or not, leaves the request ready with the text it
\* was sent.  Only an edit whose analysis failed looks at the row again.
LEMMA AnalysisLeaves ==
  ASSUME TypeOK, NEW t \in Threads, AnalysisSucceeds(t) \/ AnalysisFails(t)
  PROVE  /\ req'[t].ready /\ SameRequest(req[t], req'[t])
         /\ req'[t].new.statement = req[t].new.statement
         /\ \/ req'[t].seen = req[t].seen /\ req'[t].new.status = req[t].new.status
            \/ /\ req[t].op = "edit"
               /\ \/ req'[t].new.status = req'[t].seen.status
                  \/ req'[t].seen.status = "draft" /\ req'[t].new.status = "review_requested"
  <1> DEFINE r == req[t]
  <1>1. r \in Request /\ r.seen \in Row /\ r.new \in Row
    BY DEF TypeOK, Request
  <1>2. CASE AnalysisSucceeds(t)
    <2>1. PICK c \in {Null, r.new.statement} : req' = [req EXCEPT ![t].ready = TRUE, ![t].new.cites = c]
      BY <1>2 DEF AnalysisSucceeds
    <2> DEFINE new == [r.new EXCEPT !.cites = c]
    <2>2. new \in Row /\ new.statement = r.new.statement /\ new.status = r.new.status
      BY <1>1 DEF Row, OrNull
    <2>3. req'[t] = [r EXCEPT !.ready = TRUE, !.new = new]
      BY <2>1 DEF TypeOK
    <2> HIDE DEF r, new
    <2>4. req'[t].ready /\ SameRequest(r, req'[t]) /\ req'[t].seen = r.seen /\ req'[t].new = new
      BY <1>1, <2>3 DEF Request, SameRequest
    <2>5. QED
      BY <2>2, <2>4 DEF r
  <1>3. CASE AnalysisFails(t) /\ r.op = "edit"
    <2> DEFINE now == row[r.inc]
               unloaded == [now EXCEPT !.statement = Null, !.cites = r.new.statement]
               edited == Edited(now, r.new.statement, Null, FALSE)
    <2>1. req' = [req EXCEPT ![t] = [r EXCEPT !.ready = TRUE, !.seen = unloaded, !.new = edited]]
      BY <1>3 DEF AnalysisFails
    <2>2. now \in Row
      BY <1>3 DEF TypeOK
    <2>3. r.new.statement \in OrNull(Statements)
      BY <1>1 DEF Row
    <2> HIDE DEF now, r
    <2>4. unloaded \in Row /\ edited \in Row
      BY <2>2, <2>3 DEF Edited, Row, Statuses, OrNull
    <2>5. /\ edited.statement = r.new.statement
          /\ \/ edited.status = unloaded.status
             \/ unloaded.status = "draft" /\ edited.status = "review_requested"
      BY <2>2 DEF Edited, Row
    <2> HIDE DEF unloaded, edited
    <2>6. req'[t] = [r EXCEPT !.ready = TRUE, !.seen = unloaded, !.new = edited]
      BY <2>1 DEF TypeOK
    <2>7. /\ req'[t].ready /\ SameRequest(r, req'[t])
          /\ req'[t].seen = unloaded /\ req'[t].new = edited
      BY <1>1, <2>6 DEF Request, SameRequest
    <2>8. QED
      BY <1>3, <2>5, <2>7 DEF r
  <1>4. CASE AnalysisFails(t) /\ r.op # "edit"
    <2> DEFINE new == [r.new EXCEPT !.cites = Null]
    <2>1. req' = [req EXCEPT ![t] = [r EXCEPT !.ready = TRUE, !.new = new]]
      <3>1. req' = [req EXCEPT ![t] = [r EXCEPT !.ready = TRUE, !.new.cites = Null]]
        BY <1>4 DEF AnalysisFails
      <3>2. QED
        BY <3>1
    <2>2. new \in Row /\ new.statement = r.new.statement /\ new.status = r.new.status
      BY <1>1 DEF Row, OrNull
    <2> HIDE DEF r, new
    <2>3. req'[t] = [r EXCEPT !.ready = TRUE, !.new = new]
      BY <2>1 DEF TypeOK
    <2>4. req'[t].ready /\ SameRequest(r, req'[t]) /\ req'[t].seen = r.seen /\ req'[t].new = new
      BY <1>1, <2>3 DEF Request, SameRequest
    <2>5. QED
      BY <2>2, <2>4 DEF r
  <1>5. QED
    BY <1>2, <1>3, <1>4

\* Only a commit, one that fails included, makes a busy thread idle.
LEMMA OnlyEnds ==
  ASSUME TypeOK, [Next]_vars, NEW t \in Threads, req[t].op # "none", req'[t] = Idle
  PROVE  Commit(t) \/ CommitFails(t)
  <1>1. Idle.op = "none" /\ ~Idle.ready
    BY DEF Idle
  <1>2. req \in [Threads -> Request] /\ req[t] \in Request
    BY DEF TypeOK
  <1>3. ASSUME NEW u \in Users, NEW i \in Incidents, Handler(t, u, i)
        PROVE FALSE
    <2>1. PICK x : Begin(t, x)
      BY <1>3, HandlerBegins
    <2>2. QED
      BY <1>1, <2>1 DEF Begin
  <1>4. ASSUME NEW empty \in BOOLEAN, ReplaceCitations(t, empty)
        PROVE FALSE
    <2> DEFINE new == [row[req[t].inc] EXCEPT !.cites = IF empty THEN Null ELSE req[t].seen.statement]
    <2>1. req' = [req EXCEPT ![t] = [req[t] EXCEPT !.ready = TRUE, !.seen = row[req[t].inc], !.new = new]]
      BY <1>4 DEF ReplaceCitations
    <2> HIDE DEF new
    <2>2. req'[t].ready
      BY <1>2, <2>1 DEF Request
    <2>3. QED
      BY <1>1, <2>2
  <1>5. ASSUME AnalysisSucceeds(t) \/ AnalysisFails(t)
        PROVE FALSE
    BY <1>1, <1>5, AnalysisLeaves
  <1>6. req'[t] # req[t]
    BY <1>1
  <1>7. QED
    BY <1>3, <1>4, <1>5, <1>6, OwnSteps

\* Steps that touch the tables of reports are commits and deleted accounts.
LEMMA OnlyCommitsWrite ==
  ASSUME [Next]_vars
  PROVE  \/ \E t \in Threads : Commit(t)
         \/ \E u \in Users : DeleteAccount(u)
         \/ UNCHANGED <<stored, row, events, comments>>
  <1>1. ASSUME NEW x \in Threads, NEW u \in Users, NEW i \in Incidents, Handler(x, u, i)
        PROVE UNCHANGED <<stored, row, events, comments>>
    BY <1>1, HandlerBegins DEF Tables
  <1>2. ASSUME NEW x \in Threads, NEW empty \in BOOLEAN, ReplaceCitations(x, empty)
        PROVE UNCHANGED <<stored, row, events, comments>>
    BY <1>2 DEF ReplaceCitations, Tables
  <1>3. ASSUME NEW x \in Threads, AnalysisSucceeds(x) \/ AnalysisFails(x) \/ CommitFails(x)
        PROVE UNCHANGED <<stored, row, events, comments>>
    BY <1>3 DEF AnalysisSucceeds, AnalysisFails, CommitFails, Tables
  <1>4. ASSUME NEW u \in Users, SwitchRole(u)
        PROVE UNCHANGED <<stored, row, events, comments>>
    BY <1>4 DEF SwitchRole
  <1>5. CASE UNCHANGED vars
    BY <1>5 DEF vars
  <1>6. QED
    BY <1>1, <1>2, <1>3, <1>4, <1>5 DEF Next

\* A commit appends to the logs of its report and touches no other.
LEMMA CommitAppends ==
  ASSUME TypeOK, NEW t \in Threads, Commit(t), NEW i \in Incidents
  PROVE  /\ \E e \in Event : events'[i] \in {events[i], Append(events[i], e)}
         /\ \E c \in Comment : comments'[i] \in {comments[i], Append(comments[i], c)}
  <1> DEFINE r == req[t]
  <1>1. r \in Request /\ r.op # "none" /\ r.user \in Users /\ r.inc \in Incidents
    BY DEF TypeOK, Commit
  <1>2. /\ events' = IF r.logs THEN [events EXCEPT ![r.inc] = Append(@, EventOf(r))] ELSE events
        /\ comments' = IF r.says # Null THEN [comments EXCEPT ![r.inc] = Append(@, CommentOf(r))]
                       ELSE comments
    BY DEF Commit
  <1>3. EventOf(r) \in Event
    BY <1>1 DEF EventOf, Event, Request, Row, OrNull
  <1>4. events'[i] \in {events[i], Append(events[i], EventOf(r))}
    BY <1>1, <1>2 DEF TypeOK
  <1>5. CASE r.says # Null
    <2>1. CommentOf(r) \in Comment
      BY <1>1, <1>5 DEF CommentOf, Comment, Request, OrNull
    <2>2. comments'[i] \in {comments[i], Append(comments[i], CommentOf(r))}
      BY <1>1, <1>2 DEF TypeOK
    <2>3. QED
      BY <1>3, <1>4, <2>1, <2>2
  <1>6. CASE r.says = Null
    <2>1. [kind |-> "comment", author |-> Null] \in Comment
      BY DEF Comment, OrNull, CommentKinds, ManagerKinds
    <2>2. comments'[i] = comments[i]
      BY <1>2, <1>6
    <2>3. QED
      BY <1>3, <1>4, <2>1, <2>2
  <1>7. QED
    BY <1>5, <1>6

\* The history and the thread of a report only ever grow, and a deleted
\* account takes nothing but its name out of them.
THEOREM HistoryNeverShrinks == Spec => HistoryIsAppendOnly
  <1> DEFINE Kept(i) ==
        /\ \A k \in DOMAIN events[i] :
             /\ k \in DOMAIN events'[i]
             /\ events'[i][k].status = events[i][k].status
             /\ events'[i][k].actor \in {events[i][k].actor, Null}
        /\ \A k \in DOMAIN comments[i] :
             /\ k \in DOMAIN comments'[i]
             /\ comments'[i][k].kind = comments[i][k].kind
             /\ comments'[i][k].author \in {comments[i][k].author, Null}
  <1>1. ASSUME TypeOK, [Next]_vars, NEW i \in Incidents PROVE Kept(i)
    <2>1. events[i] \in Seq(Event) /\ comments[i] \in Seq(Comment)
      BY <1>1 DEF TypeOK
    <2>2. ASSUME NEW t \in Threads, Commit(t) PROVE Kept(i)
      <3>1. PICK e \in Event : events'[i] \in {events[i], Append(events[i], e)}
        BY <1>1, <2>2, CommitAppends
      <3>2. PICK c \in Comment : comments'[i] \in {comments[i], Append(comments[i], c)}
        BY <1>1, <2>2, CommitAppends
      <3>3. \A k \in DOMAIN events[i] : k \in DOMAIN events'[i] /\ events'[i][k] = events[i][k]
        BY <2>1, <3>1, AppendKeeps
      <3>4. \A k \in DOMAIN comments[i] : k \in DOMAIN comments'[i] /\ comments'[i][k] = comments[i][k]
        BY <2>1, <3>2, AppendKeeps
      <3>5. QED
        BY <3>3, <3>4
    <2>3. ASSUME NEW u \in Users, DeleteAccount(u) PROVE Kept(i)
      <3>1. events'[i] = EventsForget(events[i], u) /\ comments'[i] = CommentsForget(comments[i], u)
        <4>1. /\ events' = [x \in Incidents |-> EventsForget(events[x], u)]
              /\ comments' = [x \in Incidents |-> CommentsForget(comments[x], u)]
          BY <2>3, Zenon DEF DeleteAccount
        <4>2. QED
          BY <4>1
      <3>2. ASSUME NEW k \in DOMAIN events[i]
            PROVE /\ k \in DOMAIN events'[i]
                  /\ events'[i][k].status = events[i][k].status
                  /\ events'[i][k].actor \in {events[i][k].actor, Null}
        <4>1. events[i][k] \in Event
          BY <2>1
        <4>2. QED
          BY <3>1, <4>1 DEF EventsForget, Forget, Event
      <3>3. ASSUME NEW k \in DOMAIN comments[i]
            PROVE /\ k \in DOMAIN comments'[i]
                  /\ comments'[i][k].kind = comments[i][k].kind
                  /\ comments'[i][k].author \in {comments[i][k].author, Null}
        <4>1. comments[i][k] \in Comment
          BY <2>1
        <4>2. QED
          BY <3>1, <4>1 DEF CommentsForget, Forget, Comment
      <3>4. QED
        BY <3>2, <3>3
    <2>4. CASE UNCHANGED <<stored, row, events, comments>>
      BY <2>4
    <2>5. QED
      BY <1>1, <2>2, <2>3, <2>4, OnlyCommitsWrite
  <1>2. TypeOK /\ [Next]_vars => [\A i \in Incidents : Kept(i)]_vars
    BY <1>1
  <1>3. QED
    BY <1>2, TypeCorrect, PTL DEF Spec, HistoryIsAppendOnly

\* What a request is about to do to the status of its report, as its handler
\* decided it: a report is created in one of the two first statuses, an edit
\* at most submits a draft, and only a manager's message or status change
\* completes a report.
OutcomeFits(r) ==
  /\ r.op = "create" => r.new.status \in {"draft", "review_requested"}
  /\ r.op = "edit" => \/ r.new.status \in {"draft", r.seen.status}
                      \/ r.seen.status = "draft" /\ r.new.status = "review_requested"
  /\ r.new.status = "completed" /\ r.new.status # r.seen.status =>
       r.manager /\ (r.says = "conclusion" \/ r.op = "status")

\* Each handler decides on an outcome that fits.
LEMMA HandlerOutcome ==
  ASSUME TypeOK, NEW t \in Threads, NEW u \in Users, NEW i \in Incidents, Handler(t, u, i)
  PROVE  OutcomeFits(req'[t])
  <1>1. row[i] \in Row /\ row[i].status \in Statuses
    BY DEF TypeOK, Row
  <1>2. ASSUME NEW s \in Statements, NEW isDraft \in BOOLEAN, CreateIncident(t, u, i, s, isDraft)
        PROVE OutcomeFits(req'[t])
    <2> DEFINE new == [BlankRow EXCEPT !.creator = u, !.statement = s,
                         !.status = IF isDraft THEN "draft" ELSE "review_requested"]
               r == [Idle EXCEPT !.op = "create", !.user = u, !.manager = u \in managers,
                       !.inc = i, !.ready = isDraft, !.logs = TRUE, !.new = new]
    <2>1. req' = [req EXCEPT ![t] = r]
      BY <1>2 DEF CreateIncident, Begin
    <2>2. new.status \in {"draft", "review_requested"}
      BY DEF BlankRow
    <2> HIDE DEF new
    <2>3. r.op = "create" /\ r.new = new
      BY DEF Idle
    <2> HIDE DEF r
    <2>4. req'[t] = r
      BY <2>1 DEF TypeOK
    <2>5. QED
      BY <2>2, <2>3, <2>4 DEF OutcomeFits
  <1>3. ASSUME NEW s \in Statements, NEW isDraft \in BOOLEAN, EditIncident(t, u, i, s, isDraft)
        PROVE OutcomeFits(req'[t])
    <2> DEFINE new == Edited(row[i], s, row[i].cites, isDraft)
               r == [Loaded("edit", u, i) EXCEPT !.ready = isDraft, !.logs = TRUE, !.new = new]
    <2>1. req' = [req EXCEPT ![t] = r]
      BY <1>3 DEF EditIncident, Begin
    <2>2. \/ new.status \in {"draft", row[i].status}
          \/ row[i].status = "draft" /\ new.status = "review_requested"
      BY <1>1 DEF Edited, Row
    <2> HIDE DEF new
    <2>3. r.op = "edit" /\ r.seen = row[i] /\ r.new = new
      BY DEF Loaded, Idle
    <2> HIDE DEF r
    <2>4. req'[t] = r
      BY <2>1 DEF TypeOK
    <2>5. QED
      BY <2>2, <2>3, <2>4 DEF OutcomeFits
  <1>4. ASSUME NEW kind \in CommentKinds, AddComment(t, u, i, kind)
        PROVE OutcomeFits(req'[t])
    <2> DEFINE next == NextStatus(kind, row[i].status)
               l == Loaded("comment", u, i)
               r == [l EXCEPT !.ready = TRUE, !.logs = next # row[i].status,
                       !.says = kind, !.new = [l.new EXCEPT !.status = next]]
    <2>1. req' = [req EXCEPT ![t] = r] /\ (kind \in ManagerKinds => u \in managers)
      BY <1>4 DEF AddComment, Begin, MaySay
    <2>2. next = "completed" /\ next # row[i].status => kind = "conclusion"
      BY DEF NextStatus
    <2> HIDE DEF next
    <2>3. /\ l \in Request /\ l.op = "comment" /\ l.manager = (u \in managers)
          /\ l.seen = row[i] /\ l.new = row[i]
      <3>1. l \in Request
        BY <1>1, LoadedType DEF Ops
      <3>2. l.op = "comment" /\ l.manager = (u \in managers) /\ l.seen = row[i] /\ l.new = row[i]
        BY DEF Loaded, Idle
      <3>3. QED
        BY <3>1, <3>2
    <2> HIDE DEF l
    <2>4. /\ r.op = "comment" /\ r.manager = (u \in managers) /\ r.says = kind
          /\ r.seen = row[i] /\ r.new.status = next
      BY <1>1, <2>3 DEF Request, Row
    <2> HIDE DEF r
    <2>5. req'[t] = r
      BY <2>1 DEF TypeOK
    <2>6. "conclusion" \in ManagerKinds
      BY DEF ManagerKinds
    <2>7. QED
      BY <2>1, <2>2, <2>4, <2>5, <2>6 DEF OutcomeFits
  <1>5. ASSUME NEW status \in StatusInputs, UpdateIncidentStatus(t, u, i, status)
        PROVE OutcomeFits(req'[t])
    <2> DEFINE l == Loaded("status", u, i)
               r == [l EXCEPT !.ready = TRUE, !.logs = TRUE,
                       !.new = [l.new EXCEPT !.status = status, !.assignee = u]]
    <2>1. req' = [req EXCEPT ![t] = r] /\ u \in managers
      BY <1>5 DEF UpdateIncidentStatus, Begin
    <2>2. l \in Request /\ l.op = "status" /\ l.manager = (u \in managers)
      <3>1. l \in Request
        BY <1>1, LoadedType DEF Ops
      <3>2. l.op = "status" /\ l.manager = (u \in managers)
        BY DEF Loaded, Idle
      <3>3. QED
        BY <3>1, <3>2
    <2> HIDE DEF l
    <2>3. r.op = "status" /\ r.manager
      BY <2>1, <2>2 DEF Request
    <2> HIDE DEF r
    <2>4. req'[t] = r
      BY <2>1 DEF TypeOK
    <2>5. QED
      BY <2>3, <2>4 DEF OutcomeFits
  <1>6. ASSUME OpenReview(t, u, i)
        PROVE OutcomeFits(req'[t])
    <2>1. req'[t] = Loaded("citations", u, i)
      BY <1>6 DEF OpenReview, Begin, TypeOK
    <2>2. req'[t].op = "citations" /\ req'[t].seen = row[i] /\ req'[t].new = row[i]
      BY <2>1 DEF Loaded, Idle
    <2>3. QED
      BY <2>2 DEF OutcomeFits
  <1>7. QED
    BY <1>2, <1>3, <1>4, <1>5, <1>6 DEF Handler

\* The later steps of a request keep it fitting.
LEMMA OutcomeKept ==
  ASSUME TypeOK, [Next]_vars, NEW t \in Threads, OutcomeFits(req[t])
  PROVE  OutcomeFits(req'[t])
  <1>1. req[t] \in Request
    BY DEF TypeOK
  <1>2. ASSUME NEW empty \in BOOLEAN, ReplaceCitations(t, empty)
        PROVE OutcomeFits(req'[t])
    <2> DEFINE now == row[req[t].inc]
               new == [now EXCEPT !.cites = IF empty THEN Null ELSE req[t].seen.statement]
               r == [req[t] EXCEPT !.ready = TRUE, !.seen = now, !.new = new]
    <2>1. req' = [req EXCEPT ![t] = r] /\ req[t].op = "citations"
      BY <1>2 DEF ReplaceCitations
    <2>2. new.status = now.status
      BY <2>1 DEF TypeOK, Row
    <2> HIDE DEF now, new
    <2>3. r.op = "citations" /\ r.seen = now /\ r.new = new
      BY <1>1, <2>1 DEF Request
    <2> HIDE DEF r
    <2>4. req'[t] = r
      BY <2>1 DEF TypeOK
    <2>5. QED
      BY <2>2, <2>3, <2>4 DEF OutcomeFits
  <1>3. ASSUME AnalysisSucceeds(t) \/ AnalysisFails(t)
        PROVE OutcomeFits(req'[t])
    BY <1>3, AnalysisLeaves DEF OutcomeFits, SameRequest
  <1>4. ASSUME req'[t] = Idle
        PROVE OutcomeFits(req'[t])
    BY <1>4 DEF OutcomeFits, Idle, BlankRow
  <1>5. ASSUME Commit(t) \/ CommitFails(t)
        PROVE OutcomeFits(req'[t])
    BY <1>4, <1>5 DEF Commit, CommitFails, TypeOK
  <1>6. CASE req'[t] = req[t]
    BY <1>6
  <1>7. QED
    BY <1>2, <1>3, <1>5, <1>6, OwnSteps, HandlerOutcome

\* Whatever overtakes a request, its outcome is the one its handler may decide on.
THEOREM OutcomesFit == Spec => [](IInv /\ \A t \in Threads : OutcomeFits(req[t]))
  <1> DEFINE Fit == \A t \in Threads : OutcomeFits(req[t])
  <1>1. Init => Fit
    BY DEF Init, OutcomeFits, Idle, BlankRow
  <1>2. IInv /\ Fit /\ [Next]_vars => Fit'
    <2> SUFFICES ASSUME IInv, Fit, [Next]_vars, NEW t \in Threads PROVE OutcomeFits(req'[t])
      BY DEF OutcomeFits
    <2>1. QED
      BY OutcomeKept DEF IInv
  <1> HIDE DEF Fit
  <1>3. Spec => []IInv /\ []Fit
    BY <1>1, <1>2, Inductive, PTL DEF Spec
  <1>4. QED
    BY <1>3, PTL DEF Fit

\* What a commit leaves in the row of its report.
LEMMA CommitWrites ==
  ASSUME TypeOK, NEW t \in Threads, Commit(t)
  PROVE  LET r == req[t]
         IN  /\ r.inc \in Incidents /\ r.inc \in stored'
             /\ row'[r.inc].status = Written(row[r.inc].status, r.seen.status, r.new.status)
             /\ row'[r.inc].statement
                  = Written(row[r.inc].statement, r.seen.statement, r.new.statement)
             /\ \A i \in Incidents \ {r.inc} : row'[i] = row[i]
  <1>1. req[t].inc \in Incidents
    BY DEF TypeOK, Commit
  <1>2. row' = [row EXCEPT ![req[t].inc] = Flush(row[req[t].inc], req[t].seen, req[t].new)]
    BY DEF Commit
  <1>3. row'[req[t].inc] = Flush(row[req[t].inc], req[t].seen, req[t].new)
    BY <1>1, <1>2 DEF TypeOK
  <1>4. req[t].inc \in stored'
    BY DEF Commit
  <1>5. QED
    BY <1>1, <1>2, <1>3, <1>4 DEF Flush, TypeOK

\* A deleted account leaves the status of every report alone.
LEMMA DeleteKeepsStatus ==
  ASSUME TypeOK, NEW u \in Users, DeleteAccount(u), NEW i \in Incidents
  PROVE  row'[i].status = row[i].status
  <1>1. row'[i] = [row[i] EXCEPT !.creator = Forget(@, u), !.assignee = Forget(@, u)]
    BY DEF DeleteAccount
  <1>2. row[i] \in Row
    BY DEF TypeOK
  <1>3. QED
    BY <1>1, <1>2 DEF Row

\* Only a manager's conclusion or status change completes a report, for
\* every number of requests in flight.
THEOREM ReviewAloneCompletes == Spec => OnlyReviewCompletes
  <1> DEFINE Fit == IInv /\ \A t \in Threads : OutcomeFits(req[t])
             Only == \A i \in Incidents :
                       row[i].status # "completed" /\ row'[i].status = "completed" =>
                         \E t \in Threads : /\ req[t].inc = i /\ req'[t] = Idle
                                            /\ req[t].manager
                                            /\ req[t].says = "conclusion" \/ req[t].op = "status"
  <1>1. Fit /\ [Next]_vars => Only
    <2> SUFFICES ASSUME Fit, [Next]_vars, NEW i \in Incidents,
                        row[i].status # "completed", row'[i].status = "completed"
                 PROVE  \E t \in Threads : /\ req[t].inc = i /\ req'[t] = Idle
                                           /\ req[t].manager
                                           /\ req[t].says = "conclusion" \/ req[t].op = "status"
      OBVIOUS
    <2>1. TypeOK
      BY DEF IInv
    <2>2. ASSUME NEW t \in Threads, Commit(t)
          PROVE  /\ req[t].inc = i /\ req'[t] = Idle
                 /\ req[t].manager
                 /\ req[t].says = "conclusion" \/ req[t].op = "status"
      <3>1. req[t].inc = i
        BY <2>1, <2>2, CommitWrites
      <3>2. req[t].new.status = "completed" /\ req[t].new.status # req[t].seen.status
        BY <2>1, <2>2, <3>1, CommitWrites DEF Written
      <3>3. req[t].manager /\ (req[t].says = "conclusion" \/ req[t].op = "status")
        BY <3>2 DEF OutcomeFits
      <3>4. req'[t] = Idle
        BY <2>1, <2>2 DEF Commit, TypeOK
      <3>5. QED
        BY <3>1, <3>3, <3>4
    <2>3. ASSUME NEW u \in Users, DeleteAccount(u) PROVE FALSE
      BY <2>1, <2>3, DeleteKeepsStatus
    <2>4. QED
      BY <2>2, <2>3, OnlyCommitsWrite
  <1>2. Fit /\ [Next]_vars => [Only]_vars
    BY <1>1
  <1> HIDE DEF Fit
  <1>3. Spec => []Fit
    BY OutcomesFit DEF Fit
  <1>4. QED
    BY <1>2, <1>3, PTL DEF Spec, OnlyReviewCompletes

\* An edit that is not saved as a draft leaves the status of a submitted
\* report as it finds it at its commit, whoever changed it meanwhile.
THEOREM EditLeavesStatus == Spec => EditKeepsStatus
  <1> DEFINE Fit == IInv /\ \A t \in Threads : OutcomeFits(req[t])
             Kept == \A t \in Threads :
                       /\ req[t].op = "edit" /\ req'[t] = Idle
                       /\ req[t].seen.status # "draft" /\ req[t].new.status # "draft"
                       => row'[req[t].inc].status = row[req[t].inc].status
  <1>1. Fit /\ [Next]_vars => Kept
    <2> SUFFICES ASSUME Fit, [Next]_vars, NEW t \in Threads,
                        req[t].op = "edit", req'[t] = Idle,
                        req[t].seen.status # "draft", req[t].new.status # "draft"
                 PROVE  row'[req[t].inc].status = row[req[t].inc].status
      OBVIOUS
    <2>1. TypeOK
      BY DEF IInv
    <2>2. CASE Commit(t)
      <3>1. req[t].new.status = req[t].seen.status
        BY DEF OutcomeFits
      <3>2. QED
        BY <2>1, <2>2, <3>1, CommitWrites DEF Written
    <2>3. CASE CommitFails(t)
      BY <2>3 DEF CommitFails, Tables
    <2>4. QED
      BY <2>1, <2>2, <2>3, OnlyEnds
  <1>2. Fit /\ [Next]_vars => [Kept]_vars
    BY <1>1
  <1> HIDE DEF Fit
  <1>3. Spec => []Fit
    BY OutcomesFit DEF Fit
  <1>4. QED
    BY <1>2, <1>3, PTL DEF Spec, EditKeepsStatus

\* A report that is sent is stored as it was sent, whatever became of its
\* analysis, unless the account that sent it is gone.
THEOREM ReportAlwaysKept == Spec => ReportIsKept
  <1> DEFINE Fit == IInv /\ \A t \in Threads : OutcomeFits(req[t])
             Kept == \A t \in Threads :
                       req[t].op = "create" /\ req'[t] = Idle /\ req[t].user \in accounts =>
                         LET i == req[t].inc
                         IN  i \in stored' /\ row'[i].statement = req[t].new.statement
                             /\ row'[i].status \in {"draft", "review_requested"}
  <1>1. Fit /\ [Next]_vars => Kept
    <2> SUFFICES ASSUME Fit, [Next]_vars, NEW t \in Threads,
                        req[t].op = "create", req'[t] = Idle, req[t].user \in accounts
                 PROVE  /\ req[t].inc \in stored'
                        /\ row'[req[t].inc].statement = req[t].new.statement
                        /\ row'[req[t].inc].status \in {"draft", "review_requested"}
      OBVIOUS
    <2>1. TypeOK
      BY DEF IInv
    <2>2. Commit(t)
      BY <2>1, OnlyEnds DEF CommitFails
    <2>3. req[t].inc \notin stored /\ req[t].seen = BlankRow
      BY DEF IInv, RequestFits
    <2>4. row[req[t].inc] = BlankRow
      BY <2>1, <2>3 DEF IInv, UnstoredIsBlank, TypeOK
    <2>5. req[t].new.status \in {"draft", "review_requested"}
      BY DEF OutcomeFits
    <2>6. QED
      BY <2>1, <2>2, <2>3, <2>4, <2>5, CommitWrites DEF Written
  <1>2. Fit /\ [Next]_vars => [Kept]_vars
    BY <1>1
  <1> HIDE DEF Fit
  <1>3. Spec => []Fit
    BY OutcomesFit DEF Fit
  <1>4. QED
    BY <1>2, <1>3, PTL DEF Spec, ReportIsKept

-----------------------------------------------------------------------------
(* Refinement of the abstract report *)

\* Which columns a request is about to write besides its outcome, and what
\* its message has to do with its event: a text comes with citations of it
\* or the ones it had, a message or a decision leaves text and citations
\* alone, and markers are all that a page of markers writes.
ColumnsFit(r) ==
  /\ r.op \in {"create", "edit"} =>
       /\ r.new.statement \in Statements
       /\ r.new.cites \in {Null, r.seen.cites, r.new.statement}
  /\ r.op \in {"comment", "status"} =>
       r.new.statement = r.seen.statement /\ r.new.cites = r.seen.cites
  /\ r.op = "comment" =>
       /\ r.says \in CommentKinds
       /\ r.logs => /\ r.says \in DOMAIN Promise!Outcome
                    /\ r.new.status = Promise!Outcome[r.says]
                    /\ r.new.status # r.seen.status
  /\ r.op = "citations" => ~r.logs /\ r.says = Null /\ r.new.statement = r.seen.statement

\* The status a message moves a report to is the outcome of its kind.
LEMMA NextStatusIsOutcome ==
  ASSUME NEW kind \in CommentKinds, NEW status, NextStatus(kind, status) # status
  PROVE  kind \in DOMAIN Promise!Outcome /\ NextStatus(kind, status) = Promise!Outcome[kind]
  <1>1. DOMAIN Promise!Outcome
          = {"supplement_request", "supplement_reply", "conclusion", "follow_up"}
    BY DEF Promise!Outcome
  <1>2. /\ Promise!Outcome["supplement_request"] = "supplement_requested"
        /\ Promise!Outcome["supplement_reply"] = "supplement_completed"
        /\ Promise!Outcome["conclusion"] = "completed"
        /\ Promise!Outcome["follow_up"] = "in_review"
    BY DEF Promise!Outcome
  <1>3. kind \in {"comment", "supplement_request", "conclusion", "supplement_reply", "follow_up"}
    BY DEF CommentKinds, ManagerKinds, RequesterKinds
  <1>4. QED
    BY <1>1, <1>2, <1>3 DEF NextStatus

\* Each handler begins with columns that fit.
LEMMA HandlerColumns ==
  ASSUME TypeOK, NEW t \in Threads, NEW u \in Users, NEW i \in Incidents, Handler(t, u, i)
  PROVE  ColumnsFit(req'[t])
  <1>1. row[i] \in Row
    BY DEF TypeOK
  <1>2. ASSUME NEW s \in Statements, NEW isDraft \in BOOLEAN, CreateIncident(t, u, i, s, isDraft)
        PROVE ColumnsFit(req'[t])
    <2> DEFINE new == [BlankRow EXCEPT !.creator = u, !.statement = s,
                         !.status = IF isDraft THEN "draft" ELSE "review_requested"]
               r == [Idle EXCEPT !.op = "create", !.user = u, !.manager = u \in managers,
                       !.inc = i, !.ready = isDraft, !.logs = TRUE, !.new = new]
    <2>1. req' = [req EXCEPT ![t] = r]
      BY <1>2 DEF CreateIncident, Begin
    <2>2. new.statement = s /\ new.cites = Null
      BY DEF BlankRow
    <2> HIDE DEF new
    <2>3. r.op = "create" /\ r.new = new
      BY DEF Idle
    <2> HIDE DEF r
    <2>4. req'[t] = r
      BY <2>1 DEF TypeOK
    <2>5. QED
      BY <2>2, <2>3, <2>4 DEF ColumnsFit
  <1>3. ASSUME NEW s \in Statements, NEW isDraft \in BOOLEAN, EditIncident(t, u, i, s, isDraft)
        PROVE ColumnsFit(req'[t])
    <2> DEFINE new == Edited(row[i], s, row[i].cites, isDraft)
               r == [Loaded("edit", u, i) EXCEPT !.ready = isDraft, !.logs = TRUE, !.new = new]
    <2>1. req' = [req EXCEPT ![t] = r]
      BY <1>3 DEF EditIncident, Begin
    <2>2. new.statement = s /\ new.cites = row[i].cites
      BY <1>1 DEF Edited, Row
    <2> HIDE DEF new
    <2>3. r.op = "edit" /\ r.seen = row[i] /\ r.new = new
      BY DEF Loaded, Idle
    <2> HIDE DEF r
    <2>4. req'[t] = r
      BY <2>1 DEF TypeOK
    <2>5. QED
      BY <2>2, <2>3, <2>4 DEF ColumnsFit
  <1>4. ASSUME NEW kind \in CommentKinds, AddComment(t, u, i, kind)
        PROVE ColumnsFit(req'[t])
    <2> DEFINE next == NextStatus(kind, row[i].status)
               l == Loaded("comment", u, i)
               r == [l EXCEPT !.ready = TRUE, !.logs = next # row[i].status,
                       !.says = kind, !.new = [l.new EXCEPT !.status = next]]
    <2>1. req' = [req EXCEPT ![t] = r]
      BY <1>4 DEF AddComment, Begin
    <2>2. next # row[i].status => /\ kind \in DOMAIN Promise!Outcome
                                  /\ next = Promise!Outcome[kind]
      BY NextStatusIsOutcome
    <2> HIDE DEF next
    <2>3. /\ l \in Request /\ l.op = "comment" /\ l.seen = row[i] /\ l.new = row[i]
      <3>1. l \in Request
        BY <1>1, LoadedType DEF Ops
      <3>2. l.op = "comment" /\ l.seen = row[i] /\ l.new = row[i]
        BY DEF Loaded, Idle
      <3>3. QED
        BY <3>1, <3>2
    <2> HIDE DEF l
    <2>4. /\ r.op = "comment" /\ r.says = kind /\ r.seen = row[i]
          /\ r.logs = (next # row[i].status) /\ r.new.status = next
          /\ r.new.statement = row[i].statement /\ r.new.cites = row[i].cites
      BY <1>1, <2>3 DEF Request, Row
    <2> HIDE DEF r
    <2>5. req'[t] = r
      BY <2>1 DEF TypeOK
    <2>6. QED
      BY <2>2, <2>4, <2>5 DEF ColumnsFit
  <1>5. ASSUME NEW status \in StatusInputs, UpdateIncidentStatus(t, u, i, status)
        PROVE ColumnsFit(req'[t])
    <2> DEFINE l == Loaded("status", u, i)
               r == [l EXCEPT !.ready = TRUE, !.logs = TRUE,
                       !.new = [l.new EXCEPT !.status = status, !.assignee = u]]
    <2>1. req' = [req EXCEPT ![t] = r]
      BY <1>5 DEF UpdateIncidentStatus, Begin
    <2>2. l \in Request /\ l.op = "status" /\ l.seen = row[i] /\ l.new = row[i]
      <3>1. l \in Request
        BY <1>1, LoadedType DEF Ops
      <3>2. l.op = "status" /\ l.seen = row[i] /\ l.new = row[i]
        BY DEF Loaded, Idle
      <3>3. QED
        BY <3>1, <3>2
    <2> HIDE DEF l
    <2>3. /\ r.op = "status" /\ r.seen = row[i]
          /\ r.new.statement = row[i].statement /\ r.new.cites = row[i].cites
      BY <1>1, <2>2 DEF Request, Row
    <2> HIDE DEF r
    <2>4. req'[t] = r
      BY <2>1 DEF TypeOK
    <2>5. QED
      BY <2>3, <2>4 DEF ColumnsFit
  <1>6. ASSUME OpenReview(t, u, i)
        PROVE ColumnsFit(req'[t])
    <2>1. req'[t] = Loaded("citations", u, i)
      BY <1>6 DEF OpenReview, Begin, TypeOK
    <2>2. /\ req'[t].op = "citations" /\ req'[t].seen = row[i] /\ req'[t].new = row[i]
          /\ ~req'[t].logs /\ req'[t].says = Null
      BY <2>1 DEF Loaded, Idle
    <2>3. QED
      BY <2>2 DEF ColumnsFit
  <1>7. QED
    BY <1>2, <1>3, <1>4, <1>5, <1>6 DEF Handler

\* An analysis leaves the citations of the text, none, or the ones before it.
LEMMA AnalysisCites ==
  ASSUME TypeOK, NEW t \in Threads, AnalysisSucceeds(t) \/ AnalysisFails(t)
  PROVE  req[t].op \in Analysed /\ req'[t].new.cites \in {Null, req[t].new.statement}
  <1> DEFINE r == req[t]
  <1>1. r \in Request /\ r.new \in Row
    BY DEF TypeOK, Request
  <1>2. CASE AnalysisSucceeds(t)
    <2>1. PICK c \in {Null, r.new.statement} : req' = [req EXCEPT ![t].ready = TRUE, ![t].new.cites = c]
      BY <1>2 DEF AnalysisSucceeds
    <2> DEFINE new == [r.new EXCEPT !.cites = c]
    <2>2. new.cites = c
      BY <1>1 DEF Row
    <2>3. req'[t] = [r EXCEPT !.ready = TRUE, !.new = new]
      BY <2>1 DEF TypeOK
    <2> HIDE DEF r, new
    <2>4. req'[t].new = new
      BY <1>1, <2>3 DEF Request
    <2>5. r.op \in Analysed
      BY <1>2 DEF AnalysisSucceeds, r
    <2>6. QED
      BY <2>1, <2>2, <2>4, <2>5 DEF r
  <1>3. CASE AnalysisFails(t) /\ r.op = "edit"
    <2> DEFINE now == row[r.inc]
               unloaded == [now EXCEPT !.statement = Null, !.cites = r.new.statement]
               edited == Edited(now, r.new.statement, Null, FALSE)
    <2>1. req' = [req EXCEPT ![t] = [r EXCEPT !.ready = TRUE, !.seen = unloaded, !.new = edited]]
      BY <1>3 DEF AnalysisFails
    <2>2. now \in Row
      BY <1>3 DEF TypeOK
    <2> HIDE DEF now, r
    <2>3. edited.cites = Null
      BY <2>2 DEF Edited, Row
    <2> HIDE DEF unloaded, edited
    <2>4. req'[t] = [r EXCEPT !.ready = TRUE, !.seen = unloaded, !.new = edited]
      BY <2>1 DEF TypeOK
    <2>5. req'[t].new = edited
      BY <1>1, <2>4 DEF Request
    <2>6. QED
      BY <1>3, <2>3, <2>5 DEF r, Analysed
  <1>4. CASE AnalysisFails(t) /\ r.op # "edit"
    <2> DEFINE new == [r.new EXCEPT !.cites = Null]
    <2>1. req' = [req EXCEPT ![t] = [r EXCEPT !.ready = TRUE, !.new = new]] /\ r.op \in Analysed
      <3>1. req' = [req EXCEPT ![t] = [r EXCEPT !.ready = TRUE, !.new.cites = Null]]
        BY <1>4 DEF AnalysisFails
      <3>2. QED
        BY <1>4, <3>1 DEF AnalysisFails
    <2>2. new.cites = Null
      BY <1>1 DEF Row
    <2> HIDE DEF r, new
    <2>3. req'[t] = [r EXCEPT !.ready = TRUE, !.new = new]
      BY <2>1 DEF TypeOK
    <2>4. req'[t].new = new
      BY <1>1, <2>3 DEF Request
    <2>5. QED
      BY <2>1, <2>2, <2>4 DEF r
  <1>5. QED
    BY <1>2, <1>3, <1>4

\* The later steps of a request keep its columns fitting.
LEMMA ColumnsKept ==
  ASSUME TypeOK, [Next]_vars, NEW t \in Threads, ColumnsFit(req[t])
  PROVE  ColumnsFit(req'[t])
  <1>1. req[t] \in Request
    BY DEF TypeOK
  <1>2. ASSUME NEW empty \in BOOLEAN, ReplaceCitations(t, empty)
        PROVE ColumnsFit(req'[t])
    <2> DEFINE now == row[req[t].inc]
               new == [now EXCEPT !.cites = IF empty THEN Null ELSE req[t].seen.statement]
               r == [req[t] EXCEPT !.ready = TRUE, !.seen = now, !.new = new]
    <2>1. req' = [req EXCEPT ![t] = r] /\ req[t].op = "citations"
      BY <1>2 DEF ReplaceCitations
    <2>2. new.statement = now.statement
      BY <2>1 DEF TypeOK, Row
    <2> HIDE DEF now, new
    <2>3. /\ r.op = "citations" /\ r.seen = now /\ r.new = new
          /\ r.logs = req[t].logs /\ r.says = req[t].says
      BY <1>1, <2>1 DEF Request
    <2> HIDE DEF r
    <2>4. req'[t] = r
      BY <2>1 DEF TypeOK
    <2>5. QED
      BY <2>1, <2>2, <2>3, <2>4 DEF ColumnsFit
  <1>3. ASSUME AnalysisSucceeds(t) \/ AnalysisFails(t)
        PROVE ColumnsFit(req'[t])
    <2>1. /\ req'[t].op = req[t].op /\ req'[t].op \in {"create", "edit"}
          /\ req'[t].new.statement = req[t].new.statement
      BY <1>3, AnalysisLeaves, AnalysisCites DEF SameRequest, Analysed
    <2>2. req'[t].new.cites \in {Null, req[t].new.statement}
      BY <1>3, AnalysisCites
    <2>3. QED
      BY <2>1, <2>2 DEF ColumnsFit
  <1>4. ASSUME req'[t] = Idle
        PROVE ColumnsFit(req'[t])
    BY <1>4 DEF ColumnsFit, Idle
  <1>5. ASSUME Commit(t) \/ CommitFails(t)
        PROVE ColumnsFit(req'[t])
    BY <1>4, <1>5 DEF Commit, CommitFails, TypeOK
  <1>6. CASE req'[t] = req[t]
    BY <1>6
  <1>7. QED
    BY <1>2, <1>3, <1>5, <1>6, OwnSteps, HandlerColumns

\* The two modules know the same statuses.
LEMMA SameStatuses == Statuses = Promise!Statuses
  BY DEF Statuses, Promise!Statuses, Promise!FirstStatuses

\* The tables begin as the abstract report does.
LEMMA PromisedInit == Init => Promise!Init
  BY DEF Init, BlankRow, Promise!Init

\* What a commit does to the tables, in the fields of its request: the columns
\* that a request did not change are left, the event carries its status.
LEMMA CommitInFields ==
  ASSUME IInv, NEW t \in Threads, Commit(t)
  PROVE  LET r == req[t]
             now == row[r.inc]
         IN  /\ r \in Request /\ r.user \in Users /\ r.inc \in Incidents
             /\ now \in Row /\ r.seen \in Row /\ r.new \in Row
             /\ row' = [row EXCEPT ![r.inc] = Flush(now, r.seen, r.new)]
             /\ r.op # "citations" => r.user \in accounts
             /\ r.logs => Promise!Logs(r.inc, r.user, r.op, r.new.status)
             /\ ~r.logs => UNCHANGED events
             /\ r.says = Null => UNCHANGED comments
             /\ r.says # Null =>
                  comments' = [comments EXCEPT ![r.inc] =
                                 Append(@, [kind |-> r.says, author |-> r.user])]
             /\ r.op # "create" => r.inc \in stored /\ UNCHANGED stored
             /\ stored' = stored \cup {r.inc}
             /\ UNCHANGED accounts
  <1> DEFINE r == req[t]
             now == row[r.inc]
  <1>1. TypeOK /\ r.op # "none" /\ RequestFits(r)
    BY DEF IInv, Commit
  <1>2. r \in Request /\ r.user \in Users /\ r.inc \in Incidents
    BY <1>1 DEF TypeOK
  <1>3. now \in Row /\ r.seen \in Row /\ r.new \in Row
    BY <1>1, <1>2 DEF TypeOK, Request
  <1>4. row' = [row EXCEPT ![r.inc] = Flush(now, r.seen, r.new)]
    BY DEF Commit
  <1>5. /\ r.op # "citations" => r.user \in accounts
        /\ stored' = stored \cup {r.inc} /\ UNCHANGED accounts
    BY DEF Commit, ReferencesUser
  <1>6. r.op # "create" => r.inc \in stored /\ UNCHANGED stored
    BY <1>1, <1>5 DEF RequestFits
  <1>7. /\ r.logs => Promise!Logs(r.inc, r.user, r.op, r.new.status)
        /\ ~r.logs => UNCHANGED events
    <2>1. events' = IF r.logs THEN [events EXCEPT ![r.inc] = Append(@, EventOf(r))] ELSE events
      BY DEF Commit
    <2>2. QED
      BY <2>1 DEF EventOf, Promise!Logs
  <1>8. /\ r.says = Null => UNCHANGED comments
        /\ r.says # Null =>
             comments' = [comments EXCEPT ![r.inc] = Append(@, [kind |-> r.says, author |-> r.user])]
    <2>1. comments' = IF r.says # Null THEN [comments EXCEPT ![r.inc] = Append(@, CommentOf(r))]
                      ELSE comments
      BY DEF Commit
    <2>2. QED
      BY <2>1 DEF CommentOf
  <1>9. QED
    BY <1>2, <1>3, <1>4, <1>5, <1>6, <1>7, <1>8

\* The commit of a new report opens it.
LEMMA PromisedFile ==
  ASSUME IInv, NEW t \in Threads, Commit(t), OutcomeFits(req[t]), ColumnsFit(req[t]),
         req[t].op = "create"
  PROVE  Promise!File(req[t].user, req[t].inc)
  <1> DEFINE r == req[t]
             i == r.inc
  <1>1. RequestFits(r) /\ UnstoredIsBlank
    BY DEF IInv
  <1>2. i \in Incidents /\ r.new \in Row /\ r.user \in accounts
    BY CommitInFields
  <1>3. i \notin stored /\ r.seen = BlankRow /\ row[i] = BlankRow
    BY <1>1, <1>2 DEF RequestFits, UnstoredIsBlank
  <1>4. Flush(row[i], r.seen, r.new) = r.new
    BY <1>2, <1>3 DEF Flush, Written, Row
  <1>5. /\ r.new.statement \in Statements /\ r.new.cites \in {Null, r.new.statement}
        /\ r.new.creator = r.user /\ r.new.assignee = Null
        /\ r.new.status \in Promise!FirstStatuses
    <2>1. BlankRow.cites = Null
      BY DEF BlankRow
    <2>2. QED
      BY <1>1, <1>3, <2>1 DEF RequestFits, ColumnsFit, OutcomeFits, Promise!FirstStatuses
  <1>6. r.new = [status |-> r.new.status, creator |-> r.user, assignee |-> Null,
                 statement |-> r.new.statement, cites |-> r.new.cites]
    BY <1>2, <1>5 DEF Row
  <1>7. row' = [row EXCEPT ![i] = [status |-> r.new.status, creator |-> r.user,
                  assignee |-> Null, statement |-> r.new.statement, cites |-> r.new.cites]]
    BY <1>4, <1>6, CommitInFields
  <1>8. r.logs /\ r.says = Null
    BY <1>1 DEF RequestFits
  <1>9. Promise!Logs(i, r.user, "create", r.new.status) /\ UNCHANGED comments
    BY <1>8, CommitInFields
  <1>10. stored' = stored \cup {i} /\ UNCHANGED accounts
    BY CommitInFields
  <1>11. QED
    BY <1>2, <1>3, <1>5, <1>7, <1>9, <1>10 DEF Promise!File

\* The commit of an edit writes the report anew.
LEMMA PromisedRevise ==
  ASSUME IInv, NEW t \in Threads, Commit(t), OutcomeFits(req[t]), ColumnsFit(req[t]),
         req[t].op = "edit"
  PROVE  Promise!Revise(req[t].user, req[t].inc)
  <1> DEFINE r == req[t]
             i == r.inc
             now == row[i]
             after == Flush(now, r.seen, r.new)
  <1>1. RequestFits(r)
    BY DEF IInv
  <1>2. /\ i \in Incidents /\ i \in stored /\ r.user \in accounts
        /\ now \in Row /\ r.seen \in Row /\ r.new \in Row
    BY CommitInFields
  <1>3. /\ now.creator = r.user /\ r.logs /\ r.says = Null
        /\ r.new.creator = r.seen.creator /\ r.new.assignee = r.seen.assignee
    BY <1>1, <1>2 DEF RequestFits
  <1>4. /\ after.creator = now.creator /\ after.assignee = now.assignee
        /\ after.statement \in {now.statement, r.new.statement}
    BY <1>3 DEF Flush, Written
  <1>5. after.cites \in {now.cites, Null, r.new.statement} /\ r.new.statement \in Statements
    BY DEF Flush, Written, ColumnsFit
  <1>6. r.new.status \in Promise!Statuses
    BY <1>2, SameStatuses DEF Row
  <1>7. after.status \in {now.status} \cup ({r.new.status} \cap Promise!FirstStatuses)
    BY DEF OutcomeFits, Flush, Written, Promise!FirstStatuses
  <1>8. after = [now EXCEPT !.status = after.status, !.statement = after.statement,
                            !.cites = after.cites]
    BY <1>2, <1>4 DEF Flush, Row
  <1>9. row' = [row EXCEPT ![i] = [@ EXCEPT !.status = after.status,
                                            !.statement = after.statement, !.cites = after.cites]]
    BY <1>8, CommitInFields
  <1>10. /\ Promise!Logs(i, r.user, "edit", r.new.status)
         /\ UNCHANGED <<accounts, stored, comments>>
    BY <1>3, CommitInFields
  <1> HIDE DEF after
  <1>11. QED
    BY <1>2, <1>3, <1>4, <1>5, <1>6, <1>7, <1>9, <1>10 DEF Promise!Revise

\* The commit of a message says it, and moves the report as it says or not.
LEMMA PromisedSay ==
  ASSUME IInv, NEW t \in Threads, Commit(t), ColumnsFit(req[t]), req[t].op = "comment"
  PROVE  Promise!Say(req[t].user, req[t].inc, req[t].says) /\ req[t].says \in Promise!Kinds
  <1> DEFINE r == req[t]
             i == r.inc
             now == row[i]
             after == Flush(now, r.seen, r.new)
  <1>1. RequestFits(r)
    BY DEF IInv
  <1>2. /\ i \in Incidents /\ i \in stored /\ r.user \in accounts
        /\ now \in Row /\ r.seen \in Row /\ r.new \in Row
    BY CommitInFields
  <1>3. r.says \in CommentKinds /\ r.says # Null
    BY NullAssumption DEF ColumnsFit
  <1>4. r.says \in Promise!Kinds
    <2>1. DOMAIN Promise!Outcome
            = {"supplement_request", "supplement_reply", "conclusion", "follow_up"}
      BY DEF Promise!Outcome
    <2>2. QED
      BY <1>3, <2>1 DEF CommentKinds, ManagerKinds, RequesterKinds, Promise!Kinds
  <1>5. r.says \in Promise!OfRequester => now.creator = r.user
    BY <1>1, <1>2 DEF RequestFits, RequesterKinds, Promise!OfRequester
  <1>6. /\ after.creator = now.creator /\ after.assignee = now.assignee
        /\ after.statement = now.statement /\ after.cites = now.cites
    BY <1>1 DEF RequestFits, ColumnsFit, Flush, Written
  <1>7. after = [now EXCEPT !.status = after.status]
    BY <1>2, <1>6 DEF Flush, Row
  <1>8. /\ comments' = [comments EXCEPT ![i] = Append(@, [kind |-> r.says, author |-> r.user])]
        /\ UNCHANGED <<accounts, stored>>
    BY <1>3, CommitInFields
  <1>9. row' = [row EXCEPT ![i] = after]
    BY CommitInFields
  <1>10. CASE r.logs
    <2>1. /\ r.says \in DOMAIN Promise!Outcome
          /\ after.status = Promise!Outcome[r.says] /\ r.new.status = Promise!Outcome[r.says]
      BY <1>10 DEF ColumnsFit, Flush, Written
    <2>2. row' = [row EXCEPT ![i] = [@ EXCEPT !.status = Promise!Outcome[r.says]]]
      BY <1>7, <1>9, <2>1
    <2>3. Promise!Logs(i, r.user, "comment", Promise!Outcome[r.says])
      BY <1>10, <2>1, CommitInFields
    <2>4. QED
      BY <1>2, <1>4, <1>5, <1>8, <2>1, <2>2, <2>3 DEF Promise!Say
  <1>11. CASE ~r.logs
    <2>1. after.status = now.status
      BY <1>1, <1>11 DEF RequestFits, Flush, Written
    <2>2. after = now
      BY <1>2, <1>7, <2>1 DEF Row
    <2>3. UNCHANGED <<row, events>>
      BY <1>9, <1>11, <2>2, CommitInFields DEF IInv, TypeOK
    <2>4. QED
      BY <1>2, <1>4, <1>5, <1>8, <2>3 DEF Promise!Say
  <1>12. QED
    BY <1>10, <1>11

\* The commit of a status change decides.
LEMMA PromisedDecide ==
  ASSUME IInv, NEW t \in Threads, Commit(t), ColumnsFit(req[t]), req[t].op = "status"
  PROVE  Promise!Decide(req[t].user, req[t].inc)
  <1> DEFINE r == req[t]
             i == r.inc
             now == row[i]
             after == Flush(now, r.seen, r.new)
  <1>1. RequestFits(r)
    BY DEF IInv
  <1>2. /\ i \in Incidents /\ i \in stored /\ r.user \in accounts
        /\ now \in Row /\ r.seen \in Row /\ r.new \in Row
    BY CommitInFields
  <1>3. r.logs /\ r.says = Null
    BY <1>1 DEF RequestFits
  <1>4. /\ after.creator = now.creator
        /\ after.statement = now.statement /\ after.cites = now.cites
    BY <1>1 DEF RequestFits, ColumnsFit, Flush, Written
  <1>5. after.assignee \in {now.assignee, r.user} /\ after.status \in {now.status, r.new.status}
    BY <1>1 DEF RequestFits, Flush, Written
  <1>6. r.new.status \in Promise!Statuses
    BY <1>2, SameStatuses DEF Row
  <1>7. after = [now EXCEPT !.status = after.status, !.assignee = after.assignee]
    BY <1>2, <1>4 DEF Flush, Row
  <1>8. row' = [row EXCEPT ![i] = [@ EXCEPT !.status = after.status, !.assignee = after.assignee]]
    BY <1>7, CommitInFields
  <1>9. /\ Promise!Logs(i, r.user, "status", r.new.status)
        /\ UNCHANGED <<accounts, stored, comments>>
    BY <1>3, CommitInFields
  <1> HIDE DEF after
  <1>10. QED
    BY <1>2, <1>5, <1>6, <1>8, <1>9 DEF Promise!Decide

\* The commit of markers writes those only.
LEMMA PromisedMark ==
  ASSUME IInv, NEW t \in Threads, Commit(t), ColumnsFit(req[t]), req[t].op = "citations"
  PROVE  Promise!Mark(req[t].inc)
  <1> DEFINE r == req[t]
             i == r.inc
             now == row[i]
             after == Flush(now, r.seen, r.new)
  <1>1. RequestFits(r)
    BY DEF IInv
  <1>2. i \in Incidents /\ i \in stored /\ now \in Row /\ r.seen \in Row /\ r.new \in Row
    BY CommitInFields
  <1>3. /\ after.status = now.status /\ after.creator = now.creator
        /\ after.assignee = now.assignee /\ after.statement = now.statement
    BY <1>1 DEF RequestFits, ColumnsFit, Flush, Written
  <1>4. after.cites \in Statements \cup {Null}
    BY <1>2 DEF Flush, Written, Row, OrNull
  <1>5. after = [now EXCEPT !.cites = after.cites]
    BY <1>2, <1>3 DEF Flush, Row
  <1>6. row' = [row EXCEPT ![i] = [@ EXCEPT !.cites = after.cites]]
    BY <1>5, CommitInFields
  <1>7. UNCHANGED <<accounts, stored, events, comments>>
    BY CommitInFields DEF ColumnsFit
  <1> HIDE DEF after
  <1>8. QED
    BY <1>2, <1>4, <1>6, <1>7 DEF Promise!Mark

\* An account that is deleted leaves the abstract report, too.
LEMMA PromisedLeave ==
  ASSUME NEW u \in Users, DeleteAccount(u)
  PROVE  Promise!Leave(u)
  <1>1. /\ u \in accounts /\ accounts' = accounts \ {u} /\ UNCHANGED stored
        /\ row' = [i \in Incidents |->
                     [row[i] EXCEPT !.creator = Forget(@, u), !.assignee = Forget(@, u)]]
        /\ events' = [i \in Incidents |-> EventsForget(events[i], u)]
        /\ comments' = [i \in Incidents |-> CommentsForget(comments[i], u)]
    BY DEF DeleteAccount
  <1>2. QED
    BY <1>1 DEF Forget, EventsForget, CommentsForget, Promise!Leave, Promise!Blot

\* Every step of the workflow is one operation on the abstract report, or none.
LEMMA PromisedStep ==
  ASSUME IInv, \A t \in Threads : OutcomeFits(req[t]) /\ ColumnsFit(req[t]), [Next]_vars
  PROVE  [Promise!Next]_(Promise!vars)
  <1>1. ASSUME NEW t \in Threads, Commit(t) PROVE Promise!Next
    <2>1. req[t].user \in Users /\ req[t].inc \in Incidents
      BY <1>1, CommitInFields
    <2>2. req[t].op \in {"create", "edit", "comment", "status", "citations"}
      BY <1>1 DEF Commit, IInv, TypeOK, Request, Ops
    <2>3. CASE req[t].op = "create"
      BY <1>1, <2>1, <2>3, PromisedFile DEF Promise!Next
    <2>4. CASE req[t].op = "edit"
      BY <1>1, <2>1, <2>4, PromisedRevise DEF Promise!Next
    <2>5. CASE req[t].op = "comment"
      BY <1>1, <2>1, <2>5, PromisedSay DEF Promise!Next
    <2>6. CASE req[t].op = "status"
      BY <1>1, <2>1, <2>6, PromisedDecide DEF Promise!Next
    <2>7. CASE req[t].op = "citations"
      BY <1>1, <2>1, <2>7, PromisedMark DEF Promise!Next
    <2>8. QED
      BY <2>2, <2>3, <2>4, <2>5, <2>6, <2>7
  <1>2. ASSUME NEW u \in Users, DeleteAccount(u) PROVE Promise!Next
    BY <1>2, PromisedLeave DEF Promise!Next
  <1>3. ASSUME NEW x \in Threads, NEW u \in Users, NEW i \in Incidents, Handler(x, u, i)
        PROVE UNCHANGED Promise!vars
    BY <1>3, HandlerBegins DEF Tables, Promise!vars
  <1>4. ASSUME NEW x \in Threads, NEW empty \in BOOLEAN, ReplaceCitations(x, empty)
        PROVE UNCHANGED Promise!vars
    BY <1>4 DEF ReplaceCitations, Tables, Promise!vars
  <1>5. ASSUME NEW x \in Threads, AnalysisSucceeds(x) \/ AnalysisFails(x) \/ CommitFails(x)
        PROVE UNCHANGED Promise!vars
    BY <1>5 DEF AnalysisSucceeds, AnalysisFails, CommitFails, Tables, Promise!vars
  <1>6. ASSUME NEW u \in Users, SwitchRole(u) PROVE UNCHANGED Promise!vars
    BY <1>6 DEF SwitchRole, Promise!vars
  <1>7. CASE UNCHANGED vars
    BY <1>7 DEF vars, Promise!vars
  <1>8. QED
    BY <1>1, <1>2, <1>3, <1>4, <1>5, <1>6, <1>7 DEF Next

\* What a request is about to write is its own, whatever overtakes it.
THEOREM ColumnsAlwaysFit == Spec => [](\A t \in Threads : ColumnsFit(req[t]))
  <1> DEFINE Fit == \A t \in Threads : ColumnsFit(req[t])
  <1>1. Init => Fit
    BY DEF Init, ColumnsFit, Idle
  <1>2. TypeOK /\ Fit /\ [Next]_vars => Fit'
    <2> SUFFICES ASSUME TypeOK, Fit, [Next]_vars, NEW t \in Threads PROVE ColumnsFit(req'[t])
      BY DEF ColumnsFit
    <2>1. QED
      BY ColumnsKept
  <1> HIDE DEF Fit
  <1>3. Spec => []Fit
    BY <1>1, <1>2, TypeCorrect, PTL DEF Spec
  <1>4. QED
    BY <1>3, PTL DEF Fit

\* The workflow implements the abstract report: for any accounts, reports,
\* threads and texts, every commit and every deletion of an account is one
\* of its operations, and every other step changes nothing a reader sees.
THEOREM Implementation == Spec => KeepsPromise
  <1> DEFINE Outcomes == IInv /\ \A t \in Threads : OutcomeFits(req[t])
             Columns == \A t \in Threads : ColumnsFit(req[t])
  <1>1. Outcomes /\ Columns /\ [Next]_vars => [Promise!Next]_(Promise!vars)
    BY PromisedStep
  <1> HIDE DEF Outcomes, Columns
  <1>2. Spec => []Outcomes /\ []Columns
    BY OutcomesFit, ColumnsAlwaysFit DEF Outcomes, Columns
  <1>3. QED
    BY <1>1, <1>2, PromisedInit, PTL DEF Spec, KeepsPromise, Promise!Spec

=============================================================================
