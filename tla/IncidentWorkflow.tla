-------------------------- MODULE IncidentWorkflow --------------------------
(***************************************************************************)
(* The review workflow of an incident report: app/routers/incidents.py,    *)
(* with the account operations of app/routers/settings.py that change who  *)
(* may do what.                                                            *)
(*                                                                         *)
(* FastAPI runs these handlers in a thread pool, each with its own         *)
(* SQLAlchemy session under READ COMMITTED.  A handler reads the incident  *)
(* row, decides on that copy and commits; create and edit call an LLM in   *)
(* between.  A request is therefore two or three steps here: it begins     *)
(* (the middleware's copy of the user and the handler's copy of the row),  *)
(* it may be analysed, and it commits.  Requests interleave between steps. *)
(*                                                                         *)
(* Abstractions: the form columns are the statement composed of them; a    *)
(* citation list is the statement it was computed for, Null when empty;    *)
(* the texts of comments, event notes and the reviewer's note, and the     *)
(* attachments (stored by the commit of their report or comment) are left  *)
(* out.                                                                    *)
(***************************************************************************)
EXTENDS Integers, Sequences, FiniteSets

CONSTANTS
  Users,       \* account ids; an id is never reused
  Incidents,   \* incident ids
  Threads,     \* worker threads (or browser tabs) with one request each
  Statements,  \* contents of the report form
  StatusInputs,\* the statuses a client sends to update_incident_status
  Null,        \* SQL NULL
  MaxLog       \* bound: log rows and open requests of an incident

ASSUME MaxLogAssumption == MaxLog \in Nat

VARIABLES
  accounts,    \* rows of users
  managers,    \* the accounts whose role is manager
  stored,      \* ids present in incidents
  row,         \* id -> its row in incidents
  events,      \* id -> its incident_events, in the order of their commits
  comments,    \* id -> its incident_comments, in the order of their commits
  req          \* thread -> the request it is serving

vars == <<accounts, managers, stored, row, events, comments, req>>

-----------------------------------------------------------------------------
(* The tables *)

Statuses == {"draft", "review_requested", "in_review", "supplement_requested",
             "supplement_completed", "completed"}

ASSUME StatusInputsAssumption == StatusInputs \subseteq Statuses

ManagerKinds == {"comment", "supplement_request", "conclusion"}
RequesterKinds == {"supplement_reply", "follow_up"}
CommentKinds == ManagerKinds \cup RequesterKinds

ASSUME NullAssumption == Null \notin Users \cup Incidents \cup Statements \cup CommentKinds

OrNull(S) == S \cup {Null}

Row == [status: Statuses, creator: OrNull(Users), assignee: OrNull(Users),
        statement: OrNull(Statements), cites: OrNull(Statements)]

BlankRow == [status |-> "draft", creator |-> Null, assignee |-> Null,
             statement |-> Null, cites |-> Null]

Ops == {"create", "edit", "comment", "status", "citations"}

\* "op" is the handler that wrote the event, as the note of the event tells.
Event == [status: Statuses, actor: OrNull(Users), op: Ops]

Comment == [kind: CommentKinds, author: OrNull(Users)]

(***************************************************************************)
(* A request.  seen is the row as the session loaded it, new the same      *)
(* object with the handler's assignments; ready says that only the commit  *)
(* is left.  logs: an event goes with the commit.  says: so does a comment *)
(* of that kind.                                                           *)
(***************************************************************************)
Request == [op: Ops \cup {"none"}, user: OrNull(Users), manager: BOOLEAN,
            inc: OrNull(Incidents), seen: Row, new: Row, ready: BOOLEAN,
            logs: BOOLEAN, says: OrNull(CommentKinds)]

Idle == [op |-> "none", user |-> Null, manager |-> FALSE, inc |-> Null,
         seen |-> BlankRow, new |-> BlankRow, ready |-> FALSE,
         logs |-> FALSE, says |-> Null]

TypeOK ==
  /\ accounts \subseteq Users
  /\ managers \subseteq accounts
  /\ stored \subseteq Incidents
  /\ row \in [Incidents -> Row]
  /\ events \in [Incidents -> Seq(Event)]
  /\ comments \in [Incidents -> Seq(Comment)]
  /\ req \in [Threads -> Request]
  /\ \A t \in Threads : req[t].op # "none" => req[t].user \in Users /\ req[t].inc \in Incidents

-----------------------------------------------------------------------------
(* Beginning a request *)

HasRoom(i) ==
  Len(events[i]) + Len(comments[i]) + Cardinality({t \in Threads : req[t].inc = i}) < MaxLog

Begin(t, r) == req[t] = Idle /\ req' = [req EXCEPT ![t] = r]

Tables == <<accounts, managers, stored, row, events, comments>>

\* What a handler starts from: the user as the middleware read it, the row
\* as session.get loaded it.
Loaded(op, u, i) ==
  [Idle EXCEPT !.op = op, !.user = u, !.manager = u \in managers, !.inc = i,
               !.seen = row[i], !.new = row[i]]

\* The ids taken by reports that are still being created.
Reserved == {req[t].inc : t \in {x \in Threads : req[x].op = "create"}}

\* create_incident up to the analysis.
CreateIncident(t, u, i, s, isDraft) ==
  /\ u \in accounts
  /\ i \notin stored \cup Reserved
  /\ Begin(t, [Idle EXCEPT !.op = "create", !.user = u, !.manager = u \in managers,
                 !.inc = i, !.ready = isDraft, !.logs = TRUE,
                 !.new = [BlankRow EXCEPT !.creator = u, !.statement = s,
                            !.status = IF isDraft THEN "draft" ELSE "review_requested"]])
  /\ UNCHANGED Tables

\* The assignments of edit_incident to the loaded object r.
Edited(r, s, c, isDraft) ==
  [r EXCEPT !.statement = s, !.cites = c,
            !.status = IF isDraft THEN "draft"
                       ELSE IF r.status = "draft" THEN "review_requested" ELSE r.status]

\* edit_incident up to the analysis; saving a draft keeps the citations.
EditIncident(t, u, i, s, isDraft) ==
  /\ u \in accounts /\ i \in stored /\ HasRoom(i)
  /\ row[i].creator = u
  /\ row[i].status # "completed"
  /\ Begin(t, [Loaded("edit", u, i) EXCEPT !.ready = isDraft, !.logs = TRUE,
                 !.new = Edited(row[i], s, row[i].cites, isDraft)])
  /\ UNCHANGED Tables

\* The status a message of this kind moves a report to.
NextStatus(kind, status) ==
  CASE kind = "supplement_request" -> "supplement_requested"
    [] kind = "supplement_reply" -> "supplement_completed"
    [] kind = "conclusion" -> "completed"
    [] kind = "follow_up" /\ status = "completed" -> "in_review"
    [] OTHER -> status

\* Variant: any requester sees any report.
EveryoneCanView(u, i) == TRUE

CanView(u, i) == u \in managers \/ row[i].creator = u

\* Variant: the role is not compared with the kind of the message.
MaySayAnyKind(u, i, kind) == CanView(u, i) /\ row[i].assignee \in {Null, u}

MaySay(u, i, kind) ==
  /\ CanView(u, i)
  /\ (kind \in ManagerKinds) <=> (u \in managers)
  /\ kind \in ManagerKinds => row[i].assignee \in {Null, u}

\* add_comment up to its commit.
AddComment(t, u, i, kind) ==
  LET next == NextStatus(kind, row[i].status)
      moves == next # row[i].status
  IN  /\ u \in accounts /\ i \in stored /\ HasRoom(i)
      /\ MaySay(u, i, kind)
      /\ Begin(t, [Loaded("comment", u, i) EXCEPT !.ready = TRUE, !.logs = moves,
                     !.says = kind, !.new.status = next])
      /\ UNCHANGED Tables

\* update_incident_status up to its commit.
UpdateIncidentStatus(t, u, i, status) ==
  /\ u \in managers /\ i \in stored /\ HasRoom(i)
  /\ row[i].assignee \in {Null, u}
  /\ Begin(t, [Loaded("status", u, i) EXCEPT !.ready = TRUE, !.logs = TRUE,
                 !.new.status = status, !.new.assignee = u])
  /\ UNCHANGED Tables

\* The review page of a manager shows a report and its markers.
OpenReview(t, u, i) ==
  /\ u \in managers /\ i \in stored
  /\ Begin(t, Loaded("citations", u, i))
  /\ UNCHANGED Tables

\* replace_citations up to its commit: it loads the row anew, and takes the
\* list, maybe emptied, whose offsets fit the statement that page shows.
ReplaceCitations(t, empty) ==
  LET r == req[t]
      list == IF empty THEN Null ELSE r.seen.statement
  IN  /\ r.op = "citations" /\ ~r.ready
      /\ r.user \in managers
      /\ req' = [req EXCEPT ![t] = [r EXCEPT !.ready = TRUE, !.seen = row[r.inc],
                                    !.new = [row[r.inc] EXCEPT !.cites = list]]]
      /\ UNCHANGED Tables

-----------------------------------------------------------------------------
(* Analysing, and ending a request *)

Analysed == {"create", "edit"}

\* annotate_text returns; it may find nothing to cite.
AnalysisSucceeds(t) ==
  /\ req[t].op \in Analysed /\ ~req[t].ready
  /\ \E c \in {Null, req[t].new.statement} :
       req' = [req EXCEPT ![t].ready = TRUE, ![t].new.cites = c]
  /\ UNCHANGED Tables

\* Variant: the failure of the analysis fails the request.
AnalysisAborts(t) ==
  /\ req[t].op \in Analysed /\ ~req[t].ready
  /\ req' = [req EXCEPT ![t] = Idle]
  /\ UNCHANGED Tables

\* annotate_text raises.  The rollback expires the loaded incident, so an
\* edit goes on with a fresh copy (and does not look at its status again).
\* Columns it assigns before they are loaded again have no old value, so
\* they are written in any case: seen holds other values for them.
AnalysisFails(t) ==
  LET r == req[t]
      now == row[r.inc]
      unloaded == [now EXCEPT !.statement = Null, !.cites = r.new.statement]
  IN  /\ r.op \in Analysed /\ ~r.ready
      /\ req' = [req EXCEPT ![t] =
           IF r.op = "edit"
           THEN [r EXCEPT !.ready = TRUE, !.seen = unloaded,
                          !.new = Edited(now, r.new.statement, Null, FALSE)]
           ELSE [r EXCEPT !.ready = TRUE, !.new.cites = Null]]
      /\ UNCHANGED Tables

\* Variant: the UPDATE names every column of the loaded object.
WrittenAlways(now, seen, new) == new

\* The UPDATE of a flush names only the columns whose value differs from
\* the loaded one; the others keep what is in the table by now.
Written(now, seen, new) == IF new = seen THEN now ELSE new

Flush(now, seen, new) ==
  [status    |-> Written(now.status, seen.status, new.status),
   creator   |-> Written(now.creator, seen.creator, new.creator),
   assignee  |-> Written(now.assignee, seen.assignee, new.assignee),
   statement |-> Written(now.statement, seen.statement, new.statement),
   cites     |-> Written(now.cites, seen.cites, new.cites)]

\* The rows of a request that reference its user; replace_citations has none.
ReferencesUser(r) == r.op # "citations"

\* Variant: the event is built before the new status is assigned.
EventOfOldStatus(r) == [status |-> r.seen.status, actor |-> r.user, op |-> r.op]

\* Variant: the event names the owner of the report as its actor.
EventOfCreator(r) == [status |-> r.new.status, actor |-> r.new.creator, op |-> r.op]

EventOf(r) == [status |-> r.new.status, actor |-> r.user, op |-> r.op]
CommentOf(r) == [kind |-> r.says, author |-> r.user]

\* session.commit(): the row, its event and its comment, all or nothing.
Commit(t) ==
  LET r == req[t]
      i == r.inc
  IN  /\ r.op # "none" /\ r.ready
      /\ ReferencesUser(r) => r.user \in accounts
      /\ stored' = stored \cup {i}
      /\ row' = [row EXCEPT ![i] = Flush(row[i], r.seen, r.new)]
      /\ events' = IF r.logs THEN [events EXCEPT ![i] = Append(@, EventOf(r))] ELSE events
      /\ comments' = IF r.says # Null THEN [comments EXCEPT ![i] = Append(@, CommentOf(r))]
                     ELSE comments
      /\ req' = [req EXCEPT ![t] = Idle]
      /\ UNCHANGED <<accounts, managers>>

\* A foreign key to a user that is gone by now: the commit fails.
CommitFails(t) ==
  /\ req[t].op # "none" /\ req[t].ready
  /\ ReferencesUser(req[t]) /\ req[t].user \notin accounts
  /\ req' = [req EXCEPT ![t] = Idle]
  /\ UNCHANGED Tables

-----------------------------------------------------------------------------
(* Accounts *)

\* update_settings: anyone may change their own role.
SwitchRole(u) ==
  /\ u \in accounts
  /\ managers' = IF u \in managers THEN managers \ {u} ELSE managers \cup {u}
  /\ UNCHANGED <<accounts, stored, row, events, comments, req>>

Forget(x, u) == IF x = u THEN Null ELSE x

\* Variant: the events of a deleted account go with it.
EventsWithoutUser(log, u) == SelectSeq(log, LAMBDA e : e.actor # u)

EventsForget(log, u) == [k \in DOMAIN log |-> [log[k] EXCEPT !.actor = Forget(@, u)]]
CommentsForget(log, u) == [k \in DOMAIN log |-> [log[k] EXCEPT !.author = Forget(@, u)]]

\* delete_account: the user's rows stay, their references become NULL.
DeleteAccount(u) ==
  /\ u \in accounts
  /\ accounts' = accounts \ {u}
  /\ managers' = managers \ {u}
  /\ row' = [i \in Incidents |-> [row[i] EXCEPT !.creator = Forget(@, u), !.assignee = Forget(@, u)]]
  /\ events' = [i \in Incidents |-> EventsForget(events[i], u)]
  /\ comments' = [i \in Incidents |-> CommentsForget(comments[i], u)]
  /\ UNCHANGED <<stored, req>>

-----------------------------------------------------------------------------

Init ==
  /\ accounts = Users
  /\ managers \in SUBSET Users
  /\ stored = {}
  /\ row = [i \in Incidents |-> BlankRow]
  /\ events = [i \in Incidents |-> <<>>]
  /\ comments = [i \in Incidents |-> <<>>]
  /\ req = [t \in Threads |-> Idle]

Handler(t, u, i) ==
  \/ \E s \in Statements, isDraft \in BOOLEAN : CreateIncident(t, u, i, s, isDraft)
  \/ \E s \in Statements, isDraft \in BOOLEAN : EditIncident(t, u, i, s, isDraft)
  \/ \E kind \in CommentKinds : AddComment(t, u, i, kind)
  \/ \E status \in StatusInputs : UpdateIncidentStatus(t, u, i, status)
  \/ OpenReview(t, u, i)

Next ==
  \/ \E t \in Threads, u \in Users, i \in Incidents : Handler(t, u, i)
  \/ \E t \in Threads, empty \in BOOLEAN : ReplaceCitations(t, empty)
  \/ \E t \in Threads : AnalysisSucceeds(t) \/ AnalysisFails(t)
  \/ \E t \in Threads : Commit(t) \/ CommitFails(t)
  \/ \E u \in Users : SwitchRole(u) \/ DeleteAccount(u)

Spec == Init /\ [][Next]_vars

-----------------------------------------------------------------------------
(* Safety *)

\* The current status is denormalised from the audit trail: some event of
\* the report always carries it, whichever requests overtook each other
\* (IncidentEvent's docstring; every handler that sets the status adds one).
StatusIsLogged ==
  \A i \in stored : \E k \in DOMAIN events[i] : events[i][k].status = row[i].status

\* Whoever is in charge of a report took it by a status change that is in
\* its history, also after races and after accounts were deleted.
AssigneeTookCharge ==
  \A i \in stored : row[i].assignee # Null =>
    \E k \in DOMAIN events[i] : events[i][k].actor = row[i].assignee /\ events[i][k].op = "status"

\* A report speaks for its creator only: what is written in the name of the
\* requester (the report, its edits, replies and inquiries) was written by
\* the account the report belongs to, or by nobody once that is deleted.
RequesterSideIsCreators ==
  \A i \in stored :
    /\ \A k \in DOMAIN events[i] :
         events[i][k].op \in {"create", "edit"} => events[i][k].actor = row[i].creator
    /\ \A k \in DOMAIN comments[i] :
         comments[i][k].kind \in RequesterKinds => comments[i][k].author = row[i].creator

\* The statuses of the history and the messages of the thread are only ever
\* appended to; deleting an account takes names out of them, nothing else.
HistoryIsAppendOnly ==
  [][\A i \in Incidents :
       /\ \A k \in DOMAIN events[i] :
            /\ k \in DOMAIN events'[i]
            /\ events'[i][k].status = events[i][k].status
            /\ events'[i][k].actor \in {events[i][k].actor, Null}
       /\ \A k \in DOMAIN comments[i] :
            /\ k \in DOMAIN comments'[i]
            /\ comments'[i][k].kind = comments[i][k].kind
            /\ comments'[i][k].author \in {comments[i][k].author, Null}]_vars

\* Only the review side finishes a report: the step that makes it completed
\* is the commit of a conclusion or of a status change by a manager, never
\* of an edit, whatever the edit saw when it began.
OnlyReviewCompletes ==
  [][\A i \in Incidents : row[i].status # "completed" /\ row'[i].status = "completed" =>
       \E t \in Threads : /\ req[t].inc = i /\ req'[t] = Idle
                          /\ req[t].manager
                          /\ req[t].says = "conclusion" \/ req[t].op = "status"]_vars

\* An edit of a submitted report that is not saved as a draft leaves the
\* status alone: a conclusion that is committed during its analysis stays.
EditKeepsStatus ==
  [][\A t \in Threads :
       /\ req[t].op = "edit" /\ req'[t] = Idle
       /\ req[t].seen.status # "draft" /\ req[t].new.status # "draft"
       => row'[req[t].inc].status = row[req[t].inc].status]_vars

\* A report is never lost to a failed analysis: the request that creates it
\* ends with the report stored as it was sent, unless its account is gone.
ReportIsKept ==
  [][\A t \in Threads :
       req[t].op = "create" /\ req'[t] = Idle /\ req[t].user \in accounts =>
         LET i == req[t].inc
         IN  i \in stored' /\ row'[i].statement = req[t].new.statement
             /\ row'[i].status \in {"draft", "review_requested"}]_vars

-----------------------------------------------------------------------------
(* Refinement *)

Promise == INSTANCE Dossier

\* Whatever overlaps, whoever reads the tables sees whole operations only:
\* each of one account that exists, with its event or message, and with no
\* write to a column that is not its own.  What an overtaken request loses
\* is at most its own columns, never the event of what it decided.
KeepsPromise == Promise!Spec

-----------------------------------------------------------------------------
(* The inductive invariant that carries the invariants above: what is known *)
(* of a request between its steps, whatever the others commit meanwhile.    *)

RequestFits(r) ==
  /\ r.op \notin {"none", "create"} => r.inc \in stored
  /\ r.op = "create" => /\ r.inc \notin stored
                        /\ r.seen = BlankRow /\ r.logs
                        /\ r.new.creator = r.user /\ r.new.assignee = Null
  /\ r.op # "create" => r.new.creator = r.seen.creator
  /\ r.op \in {"edit", "status"} => r.logs
  /\ r.new.status # r.seen.status => r.logs
  /\ r.new.assignee # r.seen.assignee => r.op = "status" /\ r.new.assignee = r.user
  /\ r.says # Null => r.op = "comment"
  /\ r.op = "edit" \/ r.says \in RequesterKinds =>
       (r.user \in accounts => row[r.inc].creator = r.user)

CreatesApart ==
  \A t, x \in Threads :
    t # x /\ req[t].op = "create" /\ req[x].op = "create" => req[t].inc # req[x].inc

UnstoredIsBlank ==
  \A i \in Incidents \ stored : row[i] = BlankRow /\ events[i] = <<>> /\ comments[i] = <<>>

IInv ==
  /\ TypeOK
  /\ \A t \in Threads : RequestFits(req[t])
  /\ CreatesApart
  /\ UnstoredIsBlank
  /\ StatusIsLogged
  /\ AssigneeTookCharge
  /\ RequesterSideIsCreators

-----------------------------------------------------------------------------
(* What comments in the code say and races refute *)

\* "The first to press start review is fixed as the manager in charge."
AssigneeIsFixed ==
  [][\A i \in Incidents : row[i].assignee # Null => row'[i].assignee \in {row[i].assignee, Null}]_vars

\* "A report whose review is completed is a settled result and cannot be edited."
CompletedIsSettled ==
  [][\A i \in Incidents : row[i].status = "completed" /\ row'[i].status = "completed" =>
       row'[i].statement = row[i].statement]_vars

=============================================================================
