------------------------------ MODULE Dossier ------------------------------
(***************************************************************************)
(* What the review workflow (app/routers/incidents.py, delete_account)     *)
(* promises to whoever reads its tables, without requests, sessions, roles *)
(* and analyses: however requests overlap, the tables change by whole      *)
(* operations, each of one account that exists, each with its event or     *)
(* message.  An operation that was overtaken may leave a column of the     *)
(* report as it finds it; it never writes a column that is not its own.    *)
(* IncidentWorkflow implements it.                                         *)
(***************************************************************************)
EXTENDS Sequences

CONSTANTS Users, Incidents, Statements, Null

VARIABLES
  accounts,    \* accounts that exist
  stored,      \* reports that exist
  row,         \* report -> what is on its cover
  events,      \* report -> its history
  comments     \* report -> its thread of messages

vars == <<accounts, stored, row, events, comments>>

-----------------------------------------------------------------------------

FirstStatuses == {"draft", "review_requested"}
Statuses == FirstStatuses \cup
  {"in_review", "supplement_requested", "supplement_completed", "completed"}

\* The messages that move a report, and where to.
Outcome == [supplement_request |-> "supplement_requested",
            supplement_reply |-> "supplement_completed",
            conclusion |-> "completed",
            follow_up |-> "in_review"]

OfRequester == {"supplement_reply", "follow_up"}
Kinds == DOMAIN Outcome \cup {"comment"}

Logs(i, u, op, status) ==
  events' = [events EXCEPT ![i] = Append(@, [status |-> status, actor |-> u, op |-> op])]

\* A report is opened, its citations those of its text if there are any.
File(u, i) ==
  /\ u \in accounts /\ i \notin stored
  /\ stored' = stored \cup {i}
  /\ \E st \in FirstStatuses :
       /\ Logs(i, u, "create", st)
       /\ \E s \in Statements : \E c \in {Null, s} :
            row' = [row EXCEPT ![i] = [status |-> st, creator |-> u, assignee |-> Null,
                                       statement |-> s, cites |-> c]]
  /\ UNCHANGED <<accounts, comments>>

\* The requester writes the report anew; it never gets a status that only
\* a review gives.
Revise(u, i) ==
  /\ u \in accounts /\ i \in stored /\ row[i].creator = u
  /\ \E st \in Statuses :
       /\ Logs(i, u, "edit", st)
       /\ \E status \in {row[i].status} \cup ({st} \cap FirstStatuses), s \in Statements :
          \E statement \in {row[i].statement, s}, c \in {row[i].cites, Null, s} :
            row' = [row EXCEPT ![i] = [@ EXCEPT !.status = status, !.statement = statement,
                                                !.cites = c]]
  /\ UNCHANGED <<accounts, stored, comments>>

\* A message goes on the thread; it moves the report with an event or not at all.
Say(u, i, kind) ==
  /\ u \in accounts /\ i \in stored
  /\ kind \in OfRequester => row[i].creator = u
  /\ comments' = [comments EXCEPT ![i] = Append(@, [kind |-> kind, author |-> u])]
  /\ \/ UNCHANGED <<row, events>>
     \/ /\ kind \in DOMAIN Outcome
        /\ row' = [row EXCEPT ![i] = [@ EXCEPT !.status = Outcome[kind]]]
        /\ Logs(i, u, "comment", Outcome[kind])
  /\ UNCHANGED <<accounts, stored>>

\* A manager sets the status and takes charge, if nothing is overtaken.
Decide(u, i) ==
  /\ u \in accounts /\ i \in stored
  /\ \E st \in Statuses :
       /\ Logs(i, u, "status", st)
       /\ \E status \in {row[i].status, st}, assignee \in {row[i].assignee, u} :
            row' = [row EXCEPT ![i] = [@ EXCEPT !.status = status, !.assignee = assignee]]
  /\ UNCHANGED <<accounts, stored, comments>>

\* The markers of a report are replaced; this leaves no trace.
Mark(i) ==
  /\ i \in stored
  /\ \E c \in Statements \cup {Null} : row' = [row EXCEPT ![i] = [@ EXCEPT !.cites = c]]
  /\ UNCHANGED <<accounts, stored, events, comments>>

Blot(x, u) == IF x = u THEN Null ELSE x

\* An account goes, and its name with it wherever it stands.
Leave(u) ==
  /\ u \in accounts
  /\ accounts' = accounts \ {u}
  /\ row' = [i \in Incidents |->
               [row[i] EXCEPT !.creator = Blot(@, u), !.assignee = Blot(@, u)]]
  /\ events' = [i \in Incidents |->
                  [k \in DOMAIN events[i] |-> [events[i][k] EXCEPT !.actor = Blot(@, u)]]]
  /\ comments' = [i \in Incidents |->
                    [k \in DOMAIN comments[i] |-> [comments[i][k] EXCEPT !.author = Blot(@, u)]]]
  /\ UNCHANGED stored

Init ==
  /\ accounts = Users
  /\ stored = {}
  /\ row = [i \in Incidents |-> [status |-> "draft", creator |-> Null, assignee |-> Null,
                                 statement |-> Null, cites |-> Null]]
  /\ events = [i \in Incidents |-> <<>>]
  /\ comments = [i \in Incidents |-> <<>>]

Next ==
  \/ \E u \in Users, i \in Incidents : File(u, i) \/ Revise(u, i) \/ Decide(u, i)
  \/ \E u \in Users, i \in Incidents, kind \in Kinds : Say(u, i, kind)
  \/ \E i \in Incidents : Mark(i)
  \/ \E u \in Users : Leave(u)

Spec == Init /\ [][Next]_vars

=============================================================================
