------------------------------ MODULE Monitor ------------------------------
(***************************************************************************)
(* The polls of the monitor (src/ops/state.py, src/ops/main.py): a poll    *)
(* runs every check (src/ops/checks.py, and the collector of AccessLog) in *)
(* a thread of its own, waits for all of them and then replaces the        *)
(* snapshot that the pages read.  The first poll runs before requests are  *)
(* served, then poller() polls for ever, and each press of the refresh     *)
(* button polls beside it.                                                 *)
(***************************************************************************)
EXTENDS Naturals, FiniteSets

CONSTANTS
    Checks,     \* the checks of ALL_CHECKS looked at, see Conditions
    Polls,      \* the polls there may be at one time
    Poller      \* the one of lifespan and poller(); the others are refreshes

ASSUME MonitorAssumption ==
    /\ Poller \in Polls
    /\ Checks \subseteq {"web", "postgres", "neo4j", "docker", "activity", "traffic"}
    /\ Checks # {}

VARIABLES
    condition,  \* what the target of each check is like
    poll,       \* what the checks of each poll under way have answered
    serving,    \* whether the first poll of the process is over
    snapshot    \* _snapshot["results"]: is each component ok

vars == <<condition, poll, serving, snapshot>>

\* What a check may find.
Conditions(x) ==
    CASE x = "web"    -> {"page", "loginRedirect", "serverError", "refused"}
      [] x = "docker" -> {"running", "starting", "unhealthy", "refused"}
      [] x = "traffic" -> {"answers", "refused"}
      [] OTHER        -> {"answers", "refused", "frozen"}

\* The checks that bound how long they connect, not how long they then wait for
\* the answers to their queries: a server that freezes meanwhile holds them.
Unbounded == Checks \cap {"postgres", "neo4j", "activity"}

\* Any answer below 500 is a sign of life.
CheckWeb(c) == c \notin {"serverError", "refused"}
CheckPostgres(c) == c = "answers"
CheckNeo4j(c) == c = "answers"
\* A container in the grace time of its health check is not counted as ill.
CheckDocker(c) == c \notin {"unhealthy", "refused"}
CheckActivity(c) == c = "answers"
CollectAccessLog(c) == c # "refused"

IsOk(x, c) ==
    CASE x = "web"      -> CheckWeb(c)
      [] x = "postgres" -> CheckPostgres(c)
      [] x = "neo4j"    -> CheckNeo4j(c)
      [] x = "docker"   -> CheckDocker(c)
      [] x = "activity" -> CheckActivity(c)
      [] x = "traffic"  -> CollectAccessLog(c)
IsUp(x) == IsOk(x, condition[x])

Answers == {"pending", "asking", "ok", "failed"}
\* No poll under way; and no snapshot, before the first poll.
Nothing == [x \in {} |-> "pending"]

Init ==
    /\ condition \in {f \in [Checks -> UNION {Conditions(x) : x \in Checks}] :
                        \A x \in Checks : f[x] \in Conditions(x)}
    /\ poll = [p \in Polls |-> Nothing]
    /\ serving = FALSE
    /\ snapshot = Nothing

\* The world: a target breaks, or recovers.  A server that goes away closes
\* its connections, and the checks that wait for an answer fail.
ConditionChanges(x) ==
    \E c \in Conditions(x) \ {condition[x]} :
      /\ condition' = [condition EXCEPT ![x] = c]
      /\ poll' = [p \in Polls |-> [y \in DOMAIN poll[p] |->
                    IF y = x /\ c = "refused" /\ poll[p][y] = "asking"
                    THEN "failed" ELSE poll[p][y]]]
      /\ UNCHANGED <<serving, snapshot>>

-----------------------------------------------------------------------------
(* poll_once *)

BeginPoll(p) ==
    /\ poll[p] = Nothing
    /\ p = Poller \/ serving
    /\ poll' = [poll EXCEPT ![p] = [x \in Checks |-> "pending"]]
    /\ UNCHANGED <<condition, serving, snapshot>>

\* A check of a database has its connection and asks.  The driver of Neo4j
\* keeps its connections: asking takes no connecting that could time out.
CheckAsks(p, x) ==
    /\ poll[p] # Nothing /\ x \in Unbounded /\ poll[p][x] = "pending"
    /\ \/ condition[x] = "answers"
       \/ x = "neo4j" /\ condition[x] = "frozen"
    /\ poll' = [poll EXCEPT ![p][x] = "asking"]
    /\ UNCHANGED <<condition, serving, snapshot>>

\* What a check raises is caught, there or by poll_once.  "Refused" is every
\* error and every time-out; connecting to a frozen server ends in a time-out,
\* an answer that it owes does not come.
CheckAnswers(p, x) ==
    /\ poll[p] # Nothing
    /\ \/ poll[p][x] = "pending" /\ ~ (x \in Unbounded /\ condition[x] = "answers")
       \/ poll[p][x] = "asking" /\ condition[x] # "frozen"
    /\ poll' = [poll EXCEPT ![p][x] = IF IsUp(x) THEN "ok" ELSE "failed"]
    /\ UNCHANGED <<condition, serving, snapshot>>

\* Variant: only what is ill replaces what was there.
EndPoll_KeepsFailures(p) ==
    /\ poll[p] # Nothing
    /\ \A x \in Checks : poll[p][x] \in {"ok", "failed"}
    /\ snapshot' = IF snapshot = Nothing THEN poll[p]
                   ELSE [x \in Checks |-> IF snapshot[x] = "failed" THEN "failed"
                                          ELSE poll[p][x]]
    /\ serving' = TRUE
    /\ poll' = [poll EXCEPT ![p] = Nothing]
    /\ UNCHANGED condition

\* Every check has answered: the snapshot is replaced, whichever poll it is.
EndPoll(p) ==
    /\ poll[p] # Nothing
    /\ \A x \in Checks : poll[p][x] \in {"ok", "failed"}
    /\ snapshot' = poll[p]
    /\ serving' = TRUE
    /\ poll' = [poll EXCEPT ![p] = Nothing]
    /\ UNCHANGED condition

Restart ==
    /\ poll' = [p \in Polls |-> Nothing]
    /\ serving' = FALSE
    /\ snapshot' = Nothing
    /\ UNCHANGED condition

Next ==
    \/ \E x \in Checks : ConditionChanges(x)
    \/ \E p \in Polls : \/ BeginPoll(p)
                        \/ \E x \in Checks : CheckAsks(p, x) \/ CheckAnswers(p, x)
                        \/ EndPoll(p)
    \/ Restart

(***************************************************************************)
(* poller() catches whatever a poll raises, sleeps and polls again.  A     *)
(* check connects, or gives up: the web check and the two of Docker have a *)
(* time-out for all they do, those of the databases for connecting only.   *)
(* Once such a check asks, no answer is owed while the server is frozen,   *)
(* and its poll, which waits for every check, does not end before it.      *)
(***************************************************************************)
Fairness ==
    /\ WF_vars(BeginPoll(Poller))
    /\ \A p \in Polls :
         /\ \A x \in Checks : WF_vars(CheckAsks(p, x) \/ CheckAnswers(p, x))
         /\ WF_vars(EndPoll(p))

Spec == Init /\ [][Next]_vars /\ Fairness

-----------------------------------------------------------------------------
\* api_status: before the first poll the answer is "not known", never "fine".
OverallOk == snapshot # Nothing /\ \A x \in Checks : snapshot[x] = "ok"
Shown(x) == IF snapshot = Nothing THEN "unknown" ELSE snapshot[x]

TypeOK ==
    /\ condition \in [Checks -> UNION {Conditions(x) : x \in Checks}]
    /\ \A x \in Checks : condition[x] \in Conditions(x)
    /\ poll \in [Polls -> [Checks -> Answers] \cup {Nothing}]
    /\ serving \in BOOLEAN
    /\ snapshot \in [Checks -> {"ok", "failed"}] \cup {Nothing}
    /\ serving <=> snapshot # Nothing

\* A failure of x that lasts is shown in the end and stays shown, with the
\* whole not ok, and so is a recovery that lasts.
LastingIsShown(x) ==
    /\ []<>IsUp(x) \/ []<>~serving \/ <>[](Shown(x) = "failed" /\ ~OverallOk)
    /\ []<>~IsUp(x) \/ []<>~serving \/ <>[](Shown(x) = "ok")

\* A query of the poller's that is never answered.
PollerHangs ==
    \E x \in Checks : <>[](poll[Poller] # Nothing /\ poll[Poller][x] = "asking")

(***************************************************************************)
(* Unless the poller hangs in a query, which only a database that freezes  *)
(* between connecting and answering brings about, what lasts is shown in   *)
(* the end: a slow poll that saw the opposite may replace the snapshot of  *)
(* a later one (state.py:123), but not for good; and a refresh that hangs  *)
(* holds up nobody but itself.                                             *)
(***************************************************************************)
LastingStateIsShown == PollerHangs \/ \A x \in Checks : LastingIsShown(x)

(***************************************************************************)
(* "Checks are run side by side so that the time-out of one target (5      *)
(* seconds at most) does not push back the checks of the others"           *)
(* (state.py:92): what lasts is shown in the end, whatever freezes.  The   *)
(* checks do run side by side, but the snapshot waits for all of them:     *)
(* this fails, see frozen_database.cfg.                                    *)
(***************************************************************************)
NoneHoldsUpTheOthers == \A x \in Checks : LastingIsShown(x)

=============================================================================
