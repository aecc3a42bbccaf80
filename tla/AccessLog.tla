----------------------------- MODULE AccessLog -----------------------------
(***************************************************************************)
(* The collector of access-log lines of src/ops/access_log.py.  The log of *)
(* the application's container only grows; a call reads it from the second *)
(* of the newest line counted so far and counts what it has not seen.  The *)
(* calls are made by polls, those of poller() in state.py one after the    *)
(* other and those of the refresh button beside them: a call copies what   *)
(* it needs under a lock, reads the log without it and applies the result  *)
(* under it.                                                               *)
(*                                                                         *)
(* A line is a position of the log: with Docker's nanoseconds no two lines *)
(* are the same text.  `at' is its time as _parse_ts cuts it, in ticks.    *)
(***************************************************************************)
EXTENDS Naturals, Sequences, FiniteSets

CONSTANTS
    Polls,              \* the polls there may be at one time
    Poller,             \* the one of poller(); the others are refreshes
    MaxLinesPerPoll,    \* _MAX_LINES_PER_POLL
    Second,             \* ticks in a second, the resolution of `since'
    FirstWindow,        \* the five minutes a first call looks back, in ticks
    Null,
    MaxTime, MaxLog     \* bounds: how far the clock runs, lines written

ASSUME AccessLogAssumption ==
    /\ Poller \in Polls
    /\ MaxLinesPerPoll \in Nat \ {0} /\ Second \in Nat \ {0}
    /\ FirstWindow \in Nat /\ MaxTime \in Nat /\ MaxLog \in Nat
    /\ Null \notin Nat

VARIABLES
    now,        \* the clock
    log,        \* the lines the container has written
    counted,    \* _totals by line: how often this process counted each
    lastTs,     \* _last_ts
    seen,       \* _seen_at_last_ts
    call,       \* the call of the collector each poll has under way
    start,      \* history: the time this process counts from
    overlapped  \* history: whether two calls of this process ever overlapped

clock == <<now, log>>
tally == <<counted, lastTs, seen>>
logVars == <<now, log, counted, lastTs, seen, call, start, overlapped>>

Positions == 1 .. MaxLog
\* Counts from Many on are not told apart.
Many == 2

NoCall == [pc |-> "none"]
Copied == [pc: {"copied"}, since: Nat, previous: Nat \cup {Null},
           seen: SUBSET Positions]
WithLines == [pc: {"read"}, since: Nat, previous: Nat \cup {Null},
              seen: SUBSET Positions, raw: SUBSET Positions]

LogTypeOK ==
    /\ now \in Nat
    /\ log \in Seq([at: Nat, access: BOOLEAN])
    /\ Len(log) <= MaxLog
    /\ counted \in [Positions -> 0 .. Many]
    /\ lastTs \in Nat \cup {Null}
    /\ seen \in SUBSET Positions
    /\ call \in [Polls -> Copied \cup WithLines \cup {NoCall}]
    /\ start \in Nat \cup {Null}
    /\ overlapped \in BOOLEAN

LogInit ==
    /\ now = 0
    /\ log = <<>>
    /\ counted = [i \in Positions |-> 0]
    /\ lastTs = Null
    /\ seen = {}
    /\ call = [p \in Polls |-> NoCall]
    /\ start = Null
    /\ overlapped = FALSE

-----------------------------------------------------------------------------
(* The world: time passes and the container writes lines. *)

AccessLines == {i \in DOMAIN log : log[i].access}
SecondOf(t) == t \div Second

\* The lines from the second of time t on, which is what Docker's filter
\* `since' selects: it is cut to whole seconds.
LinesSince(t) == {i \in DOMAIN log : SecondOf(log[i].at) >= SecondOf(t)}

\* What the collector relies on without saying so: from the second of one
\* request to the next request there are no more lines than a poll reads.
\* A line that is no request must leave room for the request after it.
Readable(access) ==
    LET last == {a \in AccessLines : \A b \in AccessLines : b <= a}
        span == IF last = {} THEN DOMAIN log
                ELSE LinesSince(log[CHOOSE a \in last : TRUE].at)
    IN Cardinality(span) + (IF access THEN 1 ELSE 2) <= MaxLinesPerPoll

WriteLine(access) ==
    /\ Len(log) < MaxLog
    /\ Readable(access)
    /\ log' = Append(log, [at |-> now, access |-> access])
    /\ UNCHANGED <<now, tally, call, start, overlapped>>

Tick ==
    /\ now < MaxTime
    /\ now' = now + 1
    /\ UNCHANGED <<log, tally, call, start, overlapped>>

-----------------------------------------------------------------------------
(* One call of collect_access_log. *)

Since == IF lastTs # Null THEN lastTs
         ELSE IF now >= FirstWindow THEN now - FirstWindow ELSE 0

\* The first lock: the call takes a copy and goes on without the lock.
CopyLast(p) ==
    /\ call[p] = NoCall
    /\ call' = [call EXCEPT ![p] = [pc |-> "copied", since |-> Since,
                                    previous |-> lastTs, seen |-> seen]]
    /\ overlapped' = (overlapped \/ \E q \in Polls : call[q] # NoCall)
    /\ UNCHANGED <<clock, tally, start>>

\* Variant: one line fewer than the limit.
Raw_OneFewer(since) ==
    {i \in LinesSince(since) :
        Cardinality({j \in LinesSince(since) : j <= i}) < MaxLinesPerPoll}

\* The first lines of what the log has, in its order.
Raw(since) ==
    {i \in LinesSince(since) :
        Cardinality({j \in LinesSince(since) : j <= i}) <= MaxLinesPerPoll}

ReadLog(p) ==
    /\ call[p].pc = "copied"
    /\ call' = [call EXCEPT ![p] =
                  [pc |-> "read", since |-> @.since, previous |-> @.previous,
                   seen |-> @.seen, raw |-> Raw(@.since)]]
    /\ UNCHANGED <<clock, tally, start, overlapped>>

\* Docker does not answer.  (Before the copy this leaves everything as it is.)
CollectFails(p) ==
    /\ call[p].pc = "copied"
    /\ call' = [call EXCEPT ![p] = NoCall]
    /\ UNCHANGED <<clock, tally, start, overlapped>>

\* Variant: only what is later than the last call counts.
IsFresh_LaterOnly(c, i) ==
    log[i].access /\ (c.previous # Null => log[i].at > c.previous)
\* Variant: what the last call has seen is counted again.
IsFresh_SeenAgain(c, i) ==
    log[i].access /\ (c.previous # Null => log[i].at >= c.previous)

\* The lines of a call that were not there, or not seen, the last time.
IsFresh(c, i) ==
    /\ log[i].access
    /\ c.previous # Null =>
         \/ log[i].at > c.previous
         \/ log[i].at = c.previous /\ i \notin c.seen
Fresh(c) == {i \in c.raw : IsFresh(c, i)}

Newest(c) ==
    IF Fresh(c) = {} THEN c.previous
    ELSE LET latest == CHOOSE i \in Fresh(c) :
                         \A j \in Fresh(c) : log[j].at <= log[i].at
         IN log[latest].at

\* Variant: what was seen at an earlier time is kept.
NewestKeys_KeepAll(c) == {i \in Fresh(c) : log[i].at = Newest(c)} \cup c.seen
NewestKeys(c) ==
    {i \in Fresh(c) : log[i].at = Newest(c)}
        \cup (IF Newest(c) = c.previous THEN c.seen ELSE {})

More(n) == IF n < Many THEN n + 1 ELSE n

\* The second lock: the lines are counted, and the next call begins where
\* this one ended, whatever other calls did meanwhile.
CountLines(p) ==
    /\ call[p].pc = "read"
    /\ LET c == call[p] IN
         /\ counted' = [i \in Positions |-> IF i \in Fresh(c) THEN More(counted[i])
                                            ELSE counted[i]]
         /\ lastTs' = IF Newest(c) = Null THEN c.since ELSE Newest(c)
         /\ seen' = NewestKeys(c)
         /\ start' = IF c.previous = Null /\ (start = Null \/ start < c.since)
                     THEN c.since ELSE start
    /\ call' = [call EXCEPT ![p] = NoCall]
    /\ UNCHANGED <<clock, overlapped>>

\* The monitor is restarted: its counters are in memory only.
Restart ==
    /\ counted' = [i \in Positions |-> 0]
    /\ lastTs' = Null
    /\ seen' = {}
    /\ call' = [p \in Polls |-> NoCall]
    /\ start' = Null
    /\ overlapped' = FALSE
    /\ UNCHANGED clock

LogNext ==
    \/ \E access \in BOOLEAN : WriteLine(access)
    \/ Tick
    \/ \E p \in Polls :
         CopyLast(p) \/ ReadLog(p) \/ CollectFails(p) \/ CountLines(p)
    \/ Restart

(***************************************************************************)
(* The poller polls for ever and a call that began ends, by an answer or   *)
(* by a time-out.  Docker does not refuse the poller for ever, which takes *)
(* strong fairness: reading and failing exclude each other.  Nothing is    *)
(* said of refreshes and restarts.                                         *)
(***************************************************************************)
LogFairness ==
    /\ WF_logVars(CopyLast(Poller))
    /\ SF_logVars(ReadLog(Poller))
    /\ \A p \in Polls : /\ WF_logVars(ReadLog(p) \/ CollectFails(p))
                        /\ WF_logVars(CountLines(p))

LogSpec == LogInit /\ [][LogNext]_logVars /\ LogFairness

-----------------------------------------------------------------------------
(* Requests of this process's time, which are to be counted. *)
Due(i) ==
    /\ i \in AccessLines
    /\ start # Null
    /\ log[i].at >= start

(***************************************************************************)
(* Calls that overlap set _last_ts in either order, so that it may go back *)
(* (access_log.py:136).  Still nothing is skipped: the next call reads     *)
(* from _last_ts on, and every request before that, or seen at that time,  *)
(* has been counted.                                                       *)
(***************************************************************************)
NothingSkipped ==
    \A i \in DOMAIN log :
        Due(i) /\ lastTs # Null /\ (log[i].at < lastTs \/ i \in seen)
            => counted[i] > 0

(***************************************************************************)
(* The repetition filter (access_log.py:115-118) does what its comment     *)
(* says when calls follow each other: a second that is read again does not *)
(* inflate the counters, whatever fails and however long a call takes.     *)
(***************************************************************************)
CountedOnce == ~overlapped => \A i \in Positions : counted[i] <= 1

(***************************************************************************)
(* _seen_at_last_ts has what it is named for: the requests at _last_ts     *)
(* that were counted, by whichever call came last.                         *)
(***************************************************************************)
SeenIsAtLast ==
    \A i \in seen : lastTs # Null /\ i \in AccessLines /\ log[i].at = lastTs

(***************************************************************************)
(* Every request is counted in the end: the collector gets past any second *)
(* (it reads the whole second again) and past its limit of lines, although *)
(* overlapping calls may take it back, as long as the log is Readable.  A  *)
(* restart begins anew (access_log.py:87-89).                              *)
(***************************************************************************)
IsDue(i) == i \in DOMAIN log /\ Due(i)
EveryRequestCounted ==
    \A i \in Positions : IsDue(i) ~> (counted[i] > 0 \/ ~IsDue(i))
=============================================================================
