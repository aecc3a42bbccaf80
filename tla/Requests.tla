------------------------------ MODULE Requests ------------------------------
(***************************************************************************)
(* The life of a request of src/app: the middleware that finds the user of *)
(* a session (main.py, auth.py), a handler in a worker thread, and the     *)
(* connections of the pool (db.py) that both need.  The handlers are the   *)
(* ones for sign-up, log-in and log-out (routers/auth.py) and for saving   *)
(* the choice of laws (routers/settings.py, law_catalog.py); "page" stands *)
(* for every handler that reads.                                           *)
(*                                                                         *)
(* There is one event loop.  The middleware is a coroutine that talks to   *)
(* the database without awaiting, so that nothing else happens on the loop *)
(* meanwhile; "fragment", the pop-up's way to save laws, is another.  A    *)
(* worker thread does not need the loop, but its session is closed through *)
(* it.  A commit gives the connection back and expires what was loaded, so *)
(* that a handler that goes on takes a connection again.                   *)
(*                                                                         *)
(* One account name is looked at; its password is the browser that chose   *)
(* it.  A browser has at most one session that it knows the token of, and  *)
(* logs in or signs up when nothing else of it is under way.  A statement  *)
(* of PostgreSQL sees what was committed when it begins and waits for rows *)
(* that an open transaction has changed.                                   *)
(***************************************************************************)
EXTENDS Integers, FiniteSets

CONSTANTS
  Reqs,        \* requests there may be at one time
  Browsers,
  Laws,
  Repealed,    \* laws with repealed_at, which no form offers
  PoolSizes,   \* connections of the pool: pool_size and max_overflow
  Null

ASSUME RequestsAssumption ==
  /\ PoolSizes \subseteq Nat \ {0}
  /\ Repealed \subseteq Laws
  /\ Null \notin Browsers \cup Reqs

VARIABLES
  account,     \* users: the browser whose password the account has
  sessions,    \* user_sessions: the session of each browser
  selected,    \* user_law_selections of the account
  size,        \* connections of the pool
  free,        \* those that nobody holds
  loop,        \* the request that occupies the event loop
  req          \* what each request is doing

tables == <<account, sessions, selected>>
vars == <<account, sessions, selected, size, free, loop, req>>

-----------------------------------------------------------------------------

\* toggleable_law_ids: the laws a save may change.
Toggleable == Laws \ Repealed

Saving == {"save", "fragment"}
\* require_login
NeedsLogin == {"page"} \cup Saving
\* Requests that come with a cookie, of a session that may have ended.
WithCookie == NeedsLogin \cup {"logout"}
Kinds == WithCookie \cup {"login", "signup"}

\* Where a request waits for a connection, and where it goes on with it.
Then == [lookup |-> "looking", handler |-> "work", onLoop |-> "work",
         refresh |-> "session", reload |-> "returned"]
Phases == {"idle", "arrived", "expired", "register", "delete", "insert", "commit"}
            \cup DOMAIN Then \cup {Then[p] : p \in DOMAIN Then}

(***************************************************************************)
(* laws is what a save inserts and gone what it deletes; alone, for the    *)
(* property, that no other save has overlapped it so far.                  *)
(***************************************************************************)
Idle == [kind |-> "page", phase |-> "idle", who |-> Null,
         conn |-> FALSE, laws |-> {}, gone |-> {}, alone |-> FALSE]

In(r, phase) == req[r].phase = phase
Holders == {r \in Reqs : req[r].conn}
InSave(r) == In(r, "delete") \/ In(r, "insert") \/ In(r, "commit")
OnLoop(r) ==
  \/ In(r, "lookup") \/ In(r, "looking") \/ In(r, "expired")
  \/ In(r, "onLoop")
  \/ req[r].kind = "fragment" /\ (InSave(r) \/ In(r, "work") \/ In(r, "reload"))

TypeOK ==
  /\ account \in Browsers \cup {Null}
  /\ sessions \in [Browsers -> {"none", "live", "expired"}]
  /\ selected \subseteq Laws
  /\ size \in PoolSizes /\ free = size - Cardinality(Holders)
  /\ \A r \in Reqs : /\ req[r].kind \in Kinds /\ req[r].phase \in Phases
                     /\ req[r].gone \cup req[r].laws \subseteq Toggleable
                     /\ In(r, "idle") => req[r] = Idle
                     /\ loop = r <=> OnLoop(r)

Init ==
  /\ account \in Browsers \cup {Null}
  /\ sessions = [b \in Browsers |-> "none"]
  /\ selected \in IF account = Null THEN {{}} ELSE SUBSET Laws
  /\ size \in PoolSizes /\ free = size
  /\ loop = Null
  /\ req = [r \in Reqs |-> Idle]

-----------------------------------------------------------------------------
(* The world *)

Arrive(r, kind, b) ==
  /\ In(r, "idle")
  /\ \A q \in Reqs : req[q].who = b => {kind, req[q].kind} \subseteq WithCookie
  /\ req' = [req EXCEPT ![r] = [Idle EXCEPT !.kind = kind, !.phase = "arrived", !.who = b]]
  /\ UNCHANGED <<tables, size, free, loop>>

\* SESSION_TTL has passed.
Expire(b) ==
  /\ sessions[b] = "live"
  /\ sessions' = [sessions EXCEPT ![b] = "expired"]
  /\ UNCHANGED <<account, selected, size, free, loop, req>>

-----------------------------------------------------------------------------
(* The pool and the loop *)

\* s is the request after a step of it in which it keeps what it holds.
Goes(r, s) ==
  /\ req' = [req EXCEPT ![r] = s]
  /\ loop' = IF s.phase = "returned" /\ loop = r THEN Null ELSE loop
  /\ UNCHANGED <<size, free>>

\* ... and a step that ends its transaction and gives the connection back.
GoesFree(r, s) ==
  /\ req' = [req EXCEPT ![r] = [s EXCEPT !.conn = FALSE]]
  /\ loop' = IF loop = r /\ s.phase \in {"handler", "returned"} THEN Null ELSE loop
  /\ free' = free + 1
  /\ UNCHANGED size

\* What matters of a request that is over, or only reads what it committed.
At(r, phase) ==
  CASE phase = "returned" -> [Idle EXCEPT !.phase = phase, !.conn = req[r].conn]
    [] phase = "reload"   -> [Idle EXCEPT !.phase = phase, !.conn = req[r].conn, !.kind = req[r].kind]
    [] OTHER              -> [req[r] EXCEPT !.phase = phase]

Checkout(r) ==
  /\ req[r].phase \in DOMAIN Then /\ free > 0
  /\ req' = [req EXCEPT ![r] = [At(r, Then[@.phase]) EXCEPT !.conn = TRUE]]
  /\ loop' = IF Then[req[r].phase] = "returned" /\ loop = r THEN Null ELSE loop
  /\ free' = free - 1
  /\ UNCHANGED <<tables, size>>

\* Variant: a request waits for a connection as long as it takes.
CheckoutFails_Never(r) ==
  /\ req[r].phase \in DOMAIN Then /\ free = 0
  /\ UNCHANGED vars

\* Thirty seconds without a connection: the request is answered with 500,
\* by the middleware at once, which has opened nothing else.
CheckoutFails(r) ==
  /\ req[r].phase \in DOMAIN Then /\ free = 0
  /\ req' = [req EXCEPT ![r] = IF In(r, "lookup") THEN Idle ELSE At(r, "returned")]
  /\ loop' = IF loop = r THEN Null ELSE loop
  /\ UNCHANGED <<tables, size, free>>

\* Variant: the session of a handler that fails is not closed.
Close_OnSuccess(r) ==
  /\ In(r, "returned") /\ loop = Null
  /\ req' = [req EXCEPT ![r] = Idle]
  /\ UNCHANGED <<tables, size, free, loop>>

\* get_session closes the session of a handler that returned or raised,
\* for which the loop has to run; then the answer is sent.
Close(r) ==
  /\ In(r, "returned") /\ loop = Null
  /\ req' = [req EXCEPT ![r] = Idle]
  /\ free' = IF req[r].conn THEN free + 1 ELSE free
  /\ UNCHANGED <<tables, size, loop>>

-----------------------------------------------------------------------------
(* attach_current_user *)

\* A request without a cookie goes straight to its handler.
Dispatch(r) ==
  /\ In(r, "arrived") /\ loop = Null
  /\ IF req[r].kind \in WithCookie
     THEN loop' = r /\ req' = [req EXCEPT ![r] = At(r, "lookup")]
     ELSE loop' = loop /\ req' = [req EXCEPT ![r] = At(r, "handler")]
  /\ UNCHANGED <<tables, size, free>>

\* Where the middleware leaves a request: require_login raises before the
\* handler begins, and the others do not ask for a user.
Answerer(r, found) == IF found \/ req[r].kind = "logout" THEN "handler" ELSE "returned"

\* user_for_token finds the session, or none.  Handlers that need a login
\* have no other use for the browser.
Look(r) ==
  LET s == sessions[req[r].who] IN
  /\ In(r, "looking")
  /\ IF s = "expired" THEN Goes(r, At(r, "expired"))
     ELSE GoesFree(r, [At(r, Answerer(r, s = "live"))
                         EXCEPT !.who = IF req[r].kind \in NeedsLogin THEN Null ELSE @])
  /\ UNCHANGED tables

\* It deletes an expired session; another request may have done so, which
\* SQLAlchemy only warns about.
DropExpired(r) ==
  /\ In(r, "expired")
  /\ sessions' = [sessions EXCEPT ![req[r].who] = "none"]
  /\ GoesFree(r, At(r, Answerer(r, FALSE)))
  /\ UNCHANGED <<account, selected>>

\* update_settings_laws_fragment is a coroutine.
EnterLoop(r) ==
  /\ In(r, "handler") /\ req[r].kind = "fragment"
  /\ loop = Null /\ loop' = r
  /\ req' = [req EXCEPT ![r] = At(r, "onLoop")]
  /\ UNCHANGED <<tables, size, free>>

\* The other handlers run in a worker thread.
CheckoutInThread(r) ==
  /\ In(r, "handler") => req[r].kind # "fragment"
  /\ Checkout(r) \/ CheckoutFails(r)

Working(r, kind) == In(r, "work") /\ req[r].kind = kind

\* A page: its queries leave the connection with the session.
ReadPage(r) ==
  /\ Working(r, "page")
  /\ Goes(r, At(r, "returned"))
  /\ UNCHANGED tables

-----------------------------------------------------------------------------
(* routers/auth.py *)

\* login: the password is compared with the one of the account.
CheckPassword(r) ==
  /\ Working(r, "login")
  /\ Goes(r, At(r, IF account = req[r].who THEN "session" ELSE "returned"))
  /\ UNCHANGED tables

\* signup: is the name free?
CheckName(r) ==
  /\ Working(r, "signup")
  /\ Goes(r, At(r, IF account = Null THEN "register" ELSE "returned"))
  /\ UNCHANGED tables

\* Variant: the name is not unique in the table, and the last one counts.
Register_Again(r) ==
  /\ In(r, "register")
  /\ account' = req[r].who
  /\ GoesFree(r, At(r, "refresh"))
  /\ UNCHANGED <<sessions, selected>>

\* The INSERT with its commit, which fails when the name was taken since.
Register(r) ==
  /\ In(r, "register")
  /\ IF account = Null
     THEN account' = req[r].who /\ GoesFree(r, At(r, "refresh"))
     ELSE account' = account /\ Goes(r, At(r, "returned"))
  /\ UNCHANGED <<sessions, selected>>

\* create_session, in a transaction of its own; the user is loaded again
\* for the page the answer leads to.
CreateSession(r) ==
  /\ In(r, "session")
  /\ sessions' = [sessions EXCEPT ![req[r].who] = "live"]
  /\ GoesFree(r, At(r, "reload"))
  /\ UNCHANGED <<account, selected>>

\* logout
RevokeSession(r) ==
  /\ Working(r, "logout")
  /\ sessions' = [sessions EXCEPT ![req[r].who] = "none"]
  /\ GoesFree(r, At(r, "returned"))
  /\ UNCHANGED <<account, selected>>

-----------------------------------------------------------------------------
(* set_enabled_laws *)

Overlaps(r) == \E q \in Reqs \ {r} : InSave(q)

\* set_enabled_laws with toggleable_law_ids, until its DELETE has begun:
\* gone are the rows it sees.  The form may name any law.
BeginSave(r) ==
  /\ In(r, "work") /\ req[r].kind \in Saving
  /\ IF Toggleable = {} THEN Goes(r, At(r, "returned"))
     ELSE /\ \E S \in SUBSET Laws : req' = [q \in Reqs |->
               IF q = r THEN [At(r, "delete") EXCEPT !.laws = S \cap Toggleable,
                                !.gone = selected \cap Toggleable, !.alone = ~Overlaps(r)]
               ELSE [req[q] EXCEPT !.alone = FALSE]]
          /\ UNCHANGED <<size, free, loop>>
  /\ UNCHANGED tables

\* What an open transaction has deleted or inserted and not committed.
Touched(q) ==
  CASE In(q, "insert") -> req[q].gone
    [] In(q, "commit") -> req[q].gone \cup req[q].laws
    [] OTHER           -> {}
Locked(r, S) == \E q \in Reqs \ {r} : Touched(q) \cap S # {}

\* Variant: what was not submitted is looked up, and deleted, only among
\* the laws of the form.
Delete_Submitted(r) ==
  /\ In(r, "delete") /\ ~Locked(r, req[r].gone)
  /\ Goes(r, [At(r, "insert") EXCEPT !.gone = @ \cap req[r].laws])
  /\ UNCHANGED tables

Delete(r) ==
  /\ In(r, "delete") /\ ~Locked(r, req[r].gone)
  /\ Goes(r, At(r, "insert"))
  /\ UNCHANGED tables

\* The key of a row that is there already ends the transaction.
Insert(r) ==
  /\ In(r, "insert") /\ ~Locked(r, req[r].laws)
  /\ Goes(r, At(r, IF req[r].laws \cap (selected \ req[r].gone) = {} THEN "commit" ELSE "returned"))
  /\ UNCHANGED tables

\* A row that this transaction deleted is no longer one that another can.
CommitSave(r) ==
  /\ In(r, "commit")
  /\ selected' = (selected \ req[r].gone) \cup req[r].laws
  /\ req' = [q \in Reqs |->
       IF q = r THEN [At(r, "reload") EXCEPT !.conn = FALSE]
       ELSE IF In(q, "delete") THEN [req[q] EXCEPT !.gone = @ \ req[r].gone]
       ELSE req[q]]
  /\ free' = free + 1
  /\ UNCHANGED <<account, sessions, size, loop>>

-----------------------------------------------------------------------------

Step(r) ==
  \/ CheckoutInThread(r)
  \/ Look(r) \/ DropExpired(r)
  \/ ReadPage(r)
  \/ CheckPassword(r) \/ CheckName(r) \/ Register(r) \/ CreateSession(r) \/ RevokeSession(r)
  \/ BeginSave(r) \/ Delete(r) \/ Insert(r) \/ CommitSave(r)

\* What takes its turn on the loop.
Turn(r) == Dispatch(r) \/ EnterLoop(r) \/ Close(r)

Next ==
  \/ \E r \in Reqs, kind \in Kinds, b \in Browsers : Arrive(r, kind, b)
  \/ \E b \in Browsers : Expire(b)
  \/ \E r \in Reqs : Step(r) \/ Turn(r)

(***************************************************************************)
(* A thread goes on when it can, and its wait for a connection or for a    *)
(* row ends: PostgreSQL wakes who waits when the transaction that has the  *)
(* row ends.  The loop takes what is ready in turn, so that nobody waits   *)
(* for ever for a loop that is free again and again.                       *)
(***************************************************************************)
Fairness == \A r \in Reqs : SF_vars(Step(r)) /\ SF_vars(Turn(r))

Spec == Init /\ [][Next]_vars /\ Fairness

-----------------------------------------------------------------------------

(***************************************************************************)
(* Whoever has a session knows the password of its account: of two         *)
(* sign-ups for one name that both found it free, only the one whose user  *)
(* was stored gets a session, and no log-in gets one by overtaking them.   *)
(***************************************************************************)
SessionNeedsPassword == \A b \in Browsers : sessions[b] # "none" => account = b

(***************************************************************************)
(* A save of the choice of laws never loses what it inserted, and one that *)
(* no other save overlaps leaves exactly what the form named of the laws   *)
(* it may change, and what was selected of the others (law_catalog.py:97). *)
(***************************************************************************)
SaveIsExact ==
  [][\A r \in Reqs :
       LET s == req[r] IN
       s.phase = "commit" /\ req'[r].phase = "reload" =>
         /\ s.laws \subseteq selected'
         /\ s.alone => selected' = (selected \cap Repealed) \cup s.laws]_vars

(***************************************************************************)
(* Every request is answered: when all connections are with handlers whose *)
(* sessions the loop must close, and the loop waits for a connection in    *)
(* the middleware, only the time-out of the pool lets them go on.          *)
(***************************************************************************)
EveryRequestIsAnswered == \A r \in Reqs : In(r, "arrived") ~> In(r, "idle")

=============================================================================
