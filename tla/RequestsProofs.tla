--------------------------- MODULE RequestsProofs ---------------------------
(***************************************************************************)
(* Proofs about Requests, for any number of requests, browsers and laws    *)
(* and any size of the pool.                                               *)
(***************************************************************************)
EXTENDS Requests, FiniteSetTheorems, TLAPS

-----------------------------------------------------------------------------
(* The inductive invariant *)

\* The shape of a request.
Request == [kind: Kinds, phase: Phases, who: Browsers \cup {Null}, conn: BOOLEAN,
            laws: SUBSET Toggleable, gone: SUBSET Toggleable, alone: BOOLEAN]

SessionStates == {"none", "live", "expired"}
SavePhases == {"delete", "insert", "commit"}

\* Who is about to get a session, after a sign-up or a log-in, is the one
\* whose password the account has.
Proven(q) == q.phase \in {"refresh", "session"} => account = q.who

\* A log-in or a sign-up knows its browser until it is over.
Over == {"idle", "returned", "reload"}
Signing == {"register", "refresh", "session"}
Named(q) ==
  \/ q.kind \in {"login", "signup"} /\ q.phase \notin Over
  \/ q.phase \in Signing
  => q.who \in Browsers

\* A save that none has overlapped is the only one, and deletes every row
\* of the laws it may change.
Exact(r) ==
  req[r].phase \in SavePhases /\ req[r].alone =>
    /\ \A q \in Reqs \ {r} : req[q].phase \notin SavePhases
    /\ req[r].gone = selected \cap Toggleable

IInv ==
  /\ req \in [Reqs -> Request]
  /\ sessions \in [Browsers -> SessionStates]
  /\ selected \subseteq Laws
  /\ SessionNeedsPassword
  /\ \A r \in Reqs : Proven(req[r]) /\ Named(req[r])
  /\ \A r \in Reqs : Exact(r)

-----------------------------------------------------------------------------
(* Lemmas about the steps *)

LEMMA PhasesListed ==
  Phases = {"idle", "arrived", "expired", "register", "delete", "insert", "commit",
            "lookup", "handler", "onLoop", "refresh", "reload",
            "looking", "work", "session", "returned"}
  <1>1. DOMAIN Then = {"lookup", "handler", "onLoop", "refresh", "reload"}
    BY DEF Then
  <1>2. {Then[p] : p \in DOMAIN Then} = {"looking", "work", "session", "returned"}
    <2>1. /\ Then["lookup"] = "looking" /\ Then["handler"] = "work" /\ Then["onLoop"] = "work"
          /\ Then["refresh"] = "session" /\ Then["reload"] = "returned"
      BY DEF Then
    <2>2. QED
      BY <1>1, <2>1
  <1>3. QED
    BY <1>1, <1>2 DEF Phases

LEMMA IdleShape ==
  /\ Idle \in Request
  /\ Idle.phase = "idle" /\ Idle.conn = FALSE
  <1>1. "page" \in Kinds
    BY DEF Kinds, WithCookie, NeedsLogin
  <1>2. "idle" \in Phases
    BY PhasesListed
  <1>3. {} \in SUBSET Toggleable
    OBVIOUS
  <1>4. Idle \in Request
    BY <1>1, <1>2, <1>3 DEF Idle, Request
  <1>5. QED
    BY <1>4 DEF Idle

LEMMA IdleNamed ==
  Idle \in Request /\ Idle.phase = "idle" /\ Proven(Idle) /\ Named(Idle)
  BY IdleShape DEF Idle, Proven, Named, Over, Signing

\* A request in another phase is a request, and until it is over what is
\* known about it is kept.
LEMMA AtShape ==
  ASSUME IInv, NEW r \in Reqs, NEW phase \in Phases
  PROVE  /\ At(r, phase) \in Request
         /\ At(r, phase).phase = phase
         /\ phase \notin {"returned", "reload"} =>
              /\ At(r, phase).who = req[r].who /\ At(r, phase).kind = req[r].kind
              /\ At(r, phase).gone = req[r].gone /\ At(r, phase).alone = req[r].alone
  <1>1. req[r] \in Request
    BY DEF IInv
  <1>2. CASE phase = "returned"
    <2>1. At(r, phase) = [Idle EXCEPT !.phase = phase, !.conn = req[r].conn]
      BY <1>2 DEF At
    <2>2. QED
      BY <1>1, <1>2, <2>1, IdleShape DEF Request
  <1>3. CASE phase = "reload"
    <2>1. At(r, phase) = [Idle EXCEPT !.phase = phase, !.conn = req[r].conn, !.kind = req[r].kind]
      BY <1>3 DEF At
    <2>2. QED
      BY <1>1, <1>3, <2>1, IdleShape DEF Request
  <1>4. CASE phase \notin {"returned", "reload"}
    <2>1. At(r, phase) = [req[r] EXCEPT !.phase = phase]
      BY <1>4 DEF At
    <2>2. QED
      BY <1>1, <2>1 DEF Request
  <1>5. QED
    BY <1>2, <1>3, <1>4

\* Most steps move one request and leave the account and its laws alone.
\* They keep the invariant when the request neither enters a save nor
\* changes what it deletes, and when a session is only given to the account.
LEMMA QuietStep ==
  ASSUME IInv, NEW r \in Reqs, NEW s \in Request,
         req' = [req EXCEPT ![r] = s],
         UNCHANGED <<account, selected>>,
         sessions' \in [Browsers -> SessionStates], SessionNeedsPassword',
         Proven(s), Named(s),
         s.phase \in SavePhases =>
           req[r].phase \in SavePhases /\ s.gone = req[r].gone /\ s.alone = req[r].alone
  PROVE  IInv'
  <1>1. req' \in [Reqs -> Request]
    BY DEF IInv
  <1>2. req'[r] = s /\ \A q \in Reqs \ {r} : req'[q] = req[q]
    BY DEF IInv
  <1>3. \A q \in Reqs : Proven(req[q])' /\ Named(req[q])'
    BY <1>2 DEF IInv, Proven, Named
  <1>4. ASSUME NEW q \in Reqs PROVE Exact(q)'
    <2>1. Exact(q) /\ Exact(r)
      BY DEF IInv
    <2>2. CASE q = r
      BY <1>2, <2>1, <2>2 DEF Exact
    <2>3. CASE q # r
      BY <1>2, <2>1, <2>3 DEF Exact
    <2>4. QED
      BY <2>2, <2>3
  <1>5. QED
    BY <1>1, <1>3, <1>4 DEF IInv

\* The same of a step to a phase outside a save.
LEMMA QuietAt ==
  ASSUME IInv, NEW r \in Reqs, NEW phase \in Phases, phase \notin SavePhases,
         phase \in {"refresh", "session"} => account = req[r].who,
         phase \in Over \/ req[r].phase \notin Over,
         phase \in Signing => req[r].phase \in Signing \/ req[r].kind \in {"login", "signup"},
         req' = [req EXCEPT ![r] = At(r, phase)]
                  \/ \E b \in BOOLEAN : req' = [req EXCEPT ![r] = [At(r, phase) EXCEPT !.conn = b]],
         UNCHANGED <<account, selected>>,
         sessions' \in [Browsers -> SessionStates], SessionNeedsPassword'
  PROVE  IInv'
  <1> DEFINE a == At(r, phase)
  <1>1. /\ a \in Request /\ a.phase = phase
        /\ phase \notin {"returned", "reload"} => a.who = req[r].who /\ a.kind = req[r].kind
    BY AtShape
  <1> HIDE DEF a
  <1>2. Proven(a) /\ Named(a)
    <2>1. Named(req[r])
      BY DEF IInv
    <2>2. QED
      BY <1>1, <2>1 DEF Proven, Named, Over, Signing
  <1>3. CASE req' = [req EXCEPT ![r] = a]
    BY <1>1, <1>2, <1>3, QuietStep
  <1>4. ASSUME NEW b \in BOOLEAN, req' = [req EXCEPT ![r] = [a EXCEPT !.conn = b]]
        PROVE  IInv'
    <2> DEFINE s == [a EXCEPT !.conn = b]
    <2>1. s \in Request /\ s.phase = phase /\ s.who = a.who /\ s.kind = a.kind
      BY <1>1 DEF Request
    <2>2. req' = [req EXCEPT ![r] = s]
      BY <1>4
    <2> HIDE DEF s
    <2>3. Proven(s) /\ Named(s)
      BY <1>1, <1>2, <2>1 DEF Proven, Named
    <2>4. QED
      BY <1>1, <2>1, <2>2, <2>3, QuietStep
  <1>5. QED
    BY <1>4, <1>3 DEF a

-----------------------------------------------------------------------------
(* The invariant *)

LEMMA CheckoutKeeps ==
  ASSUME IInv, NEW r \in Reqs, Checkout(r) \/ CheckoutFails(r)
  PROVE  IInv'
  <1>1. UNCHANGED <<account, sessions, selected>>
    BY DEF Checkout, CheckoutFails, tables
  <1>2. sessions' \in [Browsers -> SessionStates] /\ SessionNeedsPassword'
    BY <1>1 DEF IInv, SessionNeedsPassword
  <1>3. CASE Checkout(r)
    <2> DEFINE phase == Then[req[r].phase]
    <2>1. req' = [req EXCEPT ![r] = [At(r, phase) EXCEPT !.conn = TRUE]]
      BY <1>3 DEF Checkout
    <2>2. req[r].phase \in {"lookup", "handler", "onLoop", "refresh", "reload"}
      BY <1>3 DEF Checkout, Then
    <2>3. /\ phase \in {"looking", "work", "session", "returned"}
          /\ phase = "session" => req[r].phase = "refresh"
          /\ phase = "returned" \/ req[r].phase # "reload"
      BY <2>2 DEF Then
    <2>4. phase \in Phases /\ phase \notin SavePhases
      BY <2>3, PhasesListed DEF SavePhases
    <2>5. phase \in {"refresh", "session"} => account = req[r].who
      BY <2>3 DEF IInv, Proven
    <2>6. /\ phase \in Over \/ req[r].phase \notin Over
          /\ phase \in Signing => req[r].phase \in Signing
      BY <2>2, <2>3 DEF Over, Signing
    <2> HIDE DEF phase
    <2>7. QED
      BY <1>1, <1>2, <2>1, <2>4, <2>5, <2>6, QuietAt
  <1>4. CASE CheckoutFails(r) /\ In(r, "lookup")
    <2>1. req' = [req EXCEPT ![r] = Idle]
      BY <1>4 DEF CheckoutFails
    <2>2. QED
      BY <1>1, <1>2, <2>1, IdleNamed, QuietStep DEF SavePhases
  <1>5. CASE CheckoutFails(r) /\ ~In(r, "lookup")
    <2>1. req' = [req EXCEPT ![r] = At(r, "returned")]
      BY <1>5 DEF CheckoutFails
    <2>2. QED
      BY <1>1, <1>2, <2>1, PhasesListed, QuietAt DEF SavePhases, Over, Signing
  <1>6. QED
    BY <1>3, <1>4, <1>5

\* The middleware, and what waits for its turn on the loop.
LEMMA LoopKeeps ==
  ASSUME IInv, NEW r \in Reqs, Dispatch(r) \/ EnterLoop(r) \/ Close(r) \/ Look(r) \/ DropExpired(r)
  PROVE  IInv'
  <1>1. UNCHANGED <<account, selected>>
    BY DEF Dispatch, EnterLoop, Close, Look, DropExpired, tables
  <1>2. UNCHANGED sessions \/ DropExpired(r)
    BY DEF Dispatch, EnterLoop, Close, Look, tables
  <1>3. sessions' \in [Browsers -> SessionStates] /\ SessionNeedsPassword'
    <2>1. CASE UNCHANGED sessions
      BY <1>1, <2>1 DEF IInv, SessionNeedsPassword
    <2>2. CASE DropExpired(r)
      BY <1>1, <2>2 DEF IInv, SessionNeedsPassword, DropExpired, SessionStates
    <2>3. QED
      BY <1>2, <2>1, <2>2
  <1>4. \A f : Answerer(r, f) \in {"handler", "returned"}
    BY DEF Answerer
  <1>5. CASE Dispatch(r)
    <2>1. /\ req' = [req EXCEPT ![r] = At(r, "lookup")] \/ req' = [req EXCEPT ![r] = At(r, "handler")]
          /\ req[r].phase = "arrived"
      BY <1>5 DEF Dispatch, In
    <2>2. QED
      BY <1>1, <1>3, <2>1, PhasesListed, QuietAt DEF SavePhases, Over, Signing
  <1>6. CASE EnterLoop(r)
    <2>1. req' = [req EXCEPT ![r] = At(r, "onLoop")] /\ req[r].phase = "handler"
      BY <1>6 DEF EnterLoop, In
    <2>2. QED
      BY <1>1, <1>3, <2>1, PhasesListed, QuietAt DEF SavePhases, Over, Signing
  <1>7. CASE Close(r)
    <2>1. req' = [req EXCEPT ![r] = Idle]
      BY <1>7 DEF Close
    <2>2. QED
      BY <1>1, <1>3, <2>1, IdleNamed, QuietStep DEF SavePhases
  <1>8. CASE Look(r) /\ sessions[req[r].who] = "expired"
    <2>1. req' = [req EXCEPT ![r] = At(r, "expired")] /\ req[r].phase = "looking"
      BY <1>8 DEF Look, Goes, In
    <2>2. QED
      BY <1>1, <1>3, <2>1, PhasesListed, QuietAt DEF SavePhases, Over, Signing
  <1>9. CASE Look(r) /\ sessions[req[r].who] # "expired"
    <2> DEFINE phase == Answerer(r, sessions[req[r].who] = "live")
               who == IF req[r].kind \in NeedsLogin THEN Null ELSE At(r, phase).who
               s == [At(r, phase) EXCEPT !.who = who, !.conn = FALSE]
    <2>1. req' = [req EXCEPT ![r] = s]
      <3>1. req' = [req EXCEPT ![r] =
                      [[At(r, phase) EXCEPT !.who = IF req[r].kind \in NeedsLogin THEN Null ELSE @]
                         EXCEPT !.conn = FALSE]]
        BY <1>9 DEF Look, GoesFree
      <3>2. QED
        BY <3>1
    <2>2. phase \in {"handler", "returned"}
      BY <1>4
    <2> HIDE DEF phase
    <2>3. /\ At(r, phase) \in Request /\ At(r, phase).phase = phase
          /\ phase # "returned" => At(r, phase).who = req[r].who /\ At(r, phase).kind = req[r].kind
      BY <2>2, PhasesListed, AtShape
    <2>4. who \in Browsers \cup {Null}
      BY <2>3 DEF Request
    <2> HIDE DEF who
    <2>5. s \in Request /\ s.phase = phase /\ s.kind = At(r, phase).kind /\ s.who = who
      BY <2>3, <2>4 DEF Request
    <2>6. req[r].phase = "looking" /\ Named(req[r])
      BY <1>9 DEF Look, In, IInv
    <2>7. req[r].kind \notin NeedsLogin => who = At(r, phase).who
      BY DEF who
    <2> HIDE DEF s
    <2>8. Named(s)
      BY <2>2, <2>3, <2>5, <2>6, <2>7 DEF Named, Over, Signing, NeedsLogin, Saving
    <2>9. QED
      BY <1>1, <1>3, <2>1, <2>2, <2>5, <2>8, QuietStep DEF Proven, SavePhases
  <1>10. CASE DropExpired(r)
    <2> DEFINE phase == Answerer(r, FALSE)
    <2>1. req' = [req EXCEPT ![r] = [At(r, phase) EXCEPT !.conn = FALSE]] /\ req[r].phase = "expired"
      BY <1>10 DEF DropExpired, GoesFree, In
    <2>2. phase \in {"handler", "returned"}
      BY <1>4
    <2> HIDE DEF phase
    <2>3. QED
      BY <1>1, <1>3, <2>1, <2>2, PhasesListed, QuietAt DEF SavePhases, Over, Signing
  <1>11. QED
    BY <1>5, <1>6, <1>7, <1>8, <1>9, <1>10

\* The handlers that leave the account and the laws alone.
LEMMA HandlerKeeps ==
  ASSUME IInv, NEW r \in Reqs, ReadPage(r) \/ CheckPassword(r) \/ CheckName(r) \/ RevokeSession(r)
  PROVE  IInv'
  <1> DEFINE SigningUp == req[r].phase = "work" /\ req[r].kind \in {"login", "signup"}
  <1>1. UNCHANGED <<account, selected>>
    BY DEF ReadPage, CheckPassword, CheckName, RevokeSession, tables
  <1>2. sessions' \in [Browsers -> SessionStates] /\ SessionNeedsPassword'
    <2>1. CASE UNCHANGED sessions
      BY <1>1, <2>1 DEF IInv, SessionNeedsPassword
    <2>2. CASE RevokeSession(r)
      BY <1>1, <2>2 DEF IInv, SessionNeedsPassword, RevokeSession, SessionStates
    <2>3. QED
      BY <2>1, <2>2 DEF ReadPage, CheckPassword, CheckName, tables
  <1>3. \/ req' = [req EXCEPT ![r] = At(r, "returned")]
        \/ SigningUp /\ req' = [req EXCEPT ![r] = At(r, "register")]
        \/ SigningUp /\ account = req[r].who /\ req' = [req EXCEPT ![r] = At(r, "session")]
        \/ req' = [req EXCEPT ![r] = [At(r, "returned") EXCEPT !.conn = FALSE]]
    BY DEF ReadPage, CheckPassword, CheckName, RevokeSession, Goes, GoesFree, Working, In
  <1>4. CASE req' = [req EXCEPT ![r] = At(r, "returned")]
    BY <1>1, <1>2, <1>4, PhasesListed, QuietAt DEF SavePhases, Over, Signing
  <1>5. CASE SigningUp /\ req' = [req EXCEPT ![r] = At(r, "register")]
    BY <1>1, <1>2, <1>5, PhasesListed, QuietAt DEF SavePhases, Over, Signing
  <1>6. CASE SigningUp /\ account = req[r].who /\ req' = [req EXCEPT ![r] = At(r, "session")]
    BY <1>1, <1>2, <1>6, PhasesListed, QuietAt DEF SavePhases, Over, Signing
  <1>7. CASE req' = [req EXCEPT ![r] = [At(r, "returned") EXCEPT !.conn = FALSE]]
    BY <1>1, <1>2, <1>7, PhasesListed, QuietAt DEF SavePhases, Over, Signing
  <1>8. QED
    BY <1>3, <1>4, <1>5, <1>6, <1>7

\* Of two sign-ups the first to be stored has the account; the other fails.
LEMMA RegisterKeeps ==
  ASSUME IInv, NEW r \in Reqs, Register(r)
  PROVE  IInv'
  <1>1. UNCHANGED <<sessions, selected>>
    BY DEF Register
  <1>2. CASE account = Null
    <2> DEFINE a == At(r, "refresh")
               s == [a EXCEPT !.conn = FALSE]
    <2>1. account' = req[r].who /\ req' = [req EXCEPT ![r] = s]
      BY <1>2 DEF Register, GoesFree
    <2>2. a \in Request /\ a.phase = "refresh" /\ a.who = req[r].who
      BY PhasesListed, AtShape
    <2>3. req[r].who \in Browsers
      BY DEF Register, In, IInv, Named, Signing
    <2> HIDE DEF a
    <2>4. s \in Request /\ s.phase = "refresh" /\ s.who = req[r].who
      BY <2>2 DEF Request
    <2> HIDE DEF s
    <2>5. req' \in [Reqs -> Request] /\ req'[r] = s /\ \A q \in Reqs \ {r} : req'[q] = req[q]
      BY <2>1, <2>4 DEF IInv
    <2>6. \A b \in Browsers : sessions[b] = "none"
      BY <1>2, RequestsAssumption DEF IInv, SessionNeedsPassword
    <2>7. SessionNeedsPassword'
      BY <1>1, <2>6 DEF SessionNeedsPassword
    <2>8. ASSUME NEW q \in Reqs PROVE Proven(req[q])' /\ Named(req[q])'
      <3>1. CASE q = r
        BY <2>1, <2>4, <2>5, <2>3, <3>1 DEF Proven, Named
      <3>2. CASE q # r
        <4>1. Proven(req[q]) /\ Named(req[q]) /\ req'[q] = req[q]
          BY <2>5, <3>2 DEF IInv
        <4>2. req[q].phase \notin {"refresh", "session"}
          BY <1>2, <4>1, RequestsAssumption DEF Proven, Named, Signing
        <4>3. QED
          BY <4>1, <4>2 DEF Proven, Named
      <3>3. QED
        BY <3>1, <3>2
    <2>9. ASSUME NEW q \in Reqs PROVE Exact(q)'
      BY <1>1, <2>4, <2>5 DEF IInv, Exact, SavePhases
    <2>10. QED
      BY <1>1, <2>5, <2>7, <2>8, <2>9 DEF IInv
  <1>3. CASE account # Null
    <2>1. account' = account /\ req' = [req EXCEPT ![r] = At(r, "returned")]
      BY <1>3 DEF Register, Goes
    <2>2. sessions' \in [Browsers -> SessionStates] /\ SessionNeedsPassword'
      BY <1>1, <2>1 DEF IInv, SessionNeedsPassword
    <2>3. QED
      BY <1>1, <2>1, <2>2, PhasesListed, QuietAt DEF SavePhases, Over, Signing
  <1>4. QED
    BY <1>2, <1>3

LEMMA CreateSessionKeeps ==
  ASSUME IInv, NEW r \in Reqs, CreateSession(r)
  PROVE  IInv'
  <1>1. /\ req[r].phase = "session" /\ account = req[r].who
        /\ UNCHANGED <<account, selected>>
        /\ sessions' = [sessions EXCEPT ![req[r].who] = "live"]
        /\ req' = [req EXCEPT ![r] = [At(r, "reload") EXCEPT !.conn = FALSE]]
    BY DEF CreateSession, GoesFree, In, IInv, Proven
  <1>2. sessions' \in [Browsers -> SessionStates] /\ SessionNeedsPassword'
    BY <1>1 DEF IInv, SessionNeedsPassword, SessionStates
  <1>3. QED
    BY <1>1, <1>2, PhasesListed, QuietAt DEF SavePhases, Over, Signing

\* A save begins: whichever is under way is no longer alone.
LEMMA BeginSaveKeeps ==
  ASSUME IInv, NEW r \in Reqs, BeginSave(r)
  PROVE  IInv'
  <1>1. UNCHANGED <<account, sessions, selected>> /\ req[r].phase = "work"
    BY DEF BeginSave, tables, In
  <1>2. sessions' \in [Browsers -> SessionStates] /\ SessionNeedsPassword'
    BY <1>1 DEF IInv, SessionNeedsPassword
  <1>3. CASE Toggleable = {}
    <2>1. req' = [req EXCEPT ![r] = At(r, "returned")]
      BY <1>3 DEF BeginSave, Goes
    <2>2. QED
      BY <1>1, <1>2, <2>1, PhasesListed, QuietAt DEF SavePhases, Over, Signing
  <1>4. CASE Toggleable # {}
    <2>1. PICK S \in SUBSET Laws : req' = [q \in Reqs |->
            IF q = r THEN [At(r, "delete") EXCEPT !.laws = S \cap Toggleable,
                             !.gone = selected \cap Toggleable, !.alone = ~Overlaps(r)]
            ELSE [req[q] EXCEPT !.alone = FALSE]]
      BY <1>4 DEF BeginSave
    <2> DEFINE a == At(r, "delete")
               laws == S \cap Toggleable
               gone == selected \cap Toggleable
               alone == ~Overlaps(r)
               s == [a EXCEPT !.laws = laws, !.gone = gone, !.alone = alone]
    <2>2. /\ a \in Request /\ a.phase = "delete" /\ a.who = req[r].who /\ a.kind = req[r].kind
      BY PhasesListed, AtShape
    <2>3. laws \in SUBSET Toggleable /\ gone \in SUBSET Toggleable /\ alone \in BOOLEAN
      BY DEF Overlaps
    <2>4. alone => \A q \in Reqs \ {r} : req[q].phase \notin SavePhases
      BY DEF Overlaps, InSave, In, SavePhases
    <2>5. req'[r] = s
      BY <2>1
    <2> HIDE DEF a, laws, alone
    <2>6. s \in Request /\ s.phase = "delete" /\ s.gone = gone /\ s.alone = alone
          /\ s.who = req[r].who /\ s.kind = req[r].kind
      BY <2>2, <2>3 DEF Request
    <2> HIDE DEF s
    <2>7. ASSUME NEW q \in Reqs, q # r
          PROVE  /\ req'[q] \in Request /\ req'[q].phase = req[q].phase /\ ~req'[q].alone
                 /\ req'[q].who = req[q].who /\ req'[q].kind = req[q].kind
      <3>1. req[q] \in Request
        BY DEF IInv
      <3>2. req'[q] = [req[q] EXCEPT !.alone = FALSE]
        BY <2>1, <2>7
      <3>3. QED
        BY <3>1, <3>2 DEF Request
    <2>8. req' \in [Reqs -> Request]
      <3>1. req' = [q \in Reqs |-> req'[q]]
        BY <2>1
      <3>2. QED
        BY <2>5, <2>6, <2>7, <3>1
    <2>9. ASSUME NEW q \in Reqs PROVE Proven(req[q])' /\ Named(req[q])'
      <3>1. Proven(req[q]) /\ Named(req[q])
        BY DEF IInv
      <3>2. CASE q = r
        BY <1>1, <2>5, <2>6, <3>1, <3>2 DEF Proven, Named, Over, Signing
      <3>3. CASE q # r
        BY <1>1, <2>7, <3>1, <3>3 DEF Proven, Named
      <3>4. QED
        BY <3>2, <3>3
    <2>10. ASSUME NEW q \in Reqs PROVE Exact(q)'
      <3>1. CASE q = r
        BY <1>1, <2>4, <2>5, <2>6, <2>7, <3>1 DEF Exact
      <3>2. CASE q # r
        BY <2>7, <3>2 DEF Exact
      <3>3. QED
        BY <3>1, <3>2
    <2>11. QED
      BY <1>1, <1>2, <2>8, <2>9, <2>10 DEF IInv
  <1>5. QED
    BY <1>3, <1>4

\* Within its transaction a save goes on as it began.
LEMMA SaveGoesOn ==
  ASSUME IInv, NEW r \in Reqs, Delete(r) \/ Insert(r)
  PROVE  IInv'
  <1>1. UNCHANGED <<account, sessions, selected>> /\ req[r].phase \in {"delete", "insert"}
    BY DEF Delete, Insert, tables, In
  <1>2. sessions' \in [Browsers -> SessionStates] /\ SessionNeedsPassword'
    BY <1>1 DEF IInv, SessionNeedsPassword
  <1>3. PICK phase \in {"insert", "commit", "returned"} : req' = [req EXCEPT ![r] = At(r, phase)]
    BY DEF Delete, Insert, Goes
  <1>4. /\ At(r, phase) \in Request /\ At(r, phase).phase = phase
        /\ phase # "returned" => /\ At(r, phase).gone = req[r].gone /\ At(r, phase).alone = req[r].alone
                                 /\ At(r, phase).who = req[r].who /\ At(r, phase).kind = req[r].kind
    BY PhasesListed, AtShape
  <1>5. Named(req[r])
    BY DEF IInv
  <1>6. Proven(At(r, phase)) /\ Named(At(r, phase))
    BY <1>1, <1>4, <1>5 DEF Proven, Named, Over, Signing
  <1>7. QED
    BY <1>1, <1>2, <1>3, <1>4, <1>6, QuietStep DEF SavePhases

\* A commit changes what another save deletes only when that one is not alone.
LEMMA CommitSaveKeeps ==
  ASSUME IInv, NEW r \in Reqs, CommitSave(r)
  PROVE  IInv'
  <1>1. /\ UNCHANGED <<account, sessions>> /\ req[r].phase = "commit"
        /\ selected' = (selected \ req[r].gone) \cup req[r].laws
        /\ req' = [q \in Reqs |->
             IF q = r THEN [At(r, "reload") EXCEPT !.conn = FALSE]
             ELSE IF In(q, "delete") THEN [req[q] EXCEPT !.gone = @ \ req[r].gone]
             ELSE req[q]]
    BY DEF CommitSave, In
  <1>2. req[r] \in Request
    BY DEF IInv
  <1>3. SessionNeedsPassword'
    BY <1>1 DEF IInv, SessionNeedsPassword
  <1>4. selected' \subseteq Laws
    BY <1>1, <1>2 DEF IInv, Request, Toggleable
  <1> DEFINE a == At(r, "reload")
  <1>5. a \in Request /\ a.phase = "reload" /\ a.who = Null
    <2>1. a = [Idle EXCEPT !.phase = "reload", !.conn = req[r].conn, !.kind = req[r].kind]
      BY DEF At
    <2>2. Idle.who = Null
      BY DEF Idle
    <2>3. a.who = Null
      BY <2>1, <2>2, IdleShape DEF Request
    <2>4. QED
      BY <2>3, PhasesListed, AtShape
  <1> HIDE DEF a
  <1>6. req'[r] \in Request /\ req'[r].phase = "reload"
    <2>1. req'[r] = [a EXCEPT !.conn = FALSE]
      BY <1>1 DEF a
    <2>2. QED
      BY <1>5, <2>1 DEF Request
  <1>7. ASSUME NEW q \in Reqs, q # r
        PROVE  /\ req'[q] \in Request /\ req'[q].phase = req[q].phase
               /\ req'[q].who = req[q].who /\ req'[q].kind = req[q].kind
               /\ req'[q].alone = req[q].alone
    <2>1. req[q] \in Request
      BY DEF IInv
    <2>2. CASE In(q, "delete")
      <3>1. req'[q] = [req[q] EXCEPT !.gone = req[q].gone \ req[r].gone]
        BY <1>1, <1>7, <2>2
      <3>2. QED
        BY <2>1, <3>1 DEF Request
    <2>3. CASE ~In(q, "delete")
      BY <1>1, <1>7, <2>1, <2>3
    <2>4. QED
      BY <2>2, <2>3
  <1>8. req' \in [Reqs -> Request]
    <2>1. req' = [q \in Reqs |-> req'[q]]
      BY <1>1
    <2>2. QED
      BY <1>6, <1>7, <2>1
  <1>9. ASSUME NEW q \in Reqs PROVE Proven(req[q])' /\ Named(req[q])' /\ Exact(q)'
    <2>1. Proven(req[q]) /\ Named(req[q]) /\ Exact(q)
      BY DEF IInv
    <2>2. CASE q = r
      <3>1. req'[r].kind \in Kinds /\ req'[r].phase = "reload"
        BY <1>6 DEF Request
      <3>2. QED
        BY <2>2, <3>1 DEF Proven, Named, Exact, Over, Signing, SavePhases
    <2>3. CASE q # r
      <3>1. Proven(req[q])' /\ Named(req[q])'
        BY <1>1, <1>7, <2>1, <2>3 DEF Proven, Named
      <3>2. Exact(q)'
        BY <1>1, <1>7, <2>1, <2>3 DEF Exact, SavePhases
      <3>3. QED
        BY <3>1, <3>2
    <2>4. QED
      BY <2>2, <2>3
  <1>10. QED
    BY <1>1, <1>3, <1>4, <1>8, <1>9 DEF IInv

LEMMA ArriveKeeps ==
  ASSUME IInv, NEW r \in Reqs, NEW kind \in Kinds, NEW b \in Browsers, Arrive(r, kind, b)
  PROVE  IInv'
  <1> DEFINE s == [Idle EXCEPT !.kind = kind, !.phase = "arrived", !.who = b]
  <1>1. req' = [req EXCEPT ![r] = s] /\ UNCHANGED <<account, sessions, selected>>
    BY DEF Arrive, tables
  <1>2. sessions' \in [Browsers -> SessionStates] /\ SessionNeedsPassword'
    BY <1>1 DEF IInv, SessionNeedsPassword
  <1>3. s \in Request /\ s.phase = "arrived" /\ s.who = b
    BY IdleShape, PhasesListed DEF Request
  <1> HIDE DEF s
  <1>4. QED
    BY <1>1, <1>2, <1>3, QuietStep DEF Proven, Named, Signing, SavePhases

\* What is known of requests, sessions and saves between any two steps.
THEOREM Inductive == Spec => []IInv
  <1>1. Init => IInv
    <2> SUFFICES ASSUME Init PROVE IInv
      OBVIOUS
    <2>1. req \in [Reqs -> Request] /\ \A r \in Reqs : req[r] = Idle
      BY IdleShape DEF Init
    <2>2. sessions \in [Browsers -> SessionStates] /\ SessionNeedsPassword
      BY DEF Init, SessionStates, SessionNeedsPassword
    <2>3. selected \subseteq Laws
      BY DEF Init
    <2>4. \A r \in Reqs : Proven(req[r]) /\ Named(req[r])
      BY <2>1, IdleNamed
    <2>5. \A r \in Reqs : Exact(r)
      BY <2>1, IdleShape DEF Exact, SavePhases
    <2>6. QED
      BY <2>1, <2>2, <2>3, <2>4, <2>5 DEF IInv
  <1>2. IInv /\ [Next]_vars => IInv'
    <2> SUFFICES ASSUME IInv, [Next]_vars PROVE IInv'
      OBVIOUS
    <2>1. ASSUME NEW r \in Reqs, NEW kind \in Kinds, NEW b \in Browsers, Arrive(r, kind, b)
          PROVE IInv'
      BY <2>1, ArriveKeeps
    <2>2. ASSUME NEW b \in Browsers, Expire(b)
          PROVE IInv'
      BY <2>2 DEF Expire, IInv, SessionStates, SessionNeedsPassword, Proven, Named, Exact
    <2>3. ASSUME NEW r \in Reqs, Step(r)
          PROVE IInv'
      BY <2>3, CheckoutKeeps, LoopKeeps, HandlerKeeps, RegisterKeeps, CreateSessionKeeps,
         BeginSaveKeeps, SaveGoesOn, CommitSaveKeeps DEF Step, CheckoutInThread
    <2>4. ASSUME NEW r \in Reqs, Turn(r)
          PROVE IInv'
      BY <2>4, LoopKeeps DEF Turn
    <2>5. CASE UNCHANGED vars
      BY <2>5 DEF vars, tables, IInv, SessionNeedsPassword, Proven, Named, Exact
    <2>6. QED
      BY <2>1, <2>2, <2>3, <2>4, <2>5 DEF Next
  <1>3. QED
    BY <1>1, <1>2, PTL DEF Spec

-----------------------------------------------------------------------------
(* What follows *)

\* No interleaving of sign-ups, log-ins and requests gives a session to a
\* browser that does not know the password of the account.
THEOREM SessionAlwaysNeedsPassword == Spec => []SessionNeedsPassword
  <1>1. IInv => SessionNeedsPassword
    BY DEF IInv
  <1>2. QED
    BY <1>1, Inductive, PTL

\* Only its commit takes a save out of its last phase to where it reads
\* what it has stored.
LEMMA OnlyCommitSave ==
  ASSUME IInv, [Next]_vars, NEW r \in Reqs, req[r].phase = "commit", req'[r].phase = "reload"
  PROVE  CommitSave(r)
  <1>1. req \in [Reqs -> Request]
    BY DEF IInv
  <1>2. req'[r] # req[r]
    OBVIOUS
  <1>3. ASSUME NEW q \in Reqs, NEW s, req' = [req EXCEPT ![q] = s]
        PROVE q = r
    BY <1>1, <1>2, <1>3
  <1>4. ASSUME NEW q \in Reqs, NEW kind \in Kinds, NEW b \in Browsers, Arrive(q, kind, b)
        PROVE FALSE
    <2>1. q = r
      BY <1>3, <1>4 DEF Arrive
    <2>2. QED
      BY <1>4, <2>1 DEF Arrive, In
  <1>5. ASSUME NEW q \in Reqs, Checkout(q) \/ CheckoutFails(q)
        PROVE FALSE
    <2>1. q = r
      BY <1>3, <1>5 DEF Checkout, CheckoutFails
    <2>2. "commit" \notin DOMAIN Then
      BY DEF Then
    <2>3. QED
      BY <1>5, <2>1, <2>2 DEF Checkout, CheckoutFails
  <1>6. ASSUME NEW q \in Reqs, Turn(q)
        PROVE FALSE
    <2>1. q = r
      <3>1. \E s : req' = [req EXCEPT ![q] = s]
        BY <1>6 DEF Turn, Dispatch, EnterLoop, Close
      <3>2. QED
        BY <1>3, <3>1
    <2>2. QED
      BY <1>6, <2>1 DEF Turn, Dispatch, EnterLoop, Close, In
  <1>7. ASSUME NEW q \in Reqs,
               Look(q) \/ DropExpired(q) \/ ReadPage(q) \/ CheckPassword(q) \/ CheckName(q)
                 \/ Register(q) \/ CreateSession(q) \/ RevokeSession(q) \/ Delete(q) \/ Insert(q)
        PROVE FALSE
    <2>1. \E s : Goes(q, s) \/ GoesFree(q, s)
      BY <1>7 DEF Look, DropExpired, ReadPage, CheckPassword, CheckName, Register, CreateSession,
         RevokeSession, Delete, Insert
    <2>2. q = r
      BY <1>3, <2>1 DEF Goes, GoesFree
    <2>3. QED
      BY <1>7, <2>2 DEF Look, DropExpired, ReadPage, CheckPassword, CheckName, Register, CreateSession,
         RevokeSession, Delete, Insert, Working, In
  <1>8. ASSUME NEW q \in Reqs, BeginSave(q)
        PROVE FALSE
    <2>1. CASE Toggleable = {}
      <3>1. q = r
        BY <1>3, <1>8, <2>1 DEF BeginSave, Goes
      <3>2. QED
        BY <1>8, <3>1 DEF BeginSave, In
    <2>2. CASE Toggleable # {}
      <3>1. q # r
        BY <1>8 DEF BeginSave, In
      <3>2. req'[r] = [req[r] EXCEPT !.alone = FALSE]
        BY <1>8, <2>2, <3>1 DEF BeginSave
      <3>3. QED
        BY <1>1, <3>2 DEF Request
    <2>3. QED
      BY <2>1, <2>2
  <1>9. ASSUME NEW q \in Reqs, CommitSave(q), q # r
        PROVE FALSE
    BY <1>9 DEF CommitSave, In
  <1>10. ASSUME NEW b \in Browsers, Expire(b)
         PROVE FALSE
    BY <1>2, <1>10 DEF Expire
  <1>11. ~UNCHANGED vars
    BY <1>2 DEF vars
  <1>12. QED
    BY <1>4, <1>5, <1>6, <1>7, <1>8, <1>9, <1>10, <1>11 DEF Next, Step, CheckoutInThread

\* A save that no other overlaps stores exactly what its form said, however
\* many requests are under way.
THEOREM SaveAlwaysExact == Spec => SaveIsExact
  <1> DEFINE Saved == \A r \in Reqs :
        LET s == req[r] IN
        s.phase = "commit" /\ req'[r].phase = "reload" =>
          /\ s.laws \subseteq selected'
          /\ s.alone => selected' = (selected \cap Repealed) \cup s.laws
  <1>1. IInv /\ [Next]_vars => Saved
    <2> SUFFICES ASSUME IInv, [Next]_vars, NEW r \in Reqs,
                        req[r].phase = "commit", req'[r].phase = "reload"
                 PROVE  /\ req[r].laws \subseteq selected'
                        /\ req[r].alone => selected' = (selected \cap Repealed) \cup req[r].laws
      OBVIOUS
    <2>1. selected' = (selected \ req[r].gone) \cup req[r].laws
      BY OnlyCommitSave DEF CommitSave
    <2>2. Exact(r) /\ selected \subseteq Laws
      BY DEF IInv
    <2>3. req[r].alone => req[r].gone = selected \cap (Laws \ Repealed)
      BY <2>2 DEF Exact, SavePhases, Toggleable
    <2>4. QED
      BY <2>1, <2>2, <2>3
  <1>2. IInv /\ [Next]_vars => [Saved]_vars
    BY <1>1
  <1>3. QED
    BY <1>2, Inductive, PTL DEF Spec, SaveIsExact

-----------------------------------------------------------------------------
(* The pool and the loop *)

\* The phases in which a request has a connection, and in which it has none.
\* One whose handler is over may have one or not.
Holding == {"looking", "expired", "work", "register", "session"} \cup SavePhases
Without == {"idle", "arrived", "lookup", "handler", "onLoop", "refresh", "reload"}

\* OnLoop, of the record alone.
Occupies(s) ==
  \/ s.phase \in {"lookup", "looking", "expired", "onLoop"}
  \/ s.kind = "fragment" /\ s.phase \in SavePhases \cup {"work", "reload"}

Sound(s) ==
  /\ s.phase \in Holding => s.conn
  /\ s.phase \in Without => ~s.conn
  /\ s.phase \in Signing => s.kind \in {"login", "signup"}
  /\ s.phase = "onLoop" => s.kind = "fragment"
  /\ s.phase = "idle" => s = Idle

PoolInv ==
  /\ IInv
  /\ account \in Browsers \cup {Null}
  /\ size \in PoolSizes
  /\ IsFiniteSet(Holders) /\ free = size - Cardinality(Holders)
  /\ \A r \in Reqs : Sound(req[r])
  /\ \A r \in Reqs : loop = r <=> Occupies(req[r])

LEMMA OccupiesIsOnLoop ==
  ASSUME NEW r \in Reqs
  PROVE  OnLoop(r) <=> Occupies(req[r])
  BY DEF OnLoop, Occupies, In, InSave, SavePhases

\* What At does to the connection and the kind.
LEMMA AtHolds ==
  ASSUME IInv, NEW r \in Reqs, NEW phase \in Phases
  PROVE  /\ At(r, phase) \in Request
         /\ At(r, phase).phase = phase
         /\ At(r, phase).conn = req[r].conn
         /\ phase # "returned" => At(r, phase).kind = req[r].kind
  <1>1. req[r] \in Request
    BY DEF IInv
  <1>2. CASE phase = "returned"
    <2>1. At(r, phase) = [Idle EXCEPT !.phase = phase, !.conn = req[r].conn]
      BY <1>2 DEF At
    <2>2. QED
      BY <1>1, <1>2, <2>1, IdleShape DEF Request
  <1>3. CASE phase = "reload"
    <2>1. At(r, phase) = [Idle EXCEPT !.phase = phase, !.conn = req[r].conn, !.kind = req[r].kind]
      BY <1>3 DEF At
    <2>2. QED
      BY <1>1, <1>3, <2>1, IdleShape DEF Request
  <1>4. CASE phase \notin {"returned", "reload"}
    <2>1. At(r, phase) = [req[r] EXCEPT !.phase = phase]
      BY <1>4 DEF At
    <2>2. QED
      BY <1>1, <2>1 DEF Request
  <1>5. QED
    BY <1>2, <1>3, <1>4

\* The connections that are taken follow from the one of the request that moves.
LEMMA HoldersCount ==
  ASSUME PoolInv, IInv', NEW r \in Reqs,
         \A q \in Reqs \ {r} : req'[q].conn = req[q].conn,
         size' = size,
         \/ req'[r].conn = req[r].conn /\ free' = free
         \/ req'[r].conn /\ ~req[r].conn /\ free' = free - 1
         \/ ~req'[r].conn /\ req[r].conn /\ free' = free + 1
  PROVE  IsFiniteSet(Holders') /\ free' = size' - Cardinality(Holders')
  <1>1. IsFiniteSet(Holders) /\ free = size - Cardinality(Holders) /\ size \in Nat
    BY RequestsAssumption DEF PoolInv
  <1>2. Cardinality(Holders) \in Nat
    BY <1>1, FS_CardinalityType
  <1>3. req[r].conn \in BOOLEAN /\ req'[r].conn \in BOOLEAN
    BY DEF PoolInv, IInv, Request
  <1>4. CASE req'[r].conn = req[r].conn
    <2>1. Holders' = Holders
      BY <1>4 DEF Holders
    <2>2. QED
      BY <1>1, <1>3, <1>4, <2>1
  <1>5. CASE req'[r].conn /\ ~req[r].conn
    <2>1. Holders' = Holders \cup {r} /\ r \notin Holders
      BY <1>5 DEF Holders
    <2>2. QED
      <3>1. IsFiniteSet(Holders \cup {r}) /\ Cardinality(Holders \cup {r}) = Cardinality(Holders) + 1
        BY <1>1, <2>1, FS_AddElement
      <3>2. free' = free - 1
        BY <1>5
      <3>3. QED
        BY <1>1, <1>2, <2>1, <3>1, <3>2
  <1>6. CASE ~req'[r].conn /\ req[r].conn
    <2>1. Holders' = Holders \ {r} /\ r \in Holders
      BY <1>6 DEF Holders
    <2>2. QED
      <3>1. IsFiniteSet(Holders \ {r}) /\ Cardinality(Holders \ {r}) = Cardinality(Holders) - 1
        BY <1>1, <2>1, FS_RemoveElement
      <3>2. free' = free + 1
        BY <1>6
      <3>3. QED
        BY <1>1, <1>2, <2>1, <3>1, <3>2
  <1>7. QED
    BY <1>3, <1>4, <1>5, <1>6

\* A step of one request keeps the books when it takes or gives back at
\* most its own connection, and enters or leaves the loop as its phase says.
LEMMA MoveKeeps ==
  ASSUME PoolInv, IInv', NEW r \in Reqs,
         \A q \in Reqs \ {r} :
           /\ req'[q].phase = req[q].phase /\ req'[q].kind = req[q].kind
           /\ req'[q].conn = req[q].conn
           /\ req[q].phase = "idle" => req'[q] = req[q],
         size' = size,
         \/ req'[r].conn = req[r].conn /\ free' = free
         \/ req'[r].conn /\ ~req[r].conn /\ free' = free - 1
         \/ ~req'[r].conn /\ req[r].conn /\ free' = free + 1,
         Sound(req'[r]),
         \/ loop' = loop /\ (Occupies(req'[r]) <=> Occupies(req[r]))
         \/ loop' = r /\ loop = Null /\ Occupies(req'[r])
         \/ loop' = Null /\ loop = r /\ ~Occupies(req'[r]),
         account' \in Browsers \cup {Null}
  PROVE  PoolInv'
  <1>1. Null \notin Reqs
    BY RequestsAssumption
  <1>2. IsFiniteSet(Holders') /\ free' = size' - Cardinality(Holders')
    BY HoldersCount
  <1>3. ASSUME NEW q \in Reqs PROVE Sound(req'[q])
    <2>1. CASE q = r
      BY <2>1
    <2>2. CASE q # r
      <3>1. Sound(req[q])
        BY DEF PoolInv
      <3>2. QED
        BY <2>2, <3>1 DEF Sound
    <2>3. QED
      BY <2>1, <2>2
  <1>4. ASSUME NEW q \in Reqs PROVE loop' = q <=> Occupies(req'[q])
    <2>1. loop = q <=> Occupies(req[q])
      BY DEF PoolInv
    <2>2. loop = r <=> Occupies(req[r])
      BY DEF PoolInv
    <2>3. CASE q = r
      BY <1>1, <2>2, <2>3
    <2>4. CASE q # r
      <3>1. Occupies(req'[q]) <=> Occupies(req[q])
        BY <2>4 DEF Occupies
      <3>2. QED
        BY <1>1, <2>1, <2>4, <3>1
    <2>5. QED
      BY <2>3, <2>4
  <1>5. QED
    BY <1>2, <1>3, <1>4 DEF PoolInv, Sound, Occupies, Holders

\* The same of a step that changes nothing else in the table of requests.
LEMMA SoloKeeps ==
  ASSUME PoolInv, IInv', NEW r \in Reqs, NEW s \in Request,
         req' = [req EXCEPT ![r] = s], size' = size,
         \/ s.conn = req[r].conn /\ free' = free
         \/ s.conn /\ ~req[r].conn /\ free' = free - 1
         \/ ~s.conn /\ req[r].conn /\ free' = free + 1,
         Sound(s),
         \/ loop' = loop /\ (Occupies(s) <=> Occupies(req[r]))
         \/ loop' = r /\ loop = Null /\ Occupies(s)
         \/ loop' = Null /\ loop = r /\ ~Occupies(s),
         account' \in Browsers \cup {Null}
  PROVE  PoolInv'
  <1>1. req'[r] = s /\ \A q \in Reqs \ {r} : req'[q] = req[q]
    BY DEF PoolInv, IInv
  <1>2. QED
    BY <1>1, MoveKeeps

LEMMA GoesKeeps ==
  ASSUME PoolInv, IInv', NEW r \in Reqs, NEW s \in Request, Goes(r, s),
         s.conn = req[r].conn, Sound(s),
         Occupies(s) <=> Occupies(req[r]) /\ s.phase # "returned",
         account' \in Browsers \cup {Null}
  PROVE  PoolInv'
  <1>1. /\ req' = [req EXCEPT ![r] = s] /\ size' = size /\ free' = free
        /\ loop' = IF s.phase = "returned" /\ loop = r THEN Null ELSE loop
    BY DEF Goes
  <1>2. loop = r <=> Occupies(req[r])
    BY DEF PoolInv
  <1>3. QED
    BY <1>1, <1>2, SoloKeeps

LEMMA GoesFreeKeeps ==
  ASSUME PoolInv, IInv', NEW r \in Reqs, NEW s \in Request, GoesFree(r, s),
         req[r].conn, Sound([s EXCEPT !.conn = FALSE]),
         Occupies(s) <=> Occupies(req[r]) /\ s.phase \notin {"handler", "returned"},
         account' \in Browsers \cup {Null}
  PROVE  PoolInv'
  <1> DEFINE t == [s EXCEPT !.conn = FALSE]
  <1>1. /\ req' = [req EXCEPT ![r] = t] /\ size' = size /\ free' = free + 1
        /\ loop' = IF loop = r /\ s.phase \in {"handler", "returned"} THEN Null ELSE loop
    BY DEF GoesFree
  <1>2. loop = r <=> Occupies(req[r])
    BY DEF PoolInv
  <1>3. t \in Request /\ t.phase = s.phase /\ t.kind = s.kind /\ ~t.conn
    BY DEF Request
  <1>4. Sound(t)
    OBVIOUS
  <1> HIDE DEF t
  <1>5. Occupies(t) <=> Occupies(s)
    BY <1>3 DEF Occupies
  <1>6. QED
    BY <1>1, <1>2, <1>3, <1>4, <1>5, SoloKeeps

\* A request that leaves its connection and goes to a phase that has none.
LEMMA LeavesSound ==
  ASSUME IInv, NEW r \in Reqs, NEW s \in Request, s.phase \notin {"idle", "onLoop"} \cup Holding,
         s.phase = "refresh" => s.kind \in {"login", "signup"}
  PROVE  Sound([s EXCEPT !.conn = FALSE])
  <1> DEFINE t == [s EXCEPT !.conn = FALSE]
  <1>1. t.phase = s.phase /\ t.kind = s.kind /\ ~t.conn
    BY DEF Request
  <1> HIDE DEF t
  <1>2. Sound(t)
    BY <1>1 DEF Sound, Holding, Signing
  <1>3. QED
    BY <1>2 DEF t

-----------------------------------------------------------------------------

LEMMA CheckoutBooks ==
  ASSUME PoolInv, IInv', NEW r \in Reqs, CheckoutInThread(r)
  PROVE  PoolInv'
  <1>1. account' = account /\ size' = size
    BY DEF CheckoutInThread, Checkout, CheckoutFails, tables
  <1>2. req[r].phase \in {"lookup", "handler", "onLoop", "refresh", "reload"}
    BY DEF CheckoutInThread, Checkout, CheckoutFails, Then
  <1>3. Sound(req[r]) /\ (loop = r <=> Occupies(req[r])) /\ account \in Browsers \cup {Null} /\ IInv
    BY DEF PoolInv
  <1>4. ~req[r].conn
    BY <1>2, <1>3 DEF Sound, Without
  <1>5. req[r].phase = "handler" => req[r].kind # "fragment"
    BY DEF CheckoutInThread, In
  <1>6. CASE Checkout(r)
    <2> DEFINE phase == Then[req[r].phase]
               s == [At(r, phase) EXCEPT !.conn = TRUE]
    <2>1. /\ req' = [req EXCEPT ![r] = s] /\ free' = free - 1
          /\ loop' = IF phase = "returned" /\ loop = r THEN Null ELSE loop
      BY <1>6 DEF Checkout
    <2>2. /\ req[r].phase = "lookup" => phase = "looking"
          /\ req[r].phase = "handler" => phase = "work"
          /\ req[r].phase = "onLoop" => phase = "work"
          /\ req[r].phase = "refresh" => phase = "session"
          /\ req[r].phase = "reload" => phase = "returned"
      BY DEF Then
    <2>3. phase \in {"looking", "work", "session", "returned"}
      BY <1>2, <2>2
    <2> HIDE DEF phase
    <2>4. /\ At(r, phase) \in Request /\ At(r, phase).phase = phase
          /\ phase # "returned" => At(r, phase).kind = req[r].kind
      BY <1>3, <2>3, PhasesListed, AtHolds
    <2>5. /\ s \in Request /\ s.phase = phase /\ s.conn
          /\ phase # "returned" => s.kind = req[r].kind
      BY <2>4 DEF Request
    <2> HIDE DEF s
    <2>6. Sound(s)
      BY <1>2, <1>3, <2>2, <2>3, <2>5 DEF Sound, Without, Signing
    <2>7. Occupies(s) <=> Occupies(req[r]) /\ phase # "returned"
      BY <1>2, <1>3, <1>5, <2>2, <2>3, <2>5 DEF Occupies, Sound, Signing, SavePhases
    <2>8. QED
      BY <1>1, <1>3, <1>4, <2>1, <2>5, <2>6, <2>7, SoloKeeps
  <1>7. CASE CheckoutFails(r)
    <2> DEFINE s == IF In(r, "lookup") THEN Idle ELSE At(r, "returned")
    <2>1. /\ req' = [req EXCEPT ![r] = s] /\ free' = free
          /\ loop' = IF loop = r THEN Null ELSE loop
      BY <1>7 DEF CheckoutFails
    <2>2. /\ At(r, "returned") \in Request /\ At(r, "returned").phase = "returned"
          /\ At(r, "returned").conn = req[r].conn
      BY <1>3, PhasesListed, AtHolds
    <2>3. s \in Request /\ s.conn = req[r].conn /\ (s = Idle \/ s.phase = "returned")
      <3>1. req[r].conn = FALSE
        BY <1>3, <1>4 DEF IInv, Request
      <3>2. QED
        BY <2>2, <3>1, IdleShape
    <2> HIDE DEF s
    <2>4. Sound(s) /\ ~Occupies(s)
      BY <2>3, IdleShape DEF Sound, Occupies, Holding, Without, Signing, SavePhases
    <2>5. QED
      BY <1>1, <1>3, <1>4, <2>1, <2>3, <2>4, SoloKeeps
  <1>8. QED
    BY <1>6, <1>7 DEF CheckoutInThread

LEMMA TurnBooks ==
  ASSUME PoolInv, IInv', NEW r \in Reqs, Turn(r)
  PROVE  PoolInv'
  <1>1. account' = account /\ size' = size /\ loop = Null /\ r # Null
    BY RequestsAssumption DEF Turn, Dispatch, EnterLoop, Close, tables
  <1>2. Sound(req[r]) /\ (loop = r <=> Occupies(req[r])) /\ account \in Browsers \cup {Null} /\ IInv
    BY DEF PoolInv
  <1>3. ~Occupies(req[r])
    BY <1>1, <1>2
  <1>4. ASSUME NEW phase \in Phases
        PROVE  /\ At(r, phase) \in Request /\ At(r, phase).phase = phase
               /\ At(r, phase).conn = req[r].conn
               /\ phase # "returned" => At(r, phase).kind = req[r].kind
    BY <1>2, AtHolds
  <1>5. req[r].conn \in BOOLEAN
    BY <1>2 DEF IInv, Request
  <1>6. CASE Dispatch(r)
    <2>1. req[r].phase = "arrived" /\ ~req[r].conn /\ free' = free
      BY <1>2, <1>6 DEF Dispatch, In, Sound, Without
    <2>2. CASE req[r].kind \in WithCookie
      <3> DEFINE s == At(r, "lookup")
      <3>1. loop' = r /\ req' = [req EXCEPT ![r] = s]
        BY <1>6, <2>2 DEF Dispatch
      <3>2. s \in Request /\ s.phase = "lookup" /\ s.conn = req[r].conn /\ ~s.conn
        BY <1>4, <2>1, PhasesListed
      <3> HIDE DEF s
      <3>3. Sound(s) /\ Occupies(s)
        BY <3>2 DEF Sound, Occupies, Holding, Signing, SavePhases
      <3>4. QED
        BY <1>1, <1>2, <2>1, <3>1, <3>2, <3>3, SoloKeeps
    <2>3. CASE req[r].kind \notin WithCookie
      <3> DEFINE s == At(r, "handler")
      <3>1. loop' = loop /\ req' = [req EXCEPT ![r] = s]
        BY <1>6, <2>3 DEF Dispatch
      <3>2. s \in Request /\ s.phase = "handler" /\ s.conn = req[r].conn /\ ~s.conn
        BY <1>4, <2>1, PhasesListed
      <3> HIDE DEF s
      <3>3. Sound(s) /\ ~Occupies(s)
        BY <3>2 DEF Sound, Occupies, Holding, Signing, SavePhases
      <3>4. QED
        BY <1>1, <1>2, <1>3, <2>1, <3>1, <3>2, <3>3, SoloKeeps
    <2>4. QED
      BY <2>2, <2>3
  <1>7. CASE EnterLoop(r)
    <2> DEFINE s == At(r, "onLoop")
    <2>1. /\ req[r].phase = "handler" /\ req[r].kind = "fragment" /\ ~req[r].conn
          /\ free' = free /\ loop' = r /\ req' = [req EXCEPT ![r] = s]
      BY <1>2, <1>7 DEF EnterLoop, In, Sound, Without
    <2>2. s \in Request /\ s.phase = "onLoop" /\ s.conn = req[r].conn /\ ~s.conn /\ s.kind = "fragment"
      BY <1>4, <2>1, PhasesListed
    <2> HIDE DEF s
    <2>3. Sound(s) /\ Occupies(s)
      BY <2>2 DEF Sound, Occupies, Holding, Signing, SavePhases
    <2>4. QED
      BY <1>1, <1>2, <2>1, <2>2, <2>3, SoloKeeps
  <1>8. CASE Close(r)
    <2>1. /\ req' = [req EXCEPT ![r] = Idle] /\ loop' = loop
          /\ free' = IF req[r].conn THEN free + 1 ELSE free
      BY <1>8 DEF Close
    <2>2. Sound(Idle) /\ ~Occupies(Idle)
      BY IdleShape DEF Sound, Occupies, Holding, Signing, SavePhases
    <2>3. QED
      BY <1>1, <1>2, <1>3, <1>5, <2>1, <2>2, IdleShape, SoloKeeps
  <1>9. QED
    BY <1>6, <1>7, <1>8 DEF Turn

LEMMA HandlerBooks ==
  ASSUME PoolInv, IInv', NEW r \in Reqs,
         Look(r) \/ DropExpired(r) \/ ReadPage(r) \/ CheckPassword(r) \/ CheckName(r)
           \/ Register(r) \/ CreateSession(r) \/ RevokeSession(r)
  PROVE  PoolInv'
  <1>1. /\ Sound(req[r]) /\ (loop = r <=> Occupies(req[r])) /\ account \in Browsers \cup {Null}
        /\ IInv /\ Named(req[r])
    BY DEF PoolInv, IInv
  <1>2. account' \in Browsers \cup {Null}
    <2>1. CASE Register(r)
      <3>1. req[r].who \in Browsers
        BY <1>1, <2>1 DEF Register, In, Named, Signing
      <3>2. QED
        BY <1>1, <2>1, <3>1 DEF Register
    <2>2. QED
      BY <1>1, <2>1 DEF Look, DropExpired, ReadPage, CheckPassword, CheckName, CreateSession,
         RevokeSession, tables
  <1>3. /\ req[r].phase \in {"looking", "expired", "work", "register", "session"}
        /\ req[r].phase = "work" => req[r].kind \in {"page", "login", "signup", "logout"}
    BY DEF Look, DropExpired, ReadPage, CheckPassword, CheckName, Register, CreateSession,
       RevokeSession, Working, In
  <1>4. req[r].conn
    BY <1>1, <1>3 DEF Sound, Holding
  <1>5. Occupies(req[r]) <=> req[r].phase \in {"looking", "expired"}
    BY <1>1, <1>3 DEF Occupies, Sound, Signing, SavePhases
  <1>6. ASSUME NEW phase \in Phases
        PROVE  /\ At(r, phase) \in Request /\ At(r, phase).phase = phase
               /\ At(r, phase).conn = req[r].conn
               /\ phase # "returned" => At(r, phase).kind = req[r].kind
    BY <1>1, AtHolds
  <1>7. ASSUME NEW phase \in {"returned", "session", "register", "expired"},
               Goes(r, At(r, phase)),
               phase \in {"session", "register"} => req[r].kind \in {"login", "signup"},
               phase = "expired" <=> req[r].phase \in {"looking", "expired"}
        PROVE  PoolInv'
    <2> DEFINE s == At(r, phase)
    <2>1. /\ s \in Request /\ s.phase = phase /\ s.conn = req[r].conn
          /\ phase # "returned" => s.kind = req[r].kind
      BY <1>6, PhasesListed
    <2>2. Goes(r, s)
      BY <1>7
    <2> HIDE DEF s
    <2>3. Sound(s)
      BY <1>4, <1>7, <2>1 DEF Sound, Without, Signing
    <2>4. Occupies(s) <=> Occupies(req[r]) /\ s.phase # "returned"
      BY <1>5, <1>7, <2>1 DEF Occupies, SavePhases
    <2>5. QED
      BY <1>2, <2>1, <2>2, <2>3, <2>4, GoesKeeps
  <1>8. ASSUME NEW s \in Request, GoesFree(r, s), s.phase \in {"handler", "returned", "refresh", "reload"},
               s.phase \in {"refresh", "reload"} =>
                 /\ s.kind \in {"login", "signup"} /\ req[r].phase \in {"register", "session"}
        PROVE  PoolInv'
    <2>1. Sound([s EXCEPT !.conn = FALSE])
      BY <1>1, <1>8, LeavesSound DEF Holding, SavePhases
    <2>2. Occupies(s) <=> Occupies(req[r]) /\ s.phase \notin {"handler", "returned"}
      BY <1>5, <1>8 DEF Occupies, SavePhases
    <2>3. QED
      BY <1>2, <1>4, <1>8, <2>1, <2>2, GoesFreeKeeps
  <1>9. CASE ReadPage(r) \/ CheckPassword(r) \/ CheckName(r)
    <2>1. /\ Goes(r, At(r, "returned")) \/ Goes(r, At(r, "session")) \/ Goes(r, At(r, "register"))
          /\ ~Goes(r, At(r, "returned")) => req[r].kind \in {"login", "signup"}
          /\ req[r].phase = "work"
      BY <1>9 DEF ReadPage, CheckPassword, CheckName, Working, In
    <2>2. QED
      BY <1>7, <2>1
  <1>10. CASE Look(r) /\ sessions[req[r].who] = "expired"
    <2>1. Goes(r, At(r, "expired")) /\ req[r].phase = "looking"
      BY <1>10 DEF Look, In
    <2>2. QED
      BY <1>7, <2>1
  <1>11. CASE Look(r) /\ sessions[req[r].who] # "expired"
    <2> DEFINE phase == Answerer(r, sessions[req[r].who] = "live")
               a == At(r, phase)
               who == IF req[r].kind \in NeedsLogin THEN Null ELSE a.who
               s == [a EXCEPT !.who = who]
    <2>1. GoesFree(r, s)
      BY <1>11 DEF Look
    <2>2. phase \in {"handler", "returned"}
      BY DEF Answerer
    <2> HIDE DEF phase
    <2>3. a \in Request /\ a.phase = phase
      BY <1>6, <2>2, PhasesListed
    <2> HIDE DEF a
    <2>4. who \in Browsers \cup {Null}
      BY <2>3 DEF Request
    <2> HIDE DEF who
    <2>5. s \in Request /\ s.phase = phase
      BY <2>3, <2>4 DEF Request
    <2> HIDE DEF s
    <2>6. QED
      BY <1>8, <2>1, <2>2, <2>5
  <1>12. CASE DropExpired(r)
    <2> DEFINE phase == Answerer(r, FALSE)
    <2>1. GoesFree(r, At(r, phase))
      BY <1>12 DEF DropExpired
    <2>2. phase \in {"handler", "returned"}
      BY DEF Answerer
    <2> HIDE DEF phase
    <2>3. QED
      BY <1>6, <1>8, <2>1, <2>2, PhasesListed
  <1>13. CASE Register(r)
    <2>1. req[r].phase = "register" /\ req[r].kind \in {"login", "signup"}
      BY <1>1, <1>13 DEF Register, In, Sound, Signing
    <2>2. GoesFree(r, At(r, "refresh")) \/ Goes(r, At(r, "returned"))
      BY <1>13 DEF Register
    <2>3. QED
      BY <1>6, <1>7, <1>8, <2>1, <2>2, PhasesListed
  <1>14. CASE CreateSession(r)
    <2>1. req[r].phase = "session" /\ req[r].kind \in {"login", "signup"}
      BY <1>1, <1>14 DEF CreateSession, In, Sound, Signing
    <2>2. GoesFree(r, At(r, "reload"))
      BY <1>14 DEF CreateSession
    <2>3. QED
      BY <1>6, <1>8, <2>1, <2>2, PhasesListed
  <1>15. CASE RevokeSession(r)
    <2>1. GoesFree(r, At(r, "returned"))
      BY <1>15 DEF RevokeSession
    <2>2. QED
      BY <1>6, <1>8, <2>1, PhasesListed
  <1>16. QED
    BY <1>9, <1>10, <1>11, <1>12, <1>13, <1>14, <1>15

LEMMA SaveBooks ==
  ASSUME PoolInv, IInv', NEW r \in Reqs,
         BeginSave(r) \/ Delete(r) \/ Insert(r) \/ CommitSave(r)
  PROVE  PoolInv'
  <1>1. /\ Sound(req[r]) /\ (loop = r <=> Occupies(req[r])) /\ account \in Browsers \cup {Null} /\ IInv
    BY DEF PoolInv
  <1>2. account' \in Browsers \cup {Null}
    BY <1>1 DEF BeginSave, Delete, Insert, CommitSave, tables
  <1>3. req[r].phase \in {"work"} \cup SavePhases
    BY DEF BeginSave, Delete, Insert, CommitSave, In, SavePhases
  <1>4. req[r].conn
    BY <1>1, <1>3 DEF Sound, Holding
  <1>5. Occupies(req[r]) <=> req[r].kind = "fragment"
    BY <1>3 DEF Occupies, SavePhases
  <1>6. ASSUME NEW phase \in Phases
        PROVE  /\ At(r, phase) \in Request /\ At(r, phase).phase = phase
               /\ At(r, phase).conn = req[r].conn
               /\ phase # "returned" => At(r, phase).kind = req[r].kind
    BY <1>1, AtHolds
  <1>7. ASSUME NEW phase \in {"returned", "insert", "commit"}, Goes(r, At(r, phase))
        PROVE  PoolInv'
    <2> DEFINE s == At(r, phase)
    <2>1. /\ s \in Request /\ s.phase = phase /\ s.conn = req[r].conn
          /\ phase # "returned" => s.kind = req[r].kind
      BY <1>6, PhasesListed
    <2>2. Goes(r, s)
      BY <1>7
    <2> HIDE DEF s
    <2>3. Sound(s)
      BY <1>4, <2>1 DEF Sound, Without, Signing
    <2>4. Occupies(s) <=> Occupies(req[r]) /\ s.phase # "returned"
      BY <1>5, <2>1 DEF Occupies, SavePhases
    <2>5. QED
      BY <1>2, <2>1, <2>2, <2>3, <2>4, GoesKeeps
  <1>8. CASE Delete(r) \/ Insert(r) \/ (BeginSave(r) /\ Toggleable = {})
    <2>1. Goes(r, At(r, "returned")) \/ Goes(r, At(r, "insert")) \/ Goes(r, At(r, "commit"))
      BY <1>8 DEF Delete, Insert, BeginSave
    <2>2. QED
      BY <1>7, <2>1
  <1>9. ASSUME NEW q \in Reqs PROVE req[q] \in Request /\ req'[q] \in Request
    BY <1>1 DEF IInv
  <1>10. CASE BeginSave(r) /\ Toggleable # {}
    <2>1. PICK S \in SUBSET Laws : req' = [q \in Reqs |->
            IF q = r THEN [At(r, "delete") EXCEPT !.laws = S \cap Toggleable,
                             !.gone = selected \cap Toggleable, !.alone = ~Overlaps(r)]
            ELSE [req[q] EXCEPT !.alone = FALSE]]
      BY <1>10 DEF BeginSave
    <2>2. /\ At(r, "delete") \in Request /\ At(r, "delete").phase = "delete"
          /\ At(r, "delete").conn = req[r].conn /\ At(r, "delete").kind = req[r].kind
      BY <1>6, PhasesListed
    <2>3. req'[r].phase = "delete" /\ req'[r].conn = req[r].conn /\ req'[r].kind = req[r].kind
      BY <2>1, <2>2 DEF Request
    <2>4. ASSUME NEW q \in Reqs \ {r}
          PROVE  /\ req'[q].phase = req[q].phase /\ req'[q].kind = req[q].kind
                 /\ req'[q].conn = req[q].conn
                 /\ req[q].phase = "idle" => req'[q] = req[q]
      <3>1. req'[q] = [req[q] EXCEPT !.alone = FALSE]
        BY <2>1
      <3>2. req[q].phase = "idle" => req[q].alone = FALSE
        BY DEF PoolInv, Sound, Idle
      <3>3. QED
        BY <1>9, <3>1, <3>2 DEF Request
    <2>5. Sound(req'[r]) /\ (Occupies(req'[r]) <=> Occupies(req[r]))
      BY <1>4, <1>5, <2>3 DEF Sound, Without, Signing, Occupies, SavePhases
    <2>6. size' = size /\ free' = free /\ loop' = loop
      BY <1>10 DEF BeginSave
    <2>7. QED
      BY <1>2, <2>3, <2>4, <2>5, <2>6, MoveKeeps
  <1>11. CASE CommitSave(r)
    <2>1. /\ req' = [q \in Reqs |->
               IF q = r THEN [At(r, "reload") EXCEPT !.conn = FALSE]
               ELSE IF In(q, "delete") THEN [req[q] EXCEPT !.gone = @ \ req[r].gone]
               ELSE req[q]]
          /\ size' = size /\ free' = free + 1 /\ loop' = loop
      BY <1>11 DEF CommitSave
    <2>2. At(r, "reload") \in Request /\ At(r, "reload").phase = "reload" /\ At(r, "reload").kind = req[r].kind
      BY <1>6, PhasesListed
    <2>3. req'[r].phase = "reload" /\ ~req'[r].conn /\ req'[r].kind = req[r].kind
      BY <2>1, <2>2 DEF Request
    <2>4. ASSUME NEW q \in Reqs \ {r}
          PROVE  /\ req'[q].phase = req[q].phase /\ req'[q].kind = req[q].kind
                 /\ req'[q].conn = req[q].conn
                 /\ req[q].phase = "idle" => req'[q] = req[q]
      <3>1. CASE In(q, "delete")
        <4>1. req'[q] = [req[q] EXCEPT !.gone = req[q].gone \ req[r].gone]
          BY <2>1, <3>1
        <4>2. QED
          BY <1>9, <3>1, <4>1 DEF Request, In
      <3>2. CASE ~In(q, "delete")
        BY <2>1, <3>2
      <3>3. QED
        BY <3>1, <3>2
    <2>5. Sound(req'[r]) /\ (Occupies(req'[r]) <=> Occupies(req[r]))
      BY <1>5, <2>3 DEF Sound, Holding, Signing, Occupies, SavePhases
    <2>6. QED
      BY <1>2, <1>4, <2>1, <2>3, <2>4, <2>5, MoveKeeps
  <1>12. QED
    BY <1>8, <1>10, <1>11

LEMMA ArriveBooks ==
  ASSUME PoolInv, IInv', NEW r \in Reqs, NEW kind \in Kinds, NEW b \in Browsers, Arrive(r, kind, b)
  PROVE  PoolInv'
  <1> DEFINE s == [Idle EXCEPT !.kind = kind, !.phase = "arrived", !.who = b]
  <1>1. /\ req' = [req EXCEPT ![r] = s] /\ size' = size /\ free' = free /\ loop' = loop
        /\ account' \in Browsers \cup {Null}
    BY DEF Arrive, tables, PoolInv
  <1>2. req[r].phase = "idle" /\ req[r] = Idle
    BY DEF Arrive, In, PoolInv, Sound
  <1>3. s \in Request /\ s.phase = "arrived" /\ s.conn = FALSE
    BY IdleShape, PhasesListed DEF Request
  <1> HIDE DEF s
  <1>4. Sound(s) /\ ~Occupies(s) /\ ~Occupies(req[r])
    BY <1>2, <1>3 DEF Sound, Occupies, Holding, Signing, SavePhases
  <1>5. QED
    BY <1>1, <1>2, <1>3, <1>4, IdleShape, SoloKeeps

\* No connection of the pool is ever lost or counted twice, and the loop is
\* occupied by the request that runs on it and by no other, for any number
\* of requests and any size of the pool.
THEOREM TypeCorrect == Spec => []TypeOK
  <1>1. Init /\ IInv => PoolInv
    <2> SUFFICES ASSUME Init, IInv PROVE PoolInv
      OBVIOUS
    <2>1. \A r \in Reqs : req[r] = Idle
      BY DEF Init
    <2>2. Holders = {}
      BY <2>1, IdleShape DEF Holders
    <2>3. IsFiniteSet(Holders) /\ Cardinality(Holders) = 0
      BY <2>2, FS_EmptySet
    <2>4. size \in PoolSizes /\ free = size /\ loop = Null /\ account \in Browsers \cup {Null}
      BY DEF Init
    <2>5. \A r \in Reqs : Sound(req[r]) /\ ~Occupies(req[r])
      BY <2>1, IdleShape DEF Sound, Occupies, Holding, Signing, SavePhases
    <2>6. QED
      BY <2>3, <2>4, <2>5, RequestsAssumption DEF PoolInv
  <1>2. PoolInv /\ [Next]_vars /\ IInv' => PoolInv'
    <2> SUFFICES ASSUME PoolInv, [Next]_vars, IInv' PROVE PoolInv'
      OBVIOUS
    <2>1. ASSUME NEW r \in Reqs, NEW kind \in Kinds, NEW b \in Browsers, Arrive(r, kind, b)
          PROVE PoolInv'
      BY <2>1, ArriveBooks
    <2>2. ASSUME NEW b \in Browsers, Expire(b)
          PROVE PoolInv'
      BY <2>2 DEF Expire, PoolInv, Sound, Occupies, Holders
    <2>3. ASSUME NEW r \in Reqs, Step(r)
          PROVE PoolInv'
      BY <2>3, CheckoutBooks, HandlerBooks, SaveBooks DEF Step
    <2>4. ASSUME NEW r \in Reqs, Turn(r)
          PROVE PoolInv'
      BY <2>4, TurnBooks
    <2>5. CASE UNCHANGED vars
      BY <2>5 DEF vars, tables, PoolInv, Sound, Occupies, Holders
    <2>6. QED
      BY <2>1, <2>2, <2>3, <2>4, <2>5 DEF Next
  <1>3. PoolInv => TypeOK
    <2> SUFFICES ASSUME PoolInv PROVE TypeOK
      OBVIOUS
    <2>1. ASSUME NEW r \in Reqs
          PROVE  /\ req[r].kind \in Kinds /\ req[r].phase \in Phases
                 /\ req[r].gone \cup req[r].laws \subseteq Toggleable
                 /\ In(r, "idle") => req[r] = Idle
                 /\ loop = r <=> OnLoop(r)
      <3>1. req[r] \in Request /\ Sound(req[r])
        BY DEF PoolInv, IInv
      <3>2. loop = r <=> OnLoop(r)
        BY OccupiesIsOnLoop DEF PoolInv
      <3>3. QED
        BY <3>1, <3>2 DEF Request, Sound, In
    <2>2. QED
      BY <2>1 DEF PoolInv, IInv, SessionStates, TypeOK
  <1>4. QED
    BY <1>1, <1>2, <1>3, Inductive, PTL DEF Spec

=============================================================================
