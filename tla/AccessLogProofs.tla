-------------------------- MODULE AccessLogProofs --------------------------
(***************************************************************************)
(* Proofs about AccessLog, for any number of polls beside the poller, any  *)
(* limit of lines per call, resolution of time, first window and bounds.   *)
(***************************************************************************)
EXTENDS AccessLog, FiniteSetTheorems, SequenceTheorems, WellFoundedInduction, TLAPS

-----------------------------------------------------------------------------
(* The inductive invariant *)

\* The log is in the order of time.
InOrder ==
  /\ \A i, j \in DOMAIN log : i <= j => log[i].at <= log[j].at
  /\ \A i \in DOMAIN log : log[i].at <= now

\* Whoever goes on from time t with the lines s seen at it skips nothing.
Kept(t, s) == \A i \in DOMAIN log : Due(i) /\ (log[i].at < t \/ i \in s) => counted[i] > 0
SeenAt(t, s) == \A i \in s : t # Null /\ i \in AccessLines /\ log[i].at = t
GoesOn(t, s) == /\ SeenAt(t, s)
                /\ t # Null => t <= now /\ start # Null /\ Kept(t, s)

\* What a call has read goes on from where its copy was taken, without a gap.
CallFits(c) ==
  c # NoCall =>
    /\ c.since <= now
    /\ c.previous # Null => c.since = c.previous
    /\ GoesOn(c.previous, c.seen)
    /\ c.pc = "read" => /\ c.raw \subseteq DOMAIN log
                        /\ \A i \in LinesSince(c.since), j \in c.raw : i <= j => i \in c.raw

NoGap ==
  /\ InOrder
  /\ GoesOn(lastTs, seen)
  /\ \A p \in Polls : CallFits(call[p])

\* Without overlaps the copy is what it was copied from, and what has been
\* counted lies before the time it goes on from, or was seen at it.
NoRepetition ==
  ~overlapped =>
    /\ \A p, q \in Polls : call[p] # NoCall /\ call[q] # NoCall => p = q
    /\ \A p \in Polls : call[p] # NoCall => call[p].previous = lastTs /\ call[p].seen = seen
    /\ \A i \in Positions : counted[i] <= 1
    /\ \A i \in Positions : counted[i] > 0 =>
         /\ lastTs # Null /\ i \in DOMAIN log
         /\ log[i].at < lastTs \/ i \in seen

IInv == LogTypeOK /\ NoGap /\ NoRepetition

-----------------------------------------------------------------------------
(* Times and lines *)

LEMMA SecondsInOrder ==
  ASSUME NEW s \in Nat, NEW t \in Nat, s <= t
  PROVE  SecondOf(s) <= SecondOf(t)
  BY AccessLogAssumption DEF SecondOf

LEMMA LogTypes ==
  ASSUME LogTypeOK
  PROVE  /\ log \in Seq([at : Nat, access : BOOLEAN])
         /\ Len(log) \in Nat /\ DOMAIN log = 1 .. Len(log) /\ DOMAIN log \subseteq Positions
         /\ \A i \in DOMAIN log : log[i].at \in Nat
  <1>1. log \in Seq([at : Nat, access : BOOLEAN]) /\ Len(log) <= MaxLog
    BY DEF LogTypeOK
  <1>2. Len(log) \in Nat /\ DOMAIN log = 1 .. Len(log)
    BY <1>1
  <1>3. DOMAIN log \subseteq Positions
    BY <1>1, <1>2, AccessLogAssumption DEF Positions
  <1>4. ASSUME NEW i \in DOMAIN log PROVE log[i].at \in Nat
    <2>1. log[i] \in [at : Nat, access : BOOLEAN]
      BY <1>1, <1>2, ElementOfSeq
    <2>2. QED
      BY <2>1
  <1>5. QED
    BY <1>1, <1>2, <1>3, <1>4

\* What a call knows of the world, by where it is.
LEMMA CallTypes ==
  ASSUME LogTypeOK, NEW p \in Polls
  PROVE  /\ call[p] # NoCall => /\ call[p].since \in Nat /\ call[p].previous \in Nat \cup {Null}
                                /\ call[p].seen \in SUBSET Positions
                                /\ call[p].pc \in {"copied", "read"}
         /\ call[p].pc = "copied" => call[p] \in Copied /\ call[p] # NoCall
         /\ call[p].pc = "read" => call[p] \in WithLines /\ call[p] # NoCall
                                   /\ call[p].raw \in SUBSET Positions
  BY DEF LogTypeOK, Copied, WithLines, NoCall

\* A set of lines that is not empty has one that is the latest.
LEMMA LatestLine ==
  ASSUME NEW n \in Nat, NEW S, S \subseteq 1 .. n, S # {}
  PROVE  \E i \in S : \A j \in S : j <= i
  <1> DEFINE T == {n - i : i \in S}
  <1>1. \A i \in S : i \in Nat /\ n - i \in Nat
    OBVIOUS
  <1>2. T \subseteq Nat
    BY <1>1
  <1>3. T # {}
    OBVIOUS
  <1>4. \E x \in T : \A y \in T : ~ (<<y, x>> \in OpToRel(<,Nat))
    BY <1>2, <1>3, WFMin, NatLessThanWellFounded, Zenon
  <1>5. PICK x \in T : \A y \in T : ~ (y < x)
    BY <1>2, <1>4 DEF OpToRel
  <1>6. PICK m \in S : x = n - m
    OBVIOUS
  <1>7. \A j \in S : ~ (n - j < n - m)
    BY <1>5, <1>6
  <1>8. QED
    BY <1>1, <1>6, <1>7

\* What a call reads has no gap: an earlier line of the same window was read.
LEMMA RawHasNoGap ==
  ASSUME LogTypeOK, NEW since \in Nat, NEW i \in LinesSince(since), NEW j \in Raw(since), i <= j
  PROVE  i \in Raw(since)
  <1> DEFINE Upto(k) == {x \in LinesSince(since) : x <= k}
  <1>1. LinesSince(since) \subseteq 1 .. Len(log) /\ Len(log) \in Nat
    BY LogTypes DEF LinesSince
  <1>2. j \in LinesSince(since) /\ Cardinality(Upto(j)) <= MaxLinesPerPoll
    BY DEF Raw
  <1>3. IsFiniteSet(1 .. Len(log))
    BY <1>1, FS_Interval
  <1>4. Upto(j) \subseteq 1 .. Len(log) /\ Upto(i) \subseteq Upto(j)
    BY <1>1, <1>2
  <1>5. IsFiniteSet(Upto(j)) /\ IsFiniteSet(Upto(i))
    BY <1>3, <1>4, FS_Subset
  <1>6. Cardinality(Upto(i)) \in Nat /\ Cardinality(Upto(j)) \in Nat
        /\ Cardinality(Upto(i)) <= Cardinality(Upto(j))
    BY <1>4, <1>5, FS_Subset, FS_CardinalityType
  <1>7. Cardinality(Upto(i)) <= MaxLinesPerPoll
    BY <1>2, <1>6, AccessLogAssumption
  <1>8. QED
    BY <1>7 DEF Raw

-----------------------------------------------------------------------------
(* What a call has found *)

\* The newest of the fresh lines, if there are any.
LEMMA NewestOfFresh ==
  ASSUME IInv, NEW p \in Polls, call[p].pc = "read"
  PROVE  /\ Fresh(call[p]) \subseteq AccessLines
         /\ Fresh(call[p]) = {} => Newest(call[p]) = call[p].previous
         /\ Fresh(call[p]) # {} =>
              /\ \E i \in Fresh(call[p]) : log[i].at = Newest(call[p])
              /\ \A i \in Fresh(call[p]) : log[i].at <= Newest(call[p])
              /\ Newest(call[p]) \in Nat /\ Newest(call[p]) <= now
              /\ call[p].previous # Null => call[p].previous <= Newest(call[p])
  <1> DEFINE c == call[p]
  <1>1. /\ c \in WithLines /\ c # NoCall /\ c.raw \subseteq DOMAIN log
        /\ c.previous \in Nat \cup {Null}
    BY CallTypes DEF IInv, NoGap, CallFits
  <1>2. Fresh(c) \subseteq AccessLines
    BY <1>1 DEF Fresh, IsFresh, AccessLines
  <1>3. Fresh(c) = {} => Newest(c) = c.previous
    BY DEF Newest
  <1>4. ASSUME Fresh(c) # {}
        PROVE  /\ \E i \in Fresh(c) : log[i].at = Newest(c)
               /\ \A i \in Fresh(c) : log[i].at <= Newest(c)
    <2>1. Fresh(c) \subseteq 1 .. Len(log) /\ Len(log) \in Nat
      BY <1>1, LogTypes DEF IInv, Fresh
    <2>2. PICK l \in Fresh(c) : \A j \in Fresh(c) : j <= l
      BY <1>4, <2>1, LatestLine
    <2>3. \A j \in Fresh(c) : log[j].at <= log[l].at
      BY <1>1, <2>1, <2>2 DEF IInv, NoGap, InOrder, Fresh
    <2> DEFINE latest == CHOOSE i \in Fresh(c) : \A j \in Fresh(c) : log[j].at <= log[i].at
    <2>4. latest \in Fresh(c) /\ \A j \in Fresh(c) : log[j].at <= log[latest].at
      BY <2>3
    <2>5. Newest(c) = log[latest].at
      BY <1>4 DEF Newest
    <2>6. QED
      BY <2>4, <2>5
  <1>5. ASSUME Fresh(c) # {}
        PROVE  /\ Newest(c) \in Nat /\ Newest(c) <= now
               /\ c.previous # Null => c.previous <= Newest(c)
    <2>1. PICK i \in Fresh(c) : log[i].at = Newest(c)
      BY <1>4, <1>5
    <2>2. i \in DOMAIN log /\ log[i].at \in Nat /\ log[i].at <= now
      BY <1>1, <2>1, LogTypes DEF IInv, NoGap, InOrder, Fresh
    <2>3. c.previous # Null => log[i].at > c.previous \/ log[i].at = c.previous
      BY <2>1 DEF Fresh, IsFresh
    <2>4. QED
      BY <1>1, <2>1, <2>2, <2>3
  <1>6. QED
    BY <1>2, <1>3, <1>4, <1>5

\* A request between where the call goes on from and the newest line is fresh,
\* or was seen by the call before.
LEMMA BetweenIsFresh ==
  ASSUME IInv, NEW p \in Polls, call[p].pc = "read", Fresh(call[p]) # {},
         NEW i \in AccessLines, log[i].at >= call[p].since, log[i].at < Newest(call[p])
  PROVE  i \in Fresh(call[p]) \/ (i \in call[p].seen /\ call[p].previous # Null)
  <1> DEFINE c == call[p]
  <1>1. /\ c \in WithLines /\ c # NoCall /\ c.since \in Nat /\ c.raw \subseteq DOMAIN log
        /\ c.previous \in Nat \cup {Null}
        /\ c.previous # Null => c.since = c.previous
        /\ \A k \in LinesSince(c.since), j \in c.raw : k <= j => k \in c.raw
    BY CallTypes DEF IInv, NoGap, CallFits
  <1>2. i \in DOMAIN log /\ log[i].at \in Nat /\ log[i].access
    BY LogTypes DEF IInv, AccessLines
  <1>3. i \in LinesSince(c.since)
    BY <1>1, <1>2, SecondsInOrder DEF LinesSince, SecondOf
  <1>4. PICK l \in Fresh(c) : log[l].at = Newest(c)
    BY NewestOfFresh
  <1>5. l \in c.raw /\ l \in DOMAIN log /\ log[l].at \in Nat
    BY <1>1, <1>4, LogTypes DEF Fresh, IInv
  <1>6. ~ (l <= i)
    BY <1>2, <1>4, <1>5 DEF IInv, NoGap, InOrder
  <1>7. i \in Nat /\ l \in Nat
    BY <1>2, <1>5, LogTypes DEF IInv
  <1>8. i \in c.raw
    BY <1>1, <1>3, <1>5, <1>6, <1>7
  <1>9. IsFresh(c, i) \/ (i \in c.seen /\ c.previous # Null)
    <2>1. CASE c.previous = Null
      BY <1>2, <2>1 DEF IsFresh
    <2>2. CASE c.previous # Null
      <3>1. c.previous \in Nat /\ log[i].at >= c.previous
        BY <1>1, <2>2
      <3>2. log[i].at > c.previous \/ log[i].at = c.previous
        BY <1>2, <3>1
      <3>3. QED
        BY <1>2, <2>2, <3>2 DEF IsFresh
    <2>3. QED
      BY <2>1, <2>2
  <1>10. QED
    BY <1>8, <1>9 DEF Fresh

-----------------------------------------------------------------------------
(* Steps *)

\* A step that leaves the log and the counters alone and does not let the
\* time go back.
LEMMA GoesOnLater ==
  ASSUME NEW t, NEW s, GoesOn(t, s), t \in Nat \cup {Null},
         log' = log, counted' = counted, start' = start, now \in Nat, now' \in Nat, now <= now'
  PROVE  GoesOn(t, s)'
  BY DEF GoesOn, SeenAt, Kept, Due, AccessLines

\* A line that is written now is before no time that a call goes on from.
LEMMA GoesOnWithLine ==
  ASSUME LogTypeOK, NEW access \in BOOLEAN, WriteLine(access), InOrder,
         NEW t \in Nat \cup {Null}, NEW s, GoesOn(t, s)
  PROVE  GoesOn(t, s)'
  <1>1. /\ log' = Append(log, [at |-> now, access |-> access])
        /\ now' = now /\ counted' = counted /\ start' = start
    BY DEF WriteLine, tally
  <1>2. /\ Len(log) \in Nat /\ DOMAIN log = 1 .. Len(log) /\ DOMAIN log' = 1 .. (Len(log) + 1)
        /\ \A i \in DOMAIN log : log'[i] = log[i]
        /\ log'[Len(log) + 1] = [at |-> now, access |-> access]
    BY <1>1, LogTypes
  <1>3. SeenAt(t, s)'
    BY <1>2 DEF GoesOn, SeenAt, AccessLines
  <1>4. ASSUME t # Null PROVE Kept(t, s)'
    <2> SUFFICES ASSUME NEW i \in DOMAIN log', Due(i)', log'[i].at < t \/ i \in s
                 PROVE  counted'[i] > 0
      BY DEF Kept
    <2>1. CASE i \in DOMAIN log
      BY <1>1, <1>2, <1>4, <2>1 DEF GoesOn, Kept, Due, AccessLines
    <2>2. CASE i = Len(log) + 1
      <3>1. i \notin s
        BY <1>2, <2>2 DEF GoesOn, SeenAt, AccessLines
      <3>2. log'[i].at = now /\ t <= now /\ now \in Nat /\ t \in Nat
        BY <1>2, <1>4, <2>2 DEF GoesOn, LogTypeOK
      <3>3. QED
        BY <3>1, <3>2
    <2>3. QED
      BY <1>2, <2>1, <2>2
  <1>5. QED
    BY <1>1, <1>3, <1>4 DEF GoesOn

LEMMA InOrderStep ==
  ASSUME LogTypeOK, InOrder, [LogNext]_logVars
  PROVE  InOrder'
  <1>1. ASSUME NEW access \in BOOLEAN, WriteLine(access) PROVE InOrder'
    <2>1. /\ Len(log) \in Nat /\ DOMAIN log = 1 .. Len(log) /\ DOMAIN log' = 1 .. (Len(log) + 1)
          /\ \A i \in DOMAIN log : log'[i] = log[i]
          /\ log'[Len(log) + 1].at = now /\ now' = now /\ now \in Nat
      BY <1>1, LogTypes DEF WriteLine, LogTypeOK
    <2>2. \A i \in DOMAIN log' : log'[i].at <= now
      BY <2>1 DEF InOrder
    <2>3. ASSUME NEW i \in DOMAIN log', NEW j \in DOMAIN log', i <= j
          PROVE log'[i].at <= log'[j].at
      BY <2>1, <2>2, <2>3 DEF InOrder
    <2>4. QED
      BY <2>1, <2>2, <2>3 DEF InOrder
  <1>2. CASE Tick
    BY <1>2, LogTypes DEF Tick, InOrder, LogTypeOK
  <1>3. ASSUME UNCHANGED clock PROVE InOrder'
    BY <1>3 DEF clock, InOrder
  <1>4. QED
    BY <1>1, <1>2, <1>3 DEF LogNext, CopyLast, ReadLog, CollectFails, CountLines, Restart, logVars, clock

LEMMA TypeStep ==
  ASSUME IInv, [LogNext]_logVars
  PROVE  LogTypeOK'
  <1>0. LogTypeOK
    BY DEF IInv
  <1>1. ASSUME NEW access \in BOOLEAN, WriteLine(access) PROVE LogTypeOK'
    <2>1. Append(log, [at |-> now, access |-> access]) \in Seq([at : Nat, access : BOOLEAN])
      BY <1>0 DEF LogTypeOK
    <2>2. Len(log') = Len(log) + 1 /\ Len(log) < MaxLog /\ Len(log) \in Nat
      BY <1>0, <1>1, LogTypes DEF WriteLine
    <2>3. QED
      BY <1>0, <1>1, <2>1, <2>2, AccessLogAssumption DEF WriteLine, LogTypeOK, tally
  <1>2. CASE Tick
    BY <1>0, <1>2 DEF Tick, LogTypeOK, tally
  <1>3. ASSUME NEW p \in Polls, CopyLast(p) PROVE LogTypeOK'
    <2>1. Since \in Nat
      BY <1>0, AccessLogAssumption DEF Since, LogTypeOK
    <2>2. [pc |-> "copied", since |-> Since, previous |-> lastTs, seen |-> seen] \in Copied
      BY <1>0, <2>1 DEF Copied, LogTypeOK
    <2>3. call' \in [Polls -> Copied \cup WithLines \cup {NoCall}]
      BY <1>0, <1>3, <2>2 DEF CopyLast, LogTypeOK
    <2>4. overlapped' \in BOOLEAN
      BY <1>3 DEF CopyLast
    <2>5. QED
      BY <1>0, <1>3, <2>3, <2>4 DEF CopyLast, LogTypeOK, clock, tally
  <1>4. ASSUME NEW p \in Polls, ReadLog(p) PROVE LogTypeOK'
    <2> DEFINE c == call[p]
               d == [pc |-> "read", since |-> c.since, previous |-> c.previous,
                     seen |-> c.seen, raw |-> Raw(c.since)]
    <2>1. call' = [call EXCEPT ![p] = d]
      BY <1>0, <1>4 DEF ReadLog, LogTypeOK
    <2>2. c \in Copied
      BY <1>0, <1>4, CallTypes DEF ReadLog
    <2>3. Raw(c.since) \in SUBSET Positions
      BY <1>0, LogTypes DEF Raw, LinesSince
    <2>4. d \in WithLines
      BY <2>2, <2>3 DEF Copied, WithLines
    <2>5. QED
      BY <1>0, <1>4, <2>1, <2>4 DEF ReadLog, LogTypeOK, clock, tally
  <1>5. ASSUME NEW p \in Polls, CollectFails(p) PROVE LogTypeOK'
    BY <1>0, <1>5 DEF CollectFails, LogTypeOK, clock, tally
  <1>6. ASSUME NEW p \in Polls, CountLines(p) PROVE LogTypeOK'
    <2> DEFINE c == call[p]
    <2>1. /\ c \in WithLines /\ c.since \in Nat /\ c.previous \in Nat \cup {Null}
          /\ c.seen \in SUBSET Positions /\ c.raw \in SUBSET Positions
      BY <1>0, <1>6, CallTypes DEF CountLines
    <2>2. Newest(c) \in Nat \cup {Null}
      BY <1>6, <2>1, NewestOfFresh DEF CountLines
    <2>3. \A n \in 0 .. Many : More(n) \in 0 .. Many
      BY DEF More, Many
    <2>4. counted' \in [Positions -> 0 .. Many]
      BY <1>0, <1>6, <2>3 DEF CountLines, LogTypeOK
    <2>5. Fresh(c) \subseteq Positions
      BY <2>1 DEF Fresh
    <2>6. seen' \in SUBSET Positions
      BY <1>6, <2>1, <2>5 DEF CountLines, NewestKeys
    <2>7. lastTs' \in Nat \cup {Null} /\ start' \in Nat \cup {Null}
      BY <1>0, <1>6, <2>1, <2>2 DEF CountLines, LogTypeOK
    <2>8. call' \in [Polls -> Copied \cup WithLines \cup {NoCall}]
      BY <1>0, <1>6 DEF CountLines, LogTypeOK
    <2>9. QED
      BY <1>0, <1>6, <2>4, <2>6, <2>7, <2>8 DEF CountLines, LogTypeOK, clock
  <1>7. CASE Restart
    <2>1. [i \in Positions |-> 0] \in [Positions -> 0 .. Many]
      BY DEF Many
    <2>2. [p \in Polls |-> NoCall] \in [Polls -> Copied \cup WithLines \cup {NoCall}]
      OBVIOUS
    <2>3. QED
      BY <1>0, <1>7, <2>1, <2>2 DEF Restart, LogTypeOK, clock
  <1>8. CASE UNCHANGED logVars
    BY <1>0, <1>8 DEF logVars, clock, tally, LogTypeOK
  <1>9. QED
    BY <1>1, <1>2, <1>3, <1>4, <1>5, <1>6, <1>7, <1>8 DEF LogNext

-----------------------------------------------------------------------------
(* The step that counts *)

\* What was counted stays counted, and what is fresh is counted.
LEMMA CountsGrow ==
  ASSUME IInv, NEW p \in Polls, CountLines(p), NEW i \in DOMAIN log
  PROVE  counted[i] > 0 \/ i \in Fresh(call[p]) => counted'[i] > 0
  <1>1. i \in Positions /\ counted[i] \in 0 .. Many
    BY LogTypes DEF IInv, LogTypeOK
  <1>2. counted'[i] = IF i \in Fresh(call[p]) THEN More(counted[i]) ELSE counted[i]
    BY <1>1 DEF CountLines
  <1>3. QED
    BY <1>1, <1>2 DEF More, Many

\* Those that go on from elsewhere skip nothing by it: fewer requests are due.
LEMMA GoesOnBeside ==
  ASSUME IInv, NEW p \in Polls, CountLines(p), NEW t, NEW s, GoesOn(t, s)
  PROVE  GoesOn(t, s)'
  <1>1. /\ log' = log /\ now' = now
        /\ start' = IF call[p].previous = Null /\ (start = Null \/ start < call[p].since)
                    THEN call[p].since ELSE start
    BY DEF CountLines, clock
  <1>2. call[p].since \in Nat /\ start \in Nat \cup {Null}
    BY CallTypes DEF IInv, CountLines, LogTypeOK
  <1>3. SeenAt(t, s)'
    BY <1>1 DEF GoesOn, SeenAt, AccessLines
  <1>4. ASSUME t # Null PROVE start' # Null /\ Kept(t, s)'
    <2>1. start \in Nat /\ start' \in Nat /\ start <= start'
      BY <1>1, <1>2, <1>4 DEF GoesOn
    <2>2. ASSUME NEW i \in DOMAIN log, Due(i)' PROVE Due(i)
      <3>1. log[i].at \in Nat
        BY LogTypes DEF IInv
      <3>2. QED
        BY <1>1, <2>1, <2>2, <3>1, AccessLogAssumption DEF Due, AccessLines
    <2>3. QED
      BY <1>1, <1>4, <2>1, <2>2, CountsGrow, AccessLogAssumption DEF GoesOn, Kept
  <1>5. QED
    BY <1>1, <1>3, <1>4 DEF GoesOn

\* And the next call goes on from where this one ended without a gap.
LEMMA CountGoesOn ==
  ASSUME IInv, NEW p \in Polls, CountLines(p)
  PROVE  GoesOn(lastTs, seen)'
  <1> DEFINE c == call[p]
  <1>1. /\ log' = log /\ now' = now
        /\ start' = IF c.previous = Null /\ (start = Null \/ start < c.since)
                    THEN c.since ELSE start
        /\ lastTs' = IF Newest(c) = Null THEN c.since ELSE Newest(c)
        /\ seen' = NewestKeys(c)
        /\ c.pc = "read"
    BY DEF CountLines, clock
  <1>2. /\ c.since \in Nat /\ start \in Nat \cup {Null} /\ c.previous \in Nat \cup {Null}
        /\ c # NoCall /\ Null \notin Nat /\ now \in Nat
    BY <1>1, CallTypes, AccessLogAssumption DEF IInv, LogTypeOK
  <1>3. /\ c.since <= now
        /\ c.previous # Null => c.since = c.previous
        /\ GoesOn(c.previous, c.seen)
    BY <1>2 DEF IInv, NoGap, CallFits
  <1>4. /\ Fresh(c) \subseteq AccessLines
        /\ Fresh(c) = {} => Newest(c) = c.previous
        /\ Fresh(c) # {} => Newest(c) \in Nat /\ Newest(c) <= now
    BY <1>1, NewestOfFresh
  <1>5. start' \in Nat /\ (c.previous = Null => c.since <= start')
    BY <1>1, <1>2, <1>3 DEF GoesOn
  <1>6. lastTs' \in Nat /\ lastTs' <= now
    <2>1. CASE Fresh(c) # {}
      BY <1>1, <1>2, <1>4, <2>1
    <2>2. CASE Fresh(c) = {}
      BY <1>1, <1>2, <1>3, <1>4, <2>2
    <2>3. QED
      BY <2>1, <2>2
  <1>7. SeenAt(lastTs, seen)'
    <2> SUFFICES ASSUME NEW i \in seen'
                 PROVE  i \in AccessLines /\ log[i].at = lastTs'
      BY <1>1, <1>2, <1>6 DEF SeenAt, AccessLines
    <2>1. CASE i \in Fresh(c) /\ log[i].at = Newest(c)
      BY <1>1, <1>2, <1>4, <2>1
    <2>2. CASE Newest(c) = c.previous /\ i \in c.seen
      BY <1>1, <1>3, <2>2 DEF GoesOn, SeenAt
    <2>3. QED
      BY <1>1, <2>1, <2>2 DEF NewestKeys
  <1>8. Kept(lastTs, seen)'
    <2> SUFFICES ASSUME NEW i \in DOMAIN log, Due(i)', log[i].at < lastTs' \/ i \in seen'
                 PROVE  counted'[i] > 0
      BY <1>1 DEF Kept
    <2>1. i \in AccessLines /\ log[i].at >= start' /\ log[i].at \in Nat
      BY <1>1, LogTypes DEF Due, AccessLines, IInv
    <2>2. ASSUME c.previous # Null, log[i].at < c.previous \/ i \in c.seen
          PROVE counted'[i] > 0
      <3>1. start' = start /\ start # Null
        BY <1>1, <1>3, <2>2 DEF GoesOn
      <3>2. Due(i)
        BY <2>1, <3>1 DEF Due
      <3>3. counted[i] > 0
        BY <1>3, <2>2, <3>2 DEF GoesOn, Kept
      <3>4. QED
        BY <3>3, CountsGrow
    <2>3. CASE log[i].at < lastTs'
      <3>1. CASE c.previous # Null /\ log[i].at < c.previous
        BY <2>2, <3>1
      <3>2. CASE ~ (c.previous # Null /\ log[i].at < c.previous)
        <4>1. log[i].at >= c.since
          BY <1>2, <1>3, <1>5, <2>1, <3>2
        <4>2. Fresh(c) # {}
          BY <1>1, <1>2, <1>3, <1>4, <2>1, <2>3, <4>1
        <4>3. log[i].at < Newest(c)
          BY <1>1, <1>2, <1>4, <2>3, <4>2
        <4>4. i \in Fresh(c) \/ (i \in c.seen /\ c.previous # Null)
          BY <1>1, <2>1, <4>1, <4>2, <4>3, BetweenIsFresh
        <4>5. QED
          BY <2>2, <4>4, CountsGrow
      <3>3. QED
        BY <3>1, <3>2
    <2>4. CASE i \in seen'
      <3>1. i \in Fresh(c) \/ (i \in c.seen /\ Newest(c) = c.previous)
        BY <1>1, <2>4 DEF NewestKeys
      <3>2. i \in c.seen => c.previous # Null
        BY <1>3 DEF GoesOn, SeenAt
      <3>3. QED
        BY <2>2, <3>1, <3>2, CountsGrow
    <2>5. QED
      BY <2>3, <2>4
  <1>9. QED
    BY <1>1, <1>2, <1>5, <1>6, <1>7, <1>8 DEF GoesOn

-----------------------------------------------------------------------------
(* Every step leaves no gap *)

\* The fit of the calls that a step leaves as they are.
LEMMA OtherCallFits ==
  ASSUME IInv, NEW q \in Polls, call'[q] = call[q],
         \A t \in Nat \cup {Null} : \A s : GoesOn(t, s) => GoesOn(t, s)',
         now \in Nat, now' \in Nat, now <= now', log' = log
  PROVE  CallFits(call[q])'
  <1> DEFINE c == call[q]
  <1>1. CASE c = NoCall
    BY <1>1 DEF CallFits
  <1>2. CASE c # NoCall
    <2>1. /\ c.since \in Nat /\ c.previous \in Nat \cup {Null} /\ CallFits(c)
      BY <1>2, CallTypes DEF IInv, NoGap
    <2>2. GoesOn(c.previous, c.seen)'
      <3>1. ASSUME NEW t \in Nat \cup {Null}, NEW s, t = c.previous, s = c.seen
            PROVE  GoesOn(c.previous, c.seen)'
        <4>1. GoesOn(t, s)'
          BY <1>2, <2>1, <3>1 DEF CallFits
        <4>2. t = c.previous' /\ s = c.seen'
          BY <3>1
        <4>3. QED
          BY <4>1, <4>2 DEF GoesOn, SeenAt, Kept
      <3>2. QED
        BY <2>1, <3>1
    <2>3. c.since <= now'
      BY <1>2, <2>1 DEF CallFits
    <2>4. QED
      BY <1>2, <2>1, <2>2, <2>3 DEF CallFits, LinesSince
  <1>3. QED
    BY <1>1, <1>2

LEMMA NoGapStep ==
  ASSUME IInv, [LogNext]_logVars
  PROVE  NoGap'
  <1>0. /\ LogTypeOK /\ InOrder /\ GoesOn(lastTs, seen) /\ lastTs \in Nat \cup {Null}
        /\ now \in Nat /\ call \in [Polls -> Copied \cup WithLines \cup {NoCall}]
    BY DEF IInv, NoGap, LogTypeOK
  <1>1. InOrder'
    BY <1>0, InOrderStep
  <1>2. ASSUME NEW access \in BOOLEAN, WriteLine(access) PROVE NoGap'
    <2>1. ASSUME NEW t \in Nat \cup {Null}, NEW s, GoesOn(t, s) PROVE GoesOn(t, s)'
      BY <1>0, <1>2, <2>1, GoesOnWithLine
    <2>2. /\ lastTs' = lastTs /\ seen' = seen /\ call' = call /\ now' = now
          /\ log' = Append(log, [at |-> now, access |-> access])
      BY <1>2 DEF WriteLine, tally
    <2>3. /\ Len(log) \in Nat /\ DOMAIN log = 1 .. Len(log) /\ DOMAIN log' = 1 .. (Len(log) + 1)
          /\ \A i \in DOMAIN log : log'[i] = log[i]
      BY <1>0, <2>2, LogTypes
    <2>4. GoesOn(lastTs, seen)'
      BY <1>0, <2>1, <2>2 DEF GoesOn, SeenAt, Kept
    <2>5. ASSUME NEW q \in Polls, call[q] # NoCall PROVE CallFits(call[q])'
      <3> DEFINE c == call[q]
      <3>1. /\ c.since \in Nat /\ c.previous \in Nat \cup {Null}
        BY <1>0, <2>5, CallTypes
      <3>2. /\ c.since <= now
            /\ c.previous # Null => c.since = c.previous
            /\ GoesOn(c.previous, c.seen)
            /\ c.pc = "read" => /\ c.raw \subseteq DOMAIN log
                                /\ \A i \in LinesSince(c.since), j \in c.raw : i <= j => i \in c.raw
        BY <2>5 DEF IInv, NoGap, CallFits
      <3>3. ASSUME c.pc = "read", NEW i \in LinesSince(c.since)', NEW j \in c.raw, i <= j
            PROVE  i \in c.raw
        <4>1. j \in DOMAIN log /\ i \in DOMAIN log'
          BY <3>2, <3>3 DEF LinesSince
        <4>2. i \in DOMAIN log
          BY <2>3, <3>3, <4>1
        <4>3. i \in LinesSince(c.since)
          BY <2>2, <2>3, <3>3, <4>2 DEF LinesSince
        <4>4. QED
          BY <3>2, <3>3, <4>3
      <3>4. c.pc = "read" => c.raw \subseteq DOMAIN log'
        BY <2>3, <3>2
      <3>5. GoesOn(c.previous, c.seen)'
        <4>1. ASSUME NEW t \in Nat \cup {Null}, NEW s, t = c.previous, s = c.seen
              PROVE  GoesOn(c.previous, c.seen)'
          <5>1. GoesOn(t, s)'
            BY <2>1, <3>2, <4>1
          <5>2. t = c.previous' /\ s = c.seen'
            BY <2>2, <4>1
          <5>3. QED
            BY <5>1, <5>2 DEF GoesOn, SeenAt, Kept
        <4>2. QED
          BY <3>1, <4>1
      <3>6. QED
        BY <2>2, <3>2, <3>3, <3>4, <3>5 DEF CallFits
    <2>6. QED
      BY <1>1, <2>2, <2>4, <2>5 DEF NoGap, CallFits
  <1>3. ASSUME log' = log, counted' = counted, start' = start, now' \in Nat, now <= now',
               NEW t \in Nat \cup {Null}, NEW s, GoesOn(t, s)
        PROVE GoesOn(t, s)'
    BY <1>0, <1>3, GoesOnLater
  <1>4. ASSUME log' = log, now' \in Nat, now <= now',
               lastTs' = lastTs, seen' = seen, counted' = counted, start' = start,
               \A q \in Polls : call'[q] = call[q] \/ CallFits(call[q])'
        PROVE NoGap'
    <2>1. GoesOn(lastTs, seen)'
      BY <1>0, <1>3, <1>4 DEF GoesOn, SeenAt, Kept, Due, AccessLines
    <2>2. ASSUME NEW q \in Polls PROVE CallFits(call[q])'
      BY <1>0, <1>3, <1>4, OtherCallFits
    <2>3. QED
      BY <1>1, <2>1, <2>2 DEF NoGap
  <1>5. CASE Tick
    <2>1. now + 1 \in Nat /\ now <= now + 1
      BY <1>0
    <2>2. QED
      BY <1>4, <1>5, <2>1 DEF Tick, tally
  <1>6. ASSUME NEW p \in Polls, CopyLast(p) PROVE NoGap'
    <2> DEFINE c == [pc |-> "copied", since |-> Since, previous |-> lastTs, seen |-> seen]
    <2>1. call' = [call EXCEPT ![p] = c] /\ UNCHANGED <<clock, tally, start>>
      BY <1>6 DEF CopyLast
    <2>2. Since \in Nat /\ Since <= now /\ (lastTs # Null => Since = lastTs)
      BY <1>0, AccessLogAssumption DEF Since, GoesOn
    <2>3. call'[p] = c
      BY <1>0, <2>1
    <2>4. CallFits(call[p])'
      BY <1>0, <2>1, <2>2, <2>3 DEF CallFits, GoesOn, SeenAt, Kept, Due, AccessLines, clock, tally
    <2>5. \A q \in Polls : call'[q] = call[q] \/ CallFits(call[q])'
      BY <1>0, <2>1, <2>4
    <2>6. QED
      BY <1>0, <1>4, <2>1, <2>5 DEF clock, tally
  <1>7. ASSUME NEW p \in Polls, ReadLog(p) PROVE NoGap'
    <2> DEFINE c == call[p]
               d == [pc |-> "read", since |-> c.since, previous |-> c.previous,
                     seen |-> c.seen, raw |-> Raw(c.since)]
    <2>1. call' = [call EXCEPT ![p] = d] /\ UNCHANGED <<clock, tally, start>> /\ c.pc = "copied"
      BY <1>0, <1>7 DEF ReadLog
    <2>2. c # NoCall /\ c.since \in Nat
      BY <1>0, <2>1, CallTypes
    <2>3. /\ c.since <= now
          /\ c.previous # Null => c.since = c.previous
          /\ GoesOn(c.previous, c.seen)
      BY <2>2 DEF IInv, NoGap, CallFits
    <2>4. /\ Raw(c.since) \subseteq DOMAIN log
          /\ \A i \in LinesSince(c.since), j \in Raw(c.since) : i <= j => i \in Raw(c.since)
      BY <1>0, <2>2, RawHasNoGap DEF Raw, LinesSince
    <2>5. call'[p] = d
      BY <1>0, <2>1
    <2>6. CallFits(call[p])'
      BY <2>1, <2>3, <2>4, <2>5 DEF CallFits, GoesOn, SeenAt, Kept, Due, AccessLines, LinesSince, clock, tally
    <2>7. \A q \in Polls : call'[q] = call[q] \/ CallFits(call[q])'
      BY <1>0, <2>1, <2>6
    <2>8. QED
      BY <1>0, <1>4, <2>1, <2>7 DEF clock, tally
  <1>8. ASSUME NEW p \in Polls, CollectFails(p) PROVE NoGap'
    <2>1. \A q \in Polls : call'[q] = call[q] \/ call'[q] = NoCall
      BY <1>0, <1>8 DEF CollectFails
    <2>2. \A q \in Polls : call'[q] = call[q] \/ CallFits(call[q])'
      BY <2>1 DEF CallFits
    <2>3. QED
      BY <1>0, <1>4, <1>8, <2>2 DEF CollectFails, clock, tally
  <1>9. ASSUME NEW p \in Polls, CountLines(p) PROVE NoGap'
    <2>1. log' = log /\ now' = now /\ call' = [call EXCEPT ![p] = NoCall]
      BY <1>9 DEF CountLines, clock
    <2>2. GoesOn(lastTs, seen)'
      BY <1>9, CountGoesOn
    <2>3. ASSUME NEW q \in Polls PROVE CallFits(call[q])'
      <3>1. CASE q = p
        BY <1>0, <2>1, <3>1 DEF CallFits
      <3>2. CASE q # p
        <4>1. call'[q] = call[q]
          BY <1>0, <2>1, <3>2
        <4>2. QED
          BY <1>0, <1>9, <2>1, <4>1, GoesOnBeside, OtherCallFits
      <3>3. QED
        BY <3>1, <3>2
    <2>4. QED
      BY <1>1, <2>2, <2>3 DEF NoGap
  <1>10. CASE Restart
    BY <1>1, <1>10 DEF Restart, NoGap, GoesOn, SeenAt, CallFits
  <1>11. CASE UNCHANGED logVars
    BY <1>0, <1>4, <1>11 DEF logVars, clock, tally
  <1>12. QED
    BY <1>2, <1>5, <1>6, <1>7, <1>8, <1>9, <1>10, <1>11 DEF LogNext

-----------------------------------------------------------------------------
(* Every step counts once, without overlaps *)

LEMMA CountsOnce ==
  ASSUME IInv, NEW p \in Polls, CountLines(p)
  PROVE  NoRepetition'
  <1> DEFINE c == call[p]
  <1> SUFFICES ASSUME ~overlapped PROVE NoRepetition'
    BY DEF NoRepetition, CountLines
  <1>1. /\ log' = log /\ c.pc = "read" /\ call' = [call EXCEPT ![p] = NoCall]
        /\ lastTs' = IF Newest(c) = Null THEN c.since ELSE Newest(c)
        /\ seen' = NewestKeys(c)
        /\ counted' = [i \in Positions |-> IF i \in Fresh(c) THEN More(counted[i]) ELSE counted[i]]
    BY DEF CountLines, clock
  <1>2. /\ c.since \in Nat /\ c.previous \in Nat \cup {Null} /\ c # NoCall /\ Null \notin Nat
        /\ counted \in [Positions -> 0 .. Many]
        /\ call \in [Polls -> Copied \cup WithLines \cup {NoCall}]
    BY <1>1, CallTypes, AccessLogAssumption DEF IInv, LogTypeOK
  <1>3. /\ \A q \in Polls : call[q] # NoCall => p = q
        /\ c.previous = lastTs /\ c.seen = seen
        /\ \A i \in Positions : counted[i] <= 1
        /\ \A i \in Positions : counted[i] > 0 =>
             /\ lastTs # Null /\ i \in DOMAIN log
             /\ log[i].at < lastTs \/ i \in seen
    BY <1>2 DEF IInv, NoRepetition
  <1>4. /\ Fresh(c) \subseteq AccessLines
        /\ Fresh(c) = {} => Newest(c) = c.previous
        /\ Fresh(c) # {} =>
             /\ \A i \in Fresh(c) : log[i].at <= Newest(c)
             /\ Newest(c) \in Nat
             /\ c.previous # Null => c.previous <= Newest(c)
    BY <1>1, NewestOfFresh
  <1>5. \A q \in Polls : call'[q] = NoCall
    BY <1>1, <1>2, <1>3
  <1>6. ASSUME NEW i \in Fresh(c) PROVE i \in Positions /\ i \in DOMAIN log /\ log[i].at \in Nat /\ counted[i] = 0
    <2>1. i \in Positions /\ i \in DOMAIN log /\ log[i].at \in Nat
      BY <1>4, <1>6, LogTypes DEF IInv, AccessLines
    <2>2. c.previous # Null => log[i].at > c.previous \/ (log[i].at = c.previous /\ i \notin c.seen)
      BY <1>6 DEF Fresh, IsFresh
    <2>3. ~ (counted[i] > 0)
      <3>1. SUFFICES ASSUME counted[i] > 0 PROVE FALSE
        OBVIOUS
      <3>2. c.previous \in Nat /\ (log[i].at < c.previous \/ i \in c.seen)
        BY <1>2, <1>3, <2>1, <3>1
      <3>3. i \in c.seen
        BY <1>2, <2>1, <2>2, <3>2
      <3>4. log[i].at = c.previous
        BY <1>2, <3>3 DEF IInv, NoGap, CallFits, GoesOn, SeenAt
      <3>5. QED
        BY <1>2, <2>1, <2>2, <3>2, <3>3, <3>4
    <2>4. QED
      BY <1>2, <2>1, <2>3
  <1>7. ASSUME NEW i \in Positions PROVE counted'[i] <= 1
    <2>1. CASE i \in Fresh(c)
      BY <1>1, <1>6, <2>1 DEF More, Many
    <2>2. CASE i \notin Fresh(c)
      BY <1>1, <1>3, <2>2
    <2>3. QED
      BY <2>1, <2>2
  <1>8. ASSUME NEW i \in Positions, counted'[i] > 0
        PROVE  /\ lastTs' # Null /\ i \in DOMAIN log
               /\ log[i].at < lastTs' \/ i \in seen'
    <2>1. lastTs' # Null
      BY <1>1, <1>2
    <2>2. CASE i \in Fresh(c)
      <3>1. lastTs' = Newest(c) /\ Newest(c) \in Nat /\ log[i].at <= Newest(c)
        BY <1>1, <1>2, <1>4, <2>2
      <3>2. log[i].at = Newest(c) => i \in seen'
        BY <1>1, <2>2 DEF NewestKeys
      <3>3. QED
        BY <1>6, <2>1, <2>2, <3>1, <3>2
    <2>3. CASE i \notin Fresh(c)
      <3>1. counted[i] > 0
        BY <1>1, <1>8, <2>3
      <3>2. /\ c.previous \in Nat /\ i \in DOMAIN log
            /\ log[i].at < c.previous \/ i \in c.seen
        BY <1>2, <1>3, <3>1
      <3>3. log[i].at \in Nat
        BY <3>2, LogTypes DEF IInv
      <3>4. /\ Newest(c) \in Nat /\ c.previous <= Newest(c) /\ lastTs' = Newest(c)
        BY <1>1, <1>2, <1>4, <3>2
      <3>5. CASE Newest(c) = c.previous
        <4>1. i \in c.seen => i \in seen'
          BY <1>1, <3>5 DEF NewestKeys
        <4>2. QED
          BY <2>1, <3>2, <3>4, <3>5, <4>1
      <3>6. CASE Newest(c) # c.previous
        <4>1. i \in c.seen => log[i].at = c.previous
          BY <1>2 DEF IInv, NoGap, CallFits, GoesOn, SeenAt
        <4>2. log[i].at <= c.previous
          BY <3>2, <3>3, <4>1
        <4>3. log[i].at < Newest(c)
          BY <3>2, <3>3, <3>4, <3>6, <4>2
        <4>4. QED
          BY <2>1, <3>2, <3>4, <4>3
      <3>7. QED
        BY <3>5, <3>6
    <2>4. QED
      BY <2>2, <2>3
  <1>9. QED
    BY <1>1, <1>5, <1>7, <1>8 DEF NoRepetition

LEMMA NoRepetitionStep ==
  ASSUME IInv, [LogNext]_logVars
  PROVE  NoRepetition'
  <1>0. /\ LogTypeOK /\ NoRepetition
        /\ call \in [Polls -> Copied \cup WithLines \cup {NoCall}]
    BY DEF IInv, LogTypeOK
  <1>1. ASSUME NEW access \in BOOLEAN, WriteLine(access) PROVE NoRepetition'
    <2>1. UNCHANGED <<now, tally, call, overlapped>> /\ log' = Append(log, [at |-> now, access |-> access])
      BY <1>1 DEF WriteLine
    <2>2. \A i \in DOMAIN log : i \in DOMAIN log' /\ log'[i] = log[i]
      BY <1>0, <2>1, LogTypes
    <2>3. QED
      BY <1>0, <2>1, <2>2 DEF NoRepetition, tally
  <1>2. ASSUME log' = log, UNCHANGED tally, overlapped' = overlapped,
               \A q \in Polls : call'[q] = NoCall \/ call'[q] = call[q]
                               \/ /\ call[q] # NoCall
                                  /\ call'[q].previous = call[q].previous
                                  /\ call'[q].seen = call[q].seen
        PROVE  NoRepetition'
    <2>1. SUFFICES ASSUME ~overlapped PROVE NoRepetition'
      BY <1>2 DEF NoRepetition
    <2>2. ASSUME NEW q \in Polls, call'[q] # NoCall
          PROVE  /\ call[q] # NoCall /\ call'[q].previous = call[q].previous
                 /\ call'[q].seen = call[q].seen
      BY <1>2, <2>2
    <2>3. QED
      BY <1>0, <1>2, <2>1, <2>2 DEF NoRepetition, tally
  <1>3. CASE Tick
    BY <1>2, <1>3 DEF Tick
  <1>4. ASSUME NEW p \in Polls, CopyLast(p) PROVE NoRepetition'
    <2>1. SUFFICES ASSUME ~overlapped' PROVE NoRepetition'
      BY DEF NoRepetition
    <2>2. ~overlapped /\ \A q \in Polls : call[q] = NoCall
      BY <1>4, <2>1 DEF CopyLast
    <2>3. /\ call' = [call EXCEPT ![p] = [pc |-> "copied", since |-> Since, previous |-> lastTs, seen |-> seen]]
          /\ UNCHANGED <<clock, tally>>
      BY <1>4 DEF CopyLast
    <2>4. call'[p].previous = lastTs /\ call'[p].seen = seen /\ \A q \in Polls : q # p => call'[q] = NoCall
      BY <1>0, <2>2, <2>3
    <2>5. QED
      BY <1>0, <2>2, <2>3, <2>4 DEF NoRepetition, clock, tally
  <1>5. ASSUME NEW p \in Polls, ReadLog(p) PROVE NoRepetition'
    <2>1. /\ call[p] # NoCall
          /\ call' = [call EXCEPT ![p] =
               [pc |-> "read", since |-> call[p].since, previous |-> call[p].previous,
                seen |-> call[p].seen, raw |-> Raw(call[p].since)]]
      BY <1>0, <1>5, CallTypes DEF ReadLog
    <2>2. \A q \in Polls :
            \/ call'[q] = call[q]
            \/ /\ call[q] # NoCall
               /\ call'[q].previous = call[q].previous
               /\ call'[q].seen = call[q].seen
      BY <1>0, <2>1
    <2>3. QED
      BY <1>2, <1>5, <2>2 DEF ReadLog, clock
  <1>6. ASSUME NEW p \in Polls, CollectFails(p) PROVE NoRepetition'
    <2>1. \A q \in Polls : call'[q] = NoCall \/ call'[q] = call[q]
      BY <1>0, <1>6 DEF CollectFails
    <2>2. QED
      BY <1>2, <1>6, <2>1 DEF CollectFails, clock
  <1>7. ASSUME NEW p \in Polls, CountLines(p) PROVE NoRepetition'
    BY <1>7, CountsOnce
  <1>8. CASE Restart
    BY <1>8 DEF Restart, NoRepetition
  <1>9. CASE UNCHANGED logVars
    BY <1>2, <1>9 DEF logVars, clock, tally
  <1>10. QED
    BY <1>1, <1>3, <1>4, <1>5, <1>6, <1>7, <1>8, <1>9 DEF LogNext

-----------------------------------------------------------------------------
(* What follows *)

\* IInv holds in every state: whatever calls overlap, fail or time out.
THEOREM Inductive == LogSpec => []IInv
  <1>1. LogInit => IInv
    <2> SUFFICES ASSUME LogInit PROVE IInv
      OBVIOUS
    <2>1. LogTypeOK
      <3>1. /\ log \in Seq([at : Nat, access : BOOLEAN]) /\ Len(log) = 0
        BY DEF LogInit
      <3>2. [i \in Positions |-> 0] \in [Positions -> 0 .. Many]
        BY DEF Many
      <3>3. [p \in Polls |-> NoCall] \in [Polls -> Copied \cup WithLines \cup {NoCall}]
        OBVIOUS
      <3>4. MaxLog \in Nat /\ 0 <= MaxLog
        BY AccessLogAssumption
      <3>5. now \in Nat /\ Len(log) <= MaxLog
        BY <3>1, <3>4 DEF LogInit
      <3>6. QED
        BY <3>1, <3>2, <3>3, <3>5 DEF LogInit, LogTypeOK
    <2>2. DOMAIN log = {}
      BY DEF LogInit
    <2>3. QED
      BY <2>1, <2>2 DEF LogInit, IInv, NoGap, InOrder, GoesOn, SeenAt, CallFits, NoRepetition
  <1>2. IInv /\ [LogNext]_logVars => IInv'
    BY TypeStep, NoGapStep, NoRepetitionStep DEF IInv
  <1>3. QED
    BY <1>1, <1>2, PTL DEF LogSpec

\* Every reachable state of the collector is well typed.
THEOREM TypeCorrect == LogSpec => []LogTypeOK
  <1>1. IInv => LogTypeOK
    BY DEF IInv
  <1>2. QED
    BY <1>1, Inductive, PTL

\* No request is skipped, in whatever order overlapping calls set the time
\* the next one goes on from.
THEOREM NeverSkips == LogSpec => []NothingSkipped
  <1>1. IInv => NothingSkipped
    BY DEF IInv, NoGap, GoesOn, Kept, NothingSkipped
  <1>2. QED
    BY <1>1, Inductive, PTL

\* When calls follow each other, no request is counted twice, although the
\* last second is read again by every call.
THEOREM AlwaysCountsOnce == LogSpec => []CountedOnce
  <1>1. IInv => CountedOnce
    BY DEF IInv, NoRepetition, CountedOnce
  <1>2. QED
    BY <1>1, Inductive, PTL

\* The lines that are kept to be left out are always those at the time that
\* the next call goes on from.
THEOREM SeenAlwaysAtLast == LogSpec => []SeenIsAtLast
  <1>1. IInv => SeenIsAtLast
    BY DEF IInv, NoGap, GoesOn, SeenAt, SeenIsAtLast
  <1>2. QED
    BY <1>1, Inductive, PTL

=============================================================================
