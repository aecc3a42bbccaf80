---------------------------- MODULE SearchProofs ----------------------------
(***************************************************************************)
(* Proofs about Search, for any threads, articles, laws and parts, and any *)
(* numbers of candidates, results, seeds and commits.                      *)
(***************************************************************************)
EXTENDS Search, FiniteSetTheorems, SequenceTheorems, TLAPS

-----------------------------------------------------------------------------
(* The inductive invariant *)

Hits == Articles \X (0 .. MaxChanges) \X Parts
SearchState == [phase: Phases, hits: SUBSET Hits, ranked: Seq(Articles), peeked: BOOLEAN,
                related: SUBSET Articles, gone: SUBSET Articles, chosen: SUBSET Laws]

\* What a search has found so far is of laws that were selected since it
\* began, those selected now are among them, and no article is ranked twice.
Fits(s) ==
  /\ s.phase \notin {"idle", "done", "failed"} => selected \subseteq s.chosen
  /\ \A h \in s.hits : LawOf[h[1]] \in s.chosen
  /\ \A a \in ToSet(s.ranked) : LawOf[a] \in s.chosen
  /\ IsInjective(s.ranked)

IInv == TypeOK /\ \A t \in Threads : Fits(search[t])

-----------------------------------------------------------------------------
(* Sequences of articles *)

LEMMA MinOfTwo ==
  ASSUME NEW m \in Nat, NEW n \in Nat
  PROVE  Min({m, n}) \in Nat /\ Min({m, n}) <= n
  <1>1. \E x \in {m, n} : \A y \in {m, n} : x =< y
    OBVIOUS
  <1>2. Min({m, n}) \in {m, n} /\ \A y \in {m, n} : Min({m, n}) =< y
    BY <1>1 DEF Min
  <1>3. QED
    BY <1>2

\* An order of a set of articles names them all once.
LEMMA OrderOfSet ==
  ASSUME NEW S \in SUBSET Articles, NEW q \in SetToSeqs(S)
  PROVE  q \in Seq(Articles) /\ IsInjective(q) /\ ToSet(q) \subseteq S
  <1>1. Cardinality(S) \in Nat
    BY SearchAssumption, FS_Subset, FS_CardinalityType
  <1>2. q \in [1 .. Cardinality(S) -> S] /\ \A i, j \in 1 .. Cardinality(S) : i # j => q[i] # q[j]
    BY DEF SetToSeqs
  <1>3. q \in Seq(Articles)
    BY <1>1, <1>2
  <1>4. QED
    BY <1>2, <1>3 DEF IsInjective, ToSet

\* The first of a list without repetitions.
LEMMA FirstOf ==
  ASSUME NEW q \in Seq(Articles), IsInjective(q), NEW n \in Nat, n <= Len(q)
  PROVE  /\ SubSeq(q, 1, n) \in Seq(Articles) /\ IsInjective(SubSeq(q, 1, n))
         /\ ToSet(SubSeq(q, 1, n)) \subseteq ToSet(q)
  <1>1. /\ SubSeq(q, 1, n) \in Seq(Articles) /\ DOMAIN SubSeq(q, 1, n) = 1 .. n
        /\ \A i \in 1 .. n : SubSeq(q, 1, n)[i] = q[i]
    OBVIOUS
  <1>2. 1 .. n \subseteq DOMAIN q
    OBVIOUS
  <1>3. QED
    BY <1>1, <1>2 DEF IsInjective, ToSet

\* Two lists that have nothing in common, one after the other.
LEMMA OneAfterTheOther ==
  ASSUME NEW p \in Seq(Articles), NEW q \in Seq(Articles), IsInjective(p), IsInjective(q),
         ToSet(p) \cap ToSet(q) = {}
  PROVE  /\ p \o q \in Seq(Articles) /\ IsInjective(p \o q)
         /\ ToSet(p \o q) \subseteq ToSet(p) \cup ToSet(q)
  <1>1. /\ p \o q \in Seq(Articles) /\ Len(p) \in Nat /\ Len(q) \in Nat
        /\ DOMAIN p = 1 .. Len(p) /\ DOMAIN q = 1 .. Len(q)
        /\ DOMAIN (p \o q) = 1 .. (Len(p) + Len(q))
        /\ \A i \in 1 .. (Len(p) + Len(q)) :
             (p \o q)[i] = IF i <= Len(p) THEN p[i] ELSE q[i - Len(p)]
    OBVIOUS
  <1>2. ASSUME NEW i \in DOMAIN (p \o q)
        PROVE  \/ i \in DOMAIN p /\ (p \o q)[i] = p[i]
               \/ i - Len(p) \in DOMAIN q /\ (p \o q)[i] = q[i - Len(p)] /\ i > Len(p)
    BY <1>1
  <1>3. ASSUME NEW i \in DOMAIN (p \o q), NEW j \in DOMAIN (p \o q), (p \o q)[i] = (p \o q)[j]
        PROVE  i = j
    <2>1. CASE i \in DOMAIN p /\ j \in DOMAIN p
      BY <1>1, <1>3, <2>1 DEF IsInjective
    <2>2. CASE i \notin DOMAIN p /\ j \notin DOMAIN p
      <3>1. i - Len(p) = j - Len(p)
        BY <1>2, <1>3, <2>2 DEF IsInjective
      <3>2. QED
        BY <1>1, <3>1
    <2>3. CASE i \in DOMAIN p /\ j \notin DOMAIN p
      <3>1. (p \o q)[i] \in ToSet(p)
        BY <1>1, <2>3 DEF ToSet
      <3>2. (p \o q)[j] \in ToSet(q)
        BY <1>2, <2>3 DEF ToSet
      <3>3. QED
        BY <1>3, <3>1, <3>2
    <2>4. CASE i \notin DOMAIN p /\ j \in DOMAIN p
      <3>1. (p \o q)[j] \in ToSet(p)
        BY <1>1, <2>4 DEF ToSet
      <3>2. (p \o q)[i] \in ToSet(q)
        BY <1>2, <2>4 DEF ToSet
      <3>3. QED
        BY <1>3, <3>1, <3>2
    <2>5. QED
      BY <2>1, <2>2, <2>3, <2>4
  <1>4. ToSet(p \o q) \subseteq ToSet(p) \cup ToSet(q)
    BY <1>2 DEF ToSet
  <1>5. QED
    BY <1>1, <1>3, <1>4 DEF IsInjective

\* Nothing found is found rightly.
LEMMA IdleIsTyped == Idle \in SearchState
  <1>1. /\ <<>> \in Seq(Articles) /\ {} \in SUBSET Laws /\ {} \in SUBSET Hits
        /\ {} \in SUBSET Articles /\ "idle" \in Phases /\ FALSE \in BOOLEAN
    BY DEF Phases
  <1>2. ASSUME NEW h \in SUBSET Hits, NEW q \in Seq(Articles), NEW b \in BOOLEAN,
               NEW r \in SUBSET Articles, NEW g \in SUBSET Articles, NEW c \in SUBSET Laws
        PROVE  [phase |-> "idle", hits |-> h, ranked |-> q, peeked |-> b,
                related |-> r, gone |-> g, chosen |-> c] \in SearchState
    BY <1>1 DEF SearchState
  <1>3. QED
    BY <1>1, <1>2 DEF Idle

LEMMA IdleFits ==
  ASSUME NEW phase \in Phases, NEW S \in SUBSET Laws, selected \subseteq S
  PROVE  LET s == [Idle EXCEPT !.phase = phase, !.chosen = S]
         IN  s \in SearchState /\ Fits(s)
  <1> DEFINE s == [Idle EXCEPT !.phase = phase, !.chosen = S]
  <1>1. s.phase = phase /\ s.hits = {} /\ s.ranked = <<>> /\ s.chosen = S
    BY DEF Idle
  <1>2. s \in SearchState
    BY IdleIsTyped DEF SearchState
  <1>3. ToSet(<<>>) = {} /\ IsInjective(<<>>)
    BY DEF ToSet, IsInjective
  <1>4. Fits(s)
    BY <1>1, <1>3 DEF Fits
  <1>5. QED
    BY <1>2, <1>4

-----------------------------------------------------------------------------
(* Steps of a search *)

\* What is known of a search before its step.
LEMMA Here ==
  ASSUME IInv, NEW t \in Threads
  PROVE  /\ search[t] \in SearchState /\ Fits(search[t])
         /\ populated \in {"unknown", "yes", "no"} /\ {up, recent} \subseteq BOOLEAN
         /\ selected \subseteq Laws /\ nodes \subseteq Articles /\ chunks \subseteq Hits
  BY DEF IInv, TypeOK, SearchState, Hits

\* A search that goes on in a fitting state leaves the others as they are.
LEMMA GoesFitting ==
  ASSUME IInv, NEW t \in Threads, NEW s \in SearchState, Goes(t, s), Fits(s),
         populated' \in {"unknown", "yes", "no"}, recent' \in BOOLEAN
  PROVE  IInv'
  <1>1. /\ search \in [Threads -> SearchState]
        /\ search' = [search EXCEPT ![t] = s]
        /\ UNCHANGED <<chunks, selected, nodes, up, changes>>
    BY DEF IInv, TypeOK, SearchState, Hits, Goes, world
  <1>2. search' \in [Threads -> SearchState]
    BY <1>1
  <1>3. TypeOK'
    BY <1>1, <1>2 DEF IInv, TypeOK, SearchState, Hits
  <1>4. ASSUME NEW u \in Threads PROVE Fits(search[u])'
    <2>1. search'[u] = IF u = t THEN s ELSE search[u]
      BY <1>1
    <2>2. Fits(search'[u])
      BY <2>1 DEF IInv
    <2>3. QED
      BY <1>1, <2>2 DEF Fits
  <1>5. QED
    BY <1>3, <1>4 DEF IInv

\* The same when the step leaves the cache alone.
LEMMA GoesOnFitting ==
  ASSUME IInv, NEW t \in Threads, NEW s \in SearchState, Goes(t, s), Fits(s), UNCHANGED cache
  PROVE  IInv'
  <1>1. populated' \in {"unknown", "yes", "no"} /\ recent' \in BOOLEAN
    BY Here DEF cache
  <1>2. QED
    BY <1>1, GoesFitting

\* What a search that ends hands over.
LEMMA EndsFitting ==
  ASSUME IInv, NEW t \in Threads
  PROVE  Ends(t) \in SearchState /\ Fits(Ends(t))
  <1>1. search[t] \in SearchState /\ Fits(search[t])
    BY Here
  <1>2. /\ Ends(t).phase = "done" /\ Ends(t).hits = {} /\ Ends(t).ranked = search[t].ranked
        /\ Ends(t).chosen = search[t].chosen
    BY DEF Ends, Idle
  <1>3. Ends(t) \in SearchState
    BY <1>1, IdleIsTyped DEF SearchState, Phases, Ends
  <1>4. QED
    BY <1>1, <1>2, <1>3 DEF Fits

\* A search that has begun goes on in another phase without finding more.
LEMMA NextPhaseFits ==
  ASSUME IInv, NEW t \in Threads, Busy(t), NEW s \in SearchState,
         s.hits \subseteq search[t].hits, s.ranked = search[t].ranked, s.chosen = search[t].chosen
  PROVE  Fits(s)
  BY Here DEF Fits, Busy

LEMMA BeginStep ==
  ASSUME IInv, NEW t \in Threads, Begin(t)
  PROVE  IInv'
  <1> DEFINE s == [Idle EXCEPT !.phase = "begun", !.chosen = selected]
  <1>1. s \in SearchState /\ Fits(s)
    <2>1. selected \in SUBSET Laws /\ "begun" \in Phases
      BY Here DEF Phases
    <2>2. QED
      BY <2>1, IdleFits
  <1>2. Goes(t, s) /\ UNCHANGED cache
    BY DEF Begin
  <1> HIDE DEF s
  <1>3. QED
    BY <1>1, <1>2, GoesOnFitting

\* The laws of the statement are those that are selected at its time.
LEMMA VectorCandidatesStep ==
  ASSUME IInv, NEW t \in Threads, VectorCandidates(t)
  PROVE  IInv'
  <1> DEFINE near == {c \in chunks : LawOf[c[1]] \in selected}
             n == Min({CandidatePool, Cardinality(near)})
             s(hits) == [search[t] EXCEPT !.phase = "hits", !.hits = hits]
  <1>1. PICK hits \in kSubset(n, near) :
          Goes(t, IF hits = {} THEN Ends(t) ELSE s(hits))
    BY DEF VectorCandidates
  <1>2. hits \subseteq near
    BY DEF kSubset
  <1>3. search[t] \in SearchState /\ Fits(search[t]) /\ search[t].phase = "begun"
    BY Here DEF VectorCandidates, In
  <1>4. s(hits) \in SearchState
    BY <1>2, <1>3, Here DEF SearchState, Phases
  <1>5. Fits(s(hits))
    <2>1. /\ s(hits).phase = "hits" /\ s(hits).hits = hits
          /\ s(hits).ranked = search[t].ranked /\ s(hits).chosen = search[t].chosen
      BY <1>3 DEF SearchState
    <2>2. selected \subseteq search[t].chosen
      BY <1>3 DEF Fits
    <2>3. \A h \in hits : LawOf[h[1]] \in search[t].chosen
      BY <1>2, <2>2
    <2>4. QED
      BY <1>3, <2>1, <2>2, <2>3 DEF Fits
  <1>6. UNCHANGED cache
    BY DEF VectorCandidates
  <1> HIDE DEF s, near, n
  <1>7. CASE hits = {}
    BY <1>1, <1>6, <1>7, EndsFitting, GoesOnFitting
  <1>8. CASE hits # {}
    BY <1>1, <1>4, <1>5, <1>6, <1>8, GoesOnFitting
  <1>9. QED
    BY <1>7, <1>8

LEMMA LoadChunksStep ==
  ASSUME IInv, NEW t \in Threads, LoadChunks(t)
  PROVE  IInv'
  <1> DEFINE s == [search[t] EXCEPT !.phase = "loaded", !.hits = @ \cap chunks]
  <1>1. search[t] \in SearchState /\ Busy(t)
    BY Here DEF LoadChunks, In, Busy
  <1>2. s \in SearchState
    BY <1>1 DEF SearchState, Phases
  <1>3. s.hits \subseteq search[t].hits /\ s.ranked = search[t].ranked /\ s.chosen = search[t].chosen
    BY <1>1 DEF SearchState
  <1>4. Goes(t, s) /\ UNCHANGED cache
    BY DEF LoadChunks
  <1> HIDE DEF s
  <1>5. QED
    BY <1>1, <1>2, <1>3, <1>4, NextPhaseFits, GoesOnFitting

\* What is kept is the beginning of an order of the articles of the chunks.
LEMMA RankStep ==
  ASSUME IInv, NEW t \in Threads, Rank(t)
  PROVE  IInv'
  <1> DEFINE top(order) == SubSeq(order, 1, Min({TopK, Len(order)}))
             failed == [Idle EXCEPT !.phase = "failed"]
             s(order) == [search[t] EXCEPT !.phase = "ranked", !.hits = {}, !.gone = {},
                                           !.ranked = top(order)]
  <1>1. PICK order \in BestByArticle(search[t].hits) :
          Goes(t, IF ToSet(top(order)) \cap search[t].gone # {} THEN failed
                  ELSE IF top(order) = <<>> THEN Ends(t) ELSE s(order))
    BY DEF Rank
  <1>2. search[t] \in SearchState /\ Fits(search[t]) /\ search[t].phase = "loaded"
    BY Here DEF Rank, In
  <1>3. {c[1] : c \in search[t].hits} \in SUBSET Articles
    BY <1>2 DEF SearchState, Hits
  <1>4. order \in Seq(Articles) /\ IsInjective(order) /\ ToSet(order) \subseteq {c[1] : c \in search[t].hits}
    BY <1>1, <1>3, OrderOfSet DEF BestByArticle
  <1>5. Min({TopK, Len(order)}) \in Nat /\ Min({TopK, Len(order)}) <= Len(order)
    <2>1. TopK \in Nat /\ Len(order) \in Nat
      BY <1>4, SearchAssumption
    <2>2. QED
      BY <2>1, MinOfTwo
  <1>6. /\ top(order) \in Seq(Articles) /\ IsInjective(top(order))
        /\ ToSet(top(order)) \subseteq ToSet(order)
    BY <1>4, <1>5, FirstOf
  <1>7. \A a \in ToSet(top(order)) : LawOf[a] \in search[t].chosen
    BY <1>2, <1>4, <1>6 DEF Fits
  <1>8. s(order) \in SearchState /\ Fits(s(order))
    <2> HIDE DEF top
    <2>1. s(order) \in SearchState
      BY <1>2, <1>6 DEF SearchState, Phases
    <2>2. /\ s(order).phase = "ranked" /\ s(order).hits = {}
          /\ s(order).ranked = top(order) /\ s(order).chosen = search[t].chosen
      BY <1>2 DEF SearchState
    <2>3. QED
      BY <1>2, <1>6, <1>7, <2>1, <2>2 DEF Fits
  <1>9. failed \in SearchState /\ Fits(failed)
    <2>1. failed \in SearchState
      BY IdleIsTyped DEF SearchState, Phases
    <2>2. failed.phase = "failed" /\ failed.hits = {} /\ failed.ranked = <<>>
      BY DEF Idle
    <2>3. ToSet(<<>>) = {} /\ IsInjective(<<>>)
      BY DEF ToSet, IsInjective
    <2>4. QED
      BY <2>1, <2>2, <2>3 DEF Fits
  <1>10. UNCHANGED cache
    BY DEF Rank
  <1> HIDE DEF s, top, failed
  <1>11. CASE ToSet(top(order)) \cap search[t].gone # {}
    BY <1>1, <1>9, <1>10, <1>11, GoesOnFitting
  <1>12. CASE ToSet(top(order)) \cap search[t].gone = {} /\ top(order) = <<>>
    BY <1>1, <1>10, <1>12, EndsFitting, GoesOnFitting
  <1>13. CASE ToSet(top(order)) \cap search[t].gone = {} /\ top(order) # <<>>
    BY <1>1, <1>8, <1>10, <1>13, GoesOnFitting
  <1>14. QED
    BY <1>11, <1>12, <1>13

\* Steps that only change the phase and what Neo4j said.
LEMMA AskCacheStep ==
  ASSUME IInv, NEW t \in Threads, AskCache(t)
  PROVE  IInv'
  <1> DEFINE s(phase) == [search[t] EXCEPT !.phase = phase]
  <1>1. search[t] \in SearchState /\ Busy(t)
    BY Here DEF AskCache, In, Busy
  <1>2. ASSUME NEW phase \in {"expand", "peek"}
        PROVE  s(phase) \in SearchState /\ Fits(s(phase))
    <2>1. s(phase) \in SearchState
      BY <1>1 DEF SearchState, Phases
    <2>2. /\ s(phase).hits = search[t].hits /\ s(phase).ranked = search[t].ranked
          /\ s(phase).chosen = search[t].chosen
      BY <1>1 DEF SearchState
    <2> HIDE DEF s
    <2>3. QED
      BY <1>1, <2>1, <2>2, NextPhaseFits
  <1>3. /\ UNCHANGED cache
        /\ Goes(t, IF populated = "yes" THEN s("expand")
                   ELSE IF MustLook THEN s("peek") ELSE Ends(t))
    BY DEF AskCache
  <1> HIDE DEF s
  <1>4. CASE populated = "yes"
    BY <1>2, <1>3, <1>4, GoesOnFitting
  <1>5. CASE populated # "yes" /\ MustLook
    BY <1>2, <1>3, <1>5, GoesOnFitting
  <1>6. CASE populated # "yes" /\ ~MustLook
    BY <1>3, <1>6, EndsFitting, GoesOnFitting
  <1>7. QED
    BY <1>4, <1>5, <1>6

LEMMA PeekStep ==
  ASSUME IInv, NEW t \in Threads, Peek(t)
  PROVE  IInv'
  <1> DEFINE there == up /\ nodes # {}
             s == [search[t] EXCEPT !.phase = "note", !.peeked = there]
  <1>1. search[t] \in SearchState /\ Busy(t)
    BY Here DEF Peek, In, Busy
  <1>2. there \in BOOLEAN
    BY Here
  <1>3. s.hits \subseteq search[t].hits /\ s.ranked = search[t].ranked /\ s.chosen = search[t].chosen
    BY <1>1 DEF SearchState
  <1>4. Goes(t, s) /\ UNCHANGED cache
    BY DEF Peek
  <1>5. s \in SearchState
    <2> HIDE DEF there
    <2>1. QED
      BY <1>1, <1>2 DEF SearchState, Phases
  <1> HIDE DEF s
  <1>6. QED
    BY <1>1, <1>3, <1>4, <1>5, NextPhaseFits, GoesOnFitting

LEMMA NoteStep ==
  ASSUME IInv, NEW t \in Threads, Note(t)
  PROVE  IInv'
  <1> DEFINE s == [search[t] EXCEPT !.phase = "expand", !.peeked = FALSE]
  <1>1. search[t] \in SearchState /\ Busy(t)
    BY Here DEF Note, In, Busy
  <1>2. s \in SearchState
    <2>1. FALSE \in BOOLEAN /\ "expand" \in Phases
      BY DEF Phases
    <2>2. ASSUME NEW b \in BOOLEAN
          PROVE  [search[t] EXCEPT !.phase = "expand", !.peeked = b] \in SearchState
      BY <1>1, <2>1 DEF SearchState
    <2>3. QED
      BY <2>1, <2>2
  <1>3. s.hits \subseteq search[t].hits /\ s.ranked = search[t].ranked /\ s.chosen = search[t].chosen
    BY <1>1 DEF SearchState
  <1>4. /\ populated' \in {"unknown", "yes", "no"} /\ recent' \in BOOLEAN
        /\ Goes(t, IF search[t].peeked THEN s ELSE Ends(t))
    BY DEF Note
  <1> HIDE DEF s
  <1>5. CASE search[t].peeked
    BY <1>1, <1>2, <1>3, <1>4, <1>5, NextPhaseFits, GoesFitting
  <1>6. CASE ~search[t].peeked
    BY <1>4, <1>6, EndsFitting, GoesFitting
  <1>7. QED
    BY <1>5, <1>6

LEMMA ExpandStep ==
  ASSUME IInv, NEW t \in Threads, Expand(t)
  PROVE  IInv'
  <1> DEFINE seeds == ToSet(SubSeq(search[t].ranked, 1, Min({SeedCount, Len(search[t].ranked)})))
             near == IF seeds \cap nodes = {} THEN {}
                     ELSE {a \in nodes : \E x \in seeds \cap nodes : x # a}
             s(S) == [search[t] EXCEPT !.phase = "related", !.related = S]
  <1>1. search[t] \in SearchState /\ Busy(t)
    BY Here DEF Expand, In, Busy
  <1>2. near \subseteq Articles
    BY Here
  <1>3. PICK S \in IF up THEN SUBSET near ELSE {{}} : Goes(t, IF S = {} THEN Ends(t) ELSE s(S))
    BY DEF Expand
  <1>4. S \in SUBSET Articles
    BY <1>2, <1>3
  <1>5. s(S) \in SearchState
    BY <1>1, <1>4 DEF SearchState, Phases
  <1>6. /\ s(S).hits = search[t].hits /\ s(S).ranked = search[t].ranked
        /\ s(S).chosen = search[t].chosen
    BY <1>1 DEF SearchState
  <1>7. UNCHANGED cache
    BY DEF Expand
  <1> HIDE DEF s
  <1>8. CASE S = {}
    BY <1>3, <1>7, <1>8, EndsFitting, GoesOnFitting
  <1>9. CASE S # {}
    BY <1>1, <1>3, <1>5, <1>6, <1>7, <1>9, NextPhaseFits, GoesOnFitting
  <1>10. QED
    BY <1>8, <1>9

LEMMA ReadRelatedStep ==
  ASSUME IInv, NEW t \in Threads, ReadRelated(t)
  PROVE  IInv'
  <1> DEFINE s == [search[t] EXCEPT !.phase = "rows", !.related = @ \cap Stored]
  <1>1. search[t] \in SearchState /\ Busy(t)
    BY Here DEF ReadRelated, In, Busy
  <1>2. s \in SearchState
    BY <1>1 DEF SearchState, Phases
  <1>3. s.hits \subseteq search[t].hits /\ s.ranked = search[t].ranked /\ s.chosen = search[t].chosen
    BY <1>1 DEF SearchState
  <1>4. Goes(t, s) /\ UNCHANGED cache
    BY DEF ReadRelated
  <1> HIDE DEF s
  <1>5. QED
    BY <1>1, <1>2, <1>3, <1>4, NextPhaseFits, GoesOnFitting

\* What the graph adds is of laws that are selected, and not found before.
LEMMA FinishStep ==
  ASSUME IInv, NEW t \in Threads, Finish(t)
  PROVE  IInv'
  <1> DEFINE s(extra) == [Ends(t) EXCEPT !.ranked = @ \o extra]
  <1>1. PICK extra \in SetToSeqs(Extra(t)) : Goes(t, s(extra))
    BY DEF Finish
  <1>2. search[t] \in SearchState /\ Fits(search[t]) /\ search[t].phase = "rows"
    BY Here DEF Finish, In
  <1>3. Extra(t) \in SUBSET Articles
    BY <1>2 DEF Extra, SearchState
  <1>4. extra \in Seq(Articles) /\ IsInjective(extra) /\ ToSet(extra) \subseteq Extra(t)
    BY <1>1, <1>3, OrderOfSet
  <1>5. search[t].ranked \in Seq(Articles) /\ IsInjective(search[t].ranked)
    BY <1>2 DEF SearchState, Fits
  <1>6. ToSet(search[t].ranked) \cap ToSet(extra) = {}
    BY <1>4 DEF Extra
  <1>7. /\ search[t].ranked \o extra \in Seq(Articles) /\ IsInjective(search[t].ranked \o extra)
        /\ ToSet(search[t].ranked \o extra) \subseteq ToSet(search[t].ranked) \cup ToSet(extra)
    BY <1>4, <1>5, <1>6, OneAfterTheOther
  <1>8. \A a \in ToSet(search[t].ranked \o extra) : LawOf[a] \in search[t].chosen
    <2>1. \A a \in ToSet(search[t].ranked) : LawOf[a] \in search[t].chosen
      BY <1>2 DEF Fits
    <2>2. \A a \in ToSet(extra) : LawOf[a] \in search[t].chosen
      BY <1>2, <1>4 DEF Extra, Fits
    <2>3. QED
      BY <1>7, <2>1, <2>2
  <1>9. Ends(t) \in SearchState
    BY EndsFitting
  <1>10. /\ Ends(t).phase = "done" /\ Ends(t).hits = {} /\ Ends(t).ranked = search[t].ranked
         /\ Ends(t).chosen = search[t].chosen
    BY DEF Ends, Idle
  <1>11. s(extra) \in SearchState
    BY <1>7, <1>9, <1>10 DEF SearchState
  <1>12. /\ s(extra).phase = "done" /\ s(extra).hits = {} /\ s(extra).chosen = search[t].chosen
         /\ s(extra).ranked = search[t].ranked \o extra
    BY <1>9, <1>10 DEF SearchState
  <1>13. Fits(s(extra))
    <2> HIDE DEF s
    <2>1. QED
      BY <1>7, <1>8, <1>12 DEF Fits
  <1>14. UNCHANGED cache
    BY DEF Finish
  <1> HIDE DEF s
  <1>15. QED
    BY <1>1, <1>11, <1>13, <1>14, GoesOnFitting

-----------------------------------------------------------------------------
(* What happens beside the searches *)

\* Searches that are left alone stay fitting as long as the choice does.
LEMMA LeftAlone ==
  ASSUME IInv, TypeOK', UNCHANGED <<search, selected>>
  PROVE  IInv'
  BY DEF IInv, Fits

LEMMA CollectStep ==
  ASSUME IInv, NEW l \in Laws, Collect(l)
  PROVE  IInv'
  <1>1. PICK S \in SUBSET {a \in Articles : LawOf[a] = l} :
          chunks' = {c \in chunks : c[1] \notin S} \cup UNION {ChunksOf(a, changes + 1) : a \in S}
    BY DEF Collect
  <1>2. changes + 1 \in 0 .. MaxChanges /\ changes' = changes + 1
    BY SearchAssumption DEF Collect, IInv, TypeOK
  <1>3. \A a \in S : ChunksOf(a, changes + 1) \subseteq Hits
    BY <1>2 DEF ChunksOf, Hits
  <1>4. chunks' \subseteq Hits
    BY <1>1, <1>3, Here DEF IInv, TypeOK, Hits
  <1>5. TypeOK'
    BY <1>2, <1>4 DEF Collect, cache, IInv, TypeOK, Hits
  <1>6. QED
    BY <1>5, LeftAlone DEF Collect

\* Loaded chunks may lose their rows; what is found stays as it was.
LEMMA RepealStep ==
  ASSUME IInv, NEW l \in Laws, Repeal(l)
  PROVE  IInv'
  <1> DEFINE lost == {a \in Stored : LawOf[a] = l}
             s(t) == [search[t] EXCEPT !.gone = @ \cup lost]
  <1>1. /\ search' = [t \in Threads |-> IF In(t, "loaded") THEN s(t) ELSE search[t]]
        /\ chunks' \subseteq chunks
        /\ changes < MaxChanges /\ changes' = changes + 1
        /\ UNCHANGED <<selected, nodes, up, populated, recent>>
    BY DEF Repeal, cache
  <1>2. lost \subseteq Articles
    BY DEF Stored, IInv, TypeOK
  <1>3. ASSUME NEW t \in Threads
        PROVE  s(t) \in SearchState /\ Fits(s(t))
    <2>1. search[t] \in SearchState /\ Fits(search[t])
      BY <1>3, Here
    <2>2. s(t) \in SearchState
      BY <1>2, <2>1 DEF SearchState
    <2>3. /\ s(t).phase = search[t].phase /\ s(t).hits = search[t].hits
          /\ s(t).ranked = search[t].ranked /\ s(t).chosen = search[t].chosen
      BY <2>1 DEF SearchState
    <2>4. QED
      BY <2>1, <2>2, <2>3 DEF Fits
  <1> HIDE DEF s
  <1>4. ASSUME NEW t \in Threads
        PROVE  search'[t] \in SearchState /\ Fits(search'[t])
    BY <1>1, <1>3, Here
  <1>5. search' \in [Threads -> SearchState]
    BY <1>1, <1>4
  <1>6. TypeOK'
    BY <1>1, <1>5, SearchAssumption DEF IInv, TypeOK, SearchState, Hits
  <1>7. QED
    BY <1>1, <1>4, <1>6 DEF IInv, Fits

\* The new choice joins those that the searches under way may serve.
LEMMA ChooseStep ==
  ASSUME IInv, NEW S \in SUBSET Laws, Choose(S)
  PROVE  IInv'
  <1> DEFINE s(t) == [search[t] EXCEPT !.chosen = @ \cup S]
  <1>1. /\ search' = [t \in Threads |-> IF Busy(t) THEN s(t) ELSE search[t]]
        /\ selected' = S
        /\ changes < MaxChanges /\ changes' = changes + 1
        /\ UNCHANGED <<chunks, nodes, up, populated, recent>>
    BY DEF Choose, cache
  <1>2. ASSUME NEW t \in Threads
        PROVE  /\ s(t) \in SearchState
               /\ s(t).hits = search[t].hits /\ s(t).ranked = search[t].ranked
               /\ s(t).chosen = search[t].chosen \cup S
    BY <1>2, Here DEF SearchState
  <1> HIDE DEF s
  <1>3. ASSUME NEW t \in Threads
        PROVE  search'[t] \in SearchState /\ Fits(search[t])'
    <2>1. search[t] \in SearchState /\ Fits(search[t])
      BY <1>3, Here
    <2>2. CASE Busy(t)
      BY <1>1, <1>2, <2>1, <2>2 DEF Fits
    <2>3. CASE ~Busy(t)
      BY <1>1, <2>1, <2>3 DEF Fits, Busy
    <2>4. QED
      BY <2>2, <2>3
  <1>4. search' \in [Threads -> SearchState]
    BY <1>1, <1>3
  <1>5. TypeOK'
    BY <1>1, <1>4, SearchAssumption DEF IInv, TypeOK, SearchState, Hits
  <1>6. QED
    BY <1>3, <1>5 DEF IInv

LEMMA BesideStep ==
  ASSUME IInv, (\E a \in Articles : AddNode(a)) \/ Neo4jSwitches \/ RecheckIsDue
  PROVE  IInv'
  <1>1. TypeOK' /\ UNCHANGED <<search, selected>>
    <2>1. CASE \E a \in Articles : AddNode(a)
      BY <2>1 DEF AddNode, cache, IInv, TypeOK
    <2>2. CASE Neo4jSwitches
      BY <2>2 DEF Neo4jSwitches, cache, IInv, TypeOK
    <2>3. CASE RecheckIsDue
      BY <2>3 DEF RecheckIsDue, world, IInv, TypeOK
    <2>4. QED
      BY <2>1, <2>2, <2>3
  <1>2. QED
    BY <1>1, LeftAlone

LEMMA InitFits == Init => IInv
  <1> SUFFICES ASSUME Init PROVE IInv
    OBVIOUS
  <1>1. search = [t \in Threads |-> Idle] /\ changes = 0 /\ 0 \in 0 .. MaxChanges
    BY SearchAssumption DEF Init
  <1>2. search \in [Threads -> SearchState]
    BY <1>1, IdleIsTyped
  <1>3. chunks \subseteq Hits
    <2>1. \A a \in Articles : ChunksOf(a, 0) \subseteq Hits
      BY <1>1 DEF ChunksOf, Hits
    <2>2. QED
      BY <2>1 DEF Init
  <1>4. TypeOK
    BY <1>1, <1>2, <1>3 DEF Init, TypeOK, SearchState, Hits
  <1>5. ASSUME NEW t \in Threads PROVE Fits(search[t])
    <2>1. Idle.phase = "idle" /\ Idle.hits = {} /\ Idle.ranked = <<>>
      BY DEF Idle
    <2>2. ToSet(<<>>) = {} /\ IsInjective(<<>>)
      BY DEF ToSet, IsInjective
    <2>3. QED
      BY <1>1, <2>1, <2>2 DEF Fits
  <1>6. QED
    BY <1>4, <1>5 DEF IInv

LEMMA Preserved == IInv /\ [Next]_vars => IInv'
  <1> SUFFICES ASSUME IInv, [Next]_vars PROVE IInv'
    OBVIOUS
  <1>1. CASE \E t \in Threads : Begin(t)
    BY <1>1, BeginStep
  <1>2. CASE \E t \in Threads : Step(t)
    BY <1>2, VectorCandidatesStep, LoadChunksStep, RankStep, AskCacheStep, PeekStep, NoteStep,
       ExpandStep, ReadRelatedStep, FinishStep DEF Step
  <1>3. CASE \E l \in Laws : Collect(l) \/ Repeal(l)
    BY <1>3, CollectStep, RepealStep
  <1>4. CASE \E S \in SUBSET Laws : Choose(S)
    BY <1>4, ChooseStep
  <1>5. CASE (\E a \in Articles : AddNode(a)) \/ Neo4jSwitches \/ RecheckIsDue
    BY <1>5, BesideStep
  <1>6. CASE UNCHANGED vars
    <2>1. TypeOK' /\ UNCHANGED <<search, selected>>
      BY <1>6 DEF vars, IInv, TypeOK
    <2>2. QED
      BY <2>1, LeftAlone
  <1>7. QED
    BY <1>1, <1>2, <1>3, <1>4, <1>5, <1>6 DEF Next

-----------------------------------------------------------------------------
(* What follows *)

\* IInv holds whatever the collector, the user and Neo4j do during a search.
THEOREM Inductive == Spec => []IInv
  BY InitFits, Preserved, PTL DEF Spec

\* Every reachable state of the searches is well typed.
THEOREM TypeCorrect == Spec => []TypeOK
  <1>1. IInv => TypeOK
    BY DEF IInv
  <1>2. QED
    BY <1>1, Inductive, PTL

\* A search returns articles of laws only that were selected while it ran,
\* whatever the graph contains.
THEOREM ResultsAlwaysChosen == Spec => []ResultsWereChosen
  <1>1. IInv => ResultsWereChosen
    BY DEF IInv, Fits, ResultsWereChosen
  <1>2. QED
    BY <1>1, Inductive, PTL

\* No result names an article twice.
THEOREM NeverTwice == Spec => []NoArticleTwice
  <1>1. IInv => NoArticleTwice
    BY DEF IInv, Fits, NoArticleTwice
  <1>2. QED
    BY <1>1, Inductive, PTL

=============================================================================
