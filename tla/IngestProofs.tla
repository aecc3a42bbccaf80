---------------------------- MODULE IngestProofs ----------------------------
(***************************************************************************)
(* Proofs about LawIngest and GraphIngest: the collector alone, then the   *)
(* graph command and the collector on the same rows.  For all laws,        *)
(* articles and texts, any length of a page and any number of versions.    *)
(***************************************************************************)
EXTENDS GraphIngest, TLAPS

-----------------------------------------------------------------------------
(* Lemmas about the operators *)

\* A law without articles, and a command that is not running, have their types.
LEMMA NoArticlesType == NoArticles \in Version
  BY DEF NoArticles, Version

LEMMA NoRunType == NoRun \in Run
  BY DEF NoRun, Run

\* A sequence with an element put in, or one taken out, is a sequence.
LEMMA InsertAtType ==
  ASSUME NEW S, NEW s \in Seq(S), NEW k \in 1..(Len(s) + 1), NEW e \in S
  PROVE  InsertAt(s, k, e) \in Seq(S)
  BY DEF InsertAt

LEMMA RemoveAtType ==
  ASSUME NEW S, NEW s \in Seq(S), NEW k \in DOMAIN s
  PROVE  RemoveAt(s, k) \in Seq(S)
  BY DEF RemoveAt

\* The text of a law that is listed is a published version.
LEMMA DetailType ==
  ASSUME TypeOK, NEW l \in Laws, run.list[l] # 0
  PROVE  run.list[l] \in DOMAIN published[l] /\ Detail(l) \in Version
  <1>1. published[l] \in Seq(Version) /\ run.list[l] \in Nat /\ run.list[l] <= Len(published[l])
    BY DEF TypeOK, Run
  <1>2. run.list[l] \in 1..Len(published[l])
    BY <1>1
  <1>3. QED
    BY <1>1, <1>2 DEF Detail

LEMMA OverlayType ==
  ASSUME NEW new \in Version, NEW old \in Version
  PROVE  Overlay(new, old) \in Version
  BY DEF Overlay, Version

\* After an amendment has been laid over the stored articles, each article
\* it has is stored as it has it.
LEMMA OverlayHasNew ==
  ASSUME NEW new \in Version, NEW old \in Version, NEW a \in ArticleNos
  PROVE  new[a] \in {Null, Overlay(new, old)[a]}
  BY DEF Overlay

\* The chunks of the articles that need it are replaced by their new texts:
\* chunks that matched the old articles match the new ones.
LEMMA EmbeddingMatches ==
  ASSUME NEW new \in Version, NEW old \in Version
  PROVE  [a \in ArticleNos |->
            IF a \in {b \in ArticleNos : NeedsEmbedding(old[b], new[b])} THEN new[a] ELSE old[a]]
         = Overlay(new, old)
  <1>1. ASSUME NEW a \in ArticleNos
        PROVE (IF a \in {b \in ArticleNos : NeedsEmbedding(old[b], new[b])} THEN new[a] ELSE old[a])
              = (IF new[a] # Null THEN new[a] ELSE old[a])
    BY DEF NeedsEmbedding
  <1>2. QED
    BY <1>1 DEF Overlay

-----------------------------------------------------------------------------
(* Type correctness *)

\* A run of the proper type leaves the rest of the types to the tables.
LEMMA RunType ==
  ASSUME TypeOK, UNCHANGED <<site, db>>, run' \in Run,
         run'.law = Null => run'.changed = {},
         \A l \in Laws : run'.list[l] <= Len(published[l])
  PROVE  TypeOK'
  BY DEF TypeOK, site, db

\* Every step keeps the types.
LEMMA TypeStep ==
  ASSUME TypeOK, VersionsExist, OpenLawFits, [Next]_lawVars
  PROVE  TypeOK'
  <1>0. run \in Run /\ published \in [Laws -> Seq(Version)]
    BY DEF TypeOK
  <1>1. ASSUME NEW l \in Laws, NEW v \in Version, Publish(l, v) PROVE TypeOK'
    <2>1. published' = [published EXCEPT ![l] = Append(@, v)] /\ UNCHANGED <<db, run>>
      BY <1>1 DEF Publish
    <2>2. published' \in [Laws -> Seq(Version)]
      BY <2>1, <1>0
    <2>3. ASSUME NEW x \in Laws PROVE run'.list[x] <= Len(published'[x])
      <3>1. published[x] \in Seq(Version) /\ run.list[x] \in Nat /\ run.list[x] <= Len(published[x])
        BY DEF TypeOK, Run
      <3>2. CASE x = l
        <4>1. Len(published'[x]) = Len(published[x]) + 1
          BY <2>1, <3>1, <3>2, <1>0
        <4>2. QED
          BY <4>1, <3>1, <2>1
      <3>3. CASE x # l
        BY <3>1, <3>3, <2>1, <1>0
      <3>4. QED
        BY <3>2, <3>3
    <2>4. listing' \in Seq(Laws)
      <3>1. CASE l \in ToSet(listing)
        BY <3>1, <1>1 DEF Publish, TypeOK
      <3>2. CASE l \notin ToSet(listing)
        <4>1. PICK k \in 1..(Len(listing) + 1) : listing' = InsertAt(listing, k, l)
          BY <3>2, <1>1 DEF Publish
        <4>2. QED
          BY <4>1, InsertAtType DEF TypeOK
      <3>3. QED
        BY <3>1, <3>2
    <2>5. QED
      BY <2>1, <2>2, <2>3, <2>4 DEF TypeOK, db
  <1>2. ASSUME NEW l \in Laws, Withdraw(l) PROVE TypeOK'
    <2>1. PICK k \in DOMAIN listing : listing' = RemoveAt(listing, k)
      BY <1>2 DEF Withdraw
    <2>2. listing' \in Seq(Laws)
      BY <2>1, RemoveAtType DEF TypeOK
    <2>3. QED
      BY <2>2, <1>2 DEF Withdraw, TypeOK, db
  <1>3. ASSUME NEW mode \in {"sync", "all"}, StartSync(mode) PROVE TypeOK'
    <2>0. NoRun.changed = {} /\ NoRun.list = [l \in Laws |-> 0]
      BY DEF NoRun
    <2>1. run' \in Run /\ run'.changed = {} /\ \A l \in Laws : run'.list[l] = 0
      BY <1>3, <2>0, NoRunType DEF StartSync, Run
    <2>2. QED
      BY <2>1, <1>3, <1>0, RunType DEF StartSync
  <1>4. ASSUME NEW l \in Laws, StartNamed(l) PROVE TypeOK'
    <2>1. Len(published[l]) \in Nat
      BY <1>0
    <2>2. run' \in Run /\ run'.changed = {}
      <3>1. NoRun.changed = {}
        BY DEF NoRun
      <3>2. QED
        BY <1>4, <2>1, <3>1, NoRunType DEF StartNamed, Run
    <2>3. \A x \in Laws : run'.list[x] = IF x = l THEN Len(published[x]) ELSE 0
      BY <1>4 DEF StartNamed, NoRun
    <2>4. \A x \in Laws : run'.list[x] <= Len(published[x])
      BY <2>3, <1>0
    <2>5. QED
      BY <2>2, <2>4, <1>4, RunType DEF StartNamed
  <1>5. CASE FetchPage
    <2> DEFINE entries == {listing[k] : k \in Page(run.page)}
               list == [l \in Laws |-> IF l \in entries THEN Len(published[l]) ELSE run.list[l]]
    <2>1. \A l \in Laws : Len(published[l]) \in Nat /\ run.list[l] \in Nat /\ run.list[l] <= Len(published[l])
      BY <1>0 DEF TypeOK, Run
    <2>2. list \in [Laws -> Nat] /\ \A l \in Laws : list[l] <= Len(published[l])
      BY <2>1
    <2> HIDE DEF list
    <2>3. /\ run'.list = list
          /\ run'.law = run.law /\ run'.changed = run.changed
          /\ UNCHANGED <<site, db>>
      BY <1>5, <1>0 DEF FetchPage, Run, list
    <2>4. run' \in Run
      <3>1. PICK page, phase : run' = [run EXCEPT !.list = list, !.page = page, !.phase = phase]
                               /\ page \in {run.page, run.page + 1} /\ phase \in {run.phase, "compare"}
        BY <1>5, <1>0 DEF FetchPage, Run, list
      <3>2. page \in Nat \ {0} /\ phase \in {"list", "compare", "laws"}
        BY <3>1, <1>0 DEF Run
      <3>3. QED
        BY <3>1, <3>2, <2>2, <1>0 DEF Run
    <2>5. QED
      BY <2>2, <2>3, <2>4, RunType DEF TypeOK
  <1>6. CASE Compare
    <2>1. run' = [run EXCEPT !.phase = "laws", !.todo = ToProcess] /\ UNCHANGED <<site, db>>
      BY <1>6 DEF Compare
    <2>2. ToProcess \subseteq Laws
      BY DEF ToProcess
    <2>3. run' \in Run /\ run'.law = run.law /\ run'.changed = run.changed /\ run'.list = run.list
      BY <2>1, <2>2, <1>0 DEF Run
    <2>4. QED
      BY <2>1, <2>3, RunType DEF TypeOK
  <1>7. ASSUME NEW l \in Laws, UpsertLaw(l) PROVE TypeOK'
    <2> DEFINE c == {a \in ArticleNos : NeedsEmbedding(articles[l][a], Detail(l)[a])}
    <2>1. run' = [run EXCEPT !.law = l, !.changed = c] /\ UNCHANGED <<site, db>>
      BY <1>7 DEF UpsertLaw
    <2>2. c \subseteq ArticleNos
      OBVIOUS
    <2> HIDE DEF c
    <2>3. run' \in Run /\ run'.law # Null /\ run'.list = run.list
      BY <2>1, <2>2, <1>0, NoRowAssumption DEF Run
    <2>4. QED
      BY <2>1, <2>3, RunType DEF TypeOK
  <1>8. CASE StoreLaw
    <2> DEFINE l == run.law
    <2>0. l \in Laws /\ run.list[l] \in Nat
      BY <1>8, <1>0 DEF StoreLaw, Run
    <2>1. run.list[l] \in Nat \ {0}
      BY <1>8, <2>0 DEF StoreLaw, OpenLawFits, VersionsExist
    <2>2. Detail(l) \in Version /\ articles[l] \in Version /\ chunks[l] \in Version
      BY <2>0, <2>1, DetailType DEF TypeOK
    <2>3. laws' \in [Laws -> LawRow \cup {Null}]
      BY <1>8, <2>0, <2>1 DEF StoreLaw, TypeOK, LawRow
    <2>4. articles' \in [Laws -> Version]
      <3>1. Overlay(Detail(l), articles[l]) \in Version
        BY <2>2, OverlayType
      <3>2. QED
        BY <1>8, <2>0, <3>1 DEF StoreLaw, TypeOK
    <2>5. chunks' \in [Laws -> Version]
      <3> DEFINE new == [a \in ArticleNos |-> IF a \in run.changed THEN Detail(l)[a] ELSE chunks[l][a]]
      <3>1. new \in Version
        BY <2>2 DEF Version
      <3>2. chunks' = [chunks EXCEPT ![l] = new]
        BY <1>8, <2>0 DEF StoreLaw, TypeOK
      <3> HIDE DEF new
      <3>3. QED
        BY <3>1, <3>2, <2>0 DEF TypeOK
    <2>6. run' \in Run /\ run'.changed = {} /\ run'.list = run.list
      BY <1>8, <1>0 DEF StoreLaw, Run
    <2>7. marked' \subseteq marked /\ UNCHANGED site
      BY <1>8 DEF StoreLaw
    <2>8. QED
      BY <2>3, <2>4, <2>5, <2>6, <2>7 DEF TypeOK, site
  <1>9. ASSUME NEW l \in Laws, LawFails(l) PROVE TypeOK'
    <2>1. run' \in Run /\ run'.law = Null /\ run'.changed = {} /\ run'.list = run.list
      BY <1>9, <1>0 DEF LawFails, Run
    <2>2. QED
      BY <2>1, <1>9, RunType DEF LawFails, TypeOK
  <1>10. CASE RepealMissing
    <2>1. laws' \in [Laws -> LawRow \cup {Null}]
      BY <1>10, NoRowAssumption DEF RepealMissing, TypeOK, LawRow, Stale
    <2>2. articles' \in [Laws -> Version] /\ chunks' \in [Laws -> Version]
      BY <1>10, NoArticlesType DEF RepealMissing, TypeOK
    <2>3. marked' \subseteq marked /\ UNCHANGED site /\ run' = NoRun
      BY <1>10 DEF RepealMissing
    <2>4. QED
      BY <2>1, <2>2, <2>3, <1>0, NoRunType DEF TypeOK, NoRun, site
  <1>11. CASE EndNamed \/ Abort
    <2>1. run' = NoRun /\ UNCHANGED <<site, db>>
      BY <1>11 DEF EndNamed, Abort
    <2>2. NoRun.changed = {} /\ \A l \in Laws : NoRun.list[l] = 0
      BY DEF NoRun
    <2>3. QED
      BY <2>1, <2>2, <1>0, NoRunType, RunType
  <1>12. CASE UNCHANGED lawVars
    BY <1>12 DEF lawVars, TypeOK
  <1>13. QED
    BY <1>1, <1>2, <1>3, <1>4, <1>5, <1>6, <1>7, <1>8, <1>9, <1>10, <1>11, <1>12 DEF Next

\* An amendment leaves the versions published before it as they were.
LEMMA PublishKeeps ==
  ASSUME TypeOK, NEW l \in Laws, NEW v \in Version, Publish(l, v), NEW x \in Laws
  PROVE  /\ Len(published[x]) <= Len(published'[x])
         /\ x = l => Len(published'[x]) # 0
         /\ \A k \in 1..Len(published[x]) : published'[x][k] = published[x][k]
  <1>1. published' = [published EXCEPT ![l] = Append(@, v)]
    BY DEF Publish
  <1>2. published \in [Laws -> Seq(Version)] /\ published[x] \in Seq(Version)
    BY DEF TypeOK
  <1>3. CASE x = l
    <2>1. published'[x] = Append(published[x], v)
      BY <1>1, <1>2, <1>3
    <2>2. QED
      BY <1>2, <2>1
  <1>4. CASE x # l
    BY <1>1, <1>2, <1>4
  <1>5. QED
    BY <1>3, <1>4

\* A sequence with an element put in has no other new element.
LEMMA InsertAtValues ==
  ASSUME NEW S, NEW s \in Seq(S), NEW k \in 1..(Len(s) + 1), NEW e \in S,
         NEW j \in DOMAIN InsertAt(s, k, e)
  PROVE  InsertAt(s, k, e)[j] = e \/ \E i \in DOMAIN s : InsertAt(s, k, e)[j] = s[i]
  <1> DEFINE left == SubSeq(s, 1, k - 1)
             right == SubSeq(s, k, Len(s))
             head == left \o <<e>>
  <1>1. left \in Seq(S) /\ Len(left) = k - 1 /\ \A i \in 1..(k - 1) : left[i] = s[i]
    OBVIOUS
  <1>2. right \in Seq(S) /\ Len(right) = Len(s) - k + 1
        /\ \A i \in 1..(Len(s) - k + 1) : right[i] = s[k + i - 1]
    OBVIOUS
  <1>3. InsertAt(s, k, e) = head \o right
    BY DEF InsertAt
  <1> HIDE DEF left, right
  <1>4. head \in Seq(S) /\ Len(head) = k /\ head[k] = e /\ \A i \in 1..(k - 1) : head[i] = s[i]
    BY <1>1
  <1> HIDE DEF head
  <1>5. j \in 1..(Len(s) + 1)
    BY <1>2, <1>3, <1>4
  <1>6. CASE j <= k
    BY <1>2, <1>3, <1>4, <1>5, <1>6
  <1>7. CASE j > k
    <2>1. (head \o right)[j] = right[j - k]
      BY <1>2, <1>4, <1>5, <1>7
    <2>2. right[j - k] = s[j - 1] /\ j - 1 \in DOMAIN s
      BY <1>2, <1>5, <1>7
    <2>3. QED
      BY <1>3, <2>1, <2>2
  <1>8. QED
    BY <1>5, <1>6, <1>7

\* A sequence with an element taken out has no new elements.
LEMMA RemoveAtValues ==
  ASSUME NEW S, NEW s \in Seq(S), NEW k \in DOMAIN s, NEW j \in DOMAIN RemoveAt(s, k)
  PROVE  \E i \in DOMAIN s : RemoveAt(s, k)[j] = s[i]
  <1> DEFINE left == SubSeq(s, 1, k - 1)
             right == SubSeq(s, k + 1, Len(s))
  <1>0. k \in 1..Len(s) /\ Len(s) \in Nat /\ DOMAIN s = 1..Len(s)
    OBVIOUS
  <1>1. left \in Seq(S) /\ Len(left) = k - 1 /\ \A i \in 1..(k - 1) : left[i] = s[i]
    OBVIOUS
  <1>2. right \in Seq(S) /\ Len(right) = Len(s) - k
        /\ \A i \in 1..(Len(s) - k) : right[i] = s[k + i]
    OBVIOUS
  <1>3. RemoveAt(s, k) = left \o right
    BY DEF RemoveAt
  <1> HIDE DEF left, right
  <1>4. j \in 1..(Len(s) - 1)
    BY <1>1, <1>2, <1>3
  <1>5. CASE j < k
    <2>1. j \in 1..Len(left) /\ j \in 1..(k - 1) /\ j \in DOMAIN s
      BY <1>0, <1>1, <1>4, <1>5
    <2>2. (left \o right)[j] = left[j]
      BY <1>1, <1>2, <2>1
    <2>3. QED
      BY <1>1, <1>3, <2>1, <2>2
  <1>6. CASE j >= k
    <2>1. j \in (Len(left) + 1)..(Len(left) + Len(right)) /\ Len(left) = k - 1
      BY <1>1, <1>2, <1>4, <1>6
    <2>2. (left \o right)[j] = right[j - Len(left)]
      BY <1>1, <1>2, <2>1
    <2>3. j - Len(left) \in 1..(Len(s) - k) /\ k + (j - Len(left)) = j + 1 /\ j + 1 \in DOMAIN s
      BY <1>0, <1>4, <1>6, <2>1
    <2>4. right[j - Len(left)] = s[j + 1]
      BY <1>2, <2>3
    <2>5. QED
      BY <1>3, <2>2, <2>3, <2>4
  <1>7. QED
    BY <1>4, <1>5, <1>6

-----------------------------------------------------------------------------
(* What is known of a run in the middle *)

\* Nothing that was published is taken back, and the list only offers what was.
LEMMA VersionsStep ==
  ASSUME IInv, [Next]_lawVars, TypeOK'
  PROVE  VersionsExist'
  <1> USE DEF IInv
  <1>0. run \in Run /\ published \in [Laws -> Seq(Version)] /\ listing \in Seq(Laws)
    BY DEF TypeOK
  <1>1. ASSUME NEW l \in Laws, NEW v \in Version, Publish(l, v) PROVE VersionsExist'
    <2>1. ASSUME NEW x \in Laws, published[x] # <<>> PROVE published'[x] # <<>>
      <3>1. Len(published[x]) \in Nat \ {0} /\ published'[x] \in Seq(Version)
        BY <2>1, <1>0 DEF TypeOK
      <3>2. Len(published[x]) <= Len(published'[x])
        BY <1>1, PublishKeeps
      <3>3. QED
        BY <3>1, <3>2
    <2>2. published'[l] # <<>>
      BY <1>1, PublishKeeps
    <2>3. ASSUME NEW j \in DOMAIN listing' PROVE published'[listing'[j]] # <<>>
      <3>1. CASE listing' = listing
        BY <3>1, <2>1, <2>3, <1>0 DEF VersionsExist
      <3>2. CASE \E k \in 1..(Len(listing) + 1) : listing' = InsertAt(listing, k, l)
        <4>1. listing'[j] = l \/ \E i \in DOMAIN listing : listing'[j] = listing[i]
          BY <3>2, <2>3, <1>0, InsertAtValues
        <4>2. QED
          BY <4>1, <2>1, <2>2, <1>0 DEF VersionsExist
      <3>3. QED
        BY <3>1, <3>2, <1>1 DEF Publish
    <2>4. ASSUME NEW x \in Laws, laws'[x] # Null PROVE laws'[x].mst <= Len(published'[x])
      <3>1. Len(published[x]) <= Len(published'[x])
        BY <1>1, PublishKeeps
      <3>2. laws[x] \in LawRow /\ laws[x].mst <= Len(published[x]) /\ laws'[x] = laws[x]
        BY <1>1, <2>4 DEF Publish, db, TypeOK, VersionsExist
      <3>3. Len(published[x]) \in Nat /\ Len(published'[x]) \in Nat /\ laws[x].mst \in Nat
        BY <3>2, <1>0 DEF TypeOK, LawRow
      <3>4. QED
        BY <3>1, <3>2, <3>3
    <2>5. \A x \in run'.todo : run'.list[x] # 0
      BY <1>1 DEF Publish, VersionsExist
    <2>6. QED
      BY <2>3, <2>4, <2>5 DEF VersionsExist
  <1>2. ASSUME NEW l \in Laws, Withdraw(l) PROVE VersionsExist'
    <2>1. PICK k \in DOMAIN listing : listing' = RemoveAt(listing, k)
      BY <1>2 DEF Withdraw
    <2>2. \A j \in DOMAIN listing' : \E i \in DOMAIN listing : listing'[j] = listing[i]
      BY <2>1, <1>0, RemoveAtValues
    <2>3. QED
      BY <2>2, <1>2 DEF Withdraw, VersionsExist, db
  \* The steps of the command change neither the list nor what is published.
  <1> DEFINE Rest == /\ \A x \in Laws : laws'[x] # Null => laws'[x].mst <= Len(published[x])
                     /\ \A x \in run'.todo : run'.list[x] # 0
  <1>3. ASSUME UNCHANGED site, Rest PROVE VersionsExist'
    BY <1>3 DEF VersionsExist, site
  <1>4. ASSUME UNCHANGED <<site, db>>, \A x \in run'.todo : run'.list[x] # 0 PROVE VersionsExist'
    BY <1>4, <1>3 DEF VersionsExist, db
  <1>5. ASSUME NEW mode \in {"sync", "all"}, StartSync(mode) PROVE VersionsExist'
    <2>1. NoRun.todo = {}
      BY DEF NoRun
    <2>2. run'.todo = {}
      BY <1>5, <2>1, NoRunType DEF StartSync, Run
    <2>3. QED
      BY <2>2, <1>4, <1>5 DEF StartSync
  <1>6. ASSUME NEW l \in Laws, StartNamed(l) PROVE VersionsExist'
    <2>1. NoRun.list = [x \in Laws |-> 0]
      BY DEF NoRun
    <2>2. run'.todo = {l} /\ run'.list[l] = Len(published[l])
      BY <1>6, <2>1, NoRunType DEF StartNamed, Run
    <2>3. published[l] # <<>> /\ published[l] \in Seq(Version)
      BY <1>6, <1>0 DEF StartNamed, VersionsExist, ToSet
    <2>4. run'.list[l] # 0
      BY <2>2, <2>3
    <2>5. QED
      BY <2>2, <2>4, <1>4, <1>6 DEF StartNamed
  <1>7. CASE FetchPage
    <2>1. run'.todo = run.todo /\ run.todo = {}
      BY <1>7, <1>0 DEF FetchPage, ListComesFirst, Run
    <2>2. QED
      BY <2>1, <1>4, <1>7 DEF FetchPage
  <1>8. CASE Compare
    <2>1. run'.todo = ToProcess /\ run'.list = run.list
      BY <1>8, <1>0 DEF Compare, Run
    <2>2. \A x \in ToProcess : run.list[x] # 0
      BY DEF ToProcess
    <2>3. QED
      BY <2>1, <2>2, <1>4, <1>8 DEF Compare
  <1>9. ASSUME NEW l \in Laws, UpsertLaw(l) \/ LawFails(l) PROVE VersionsExist'
    <2>1. run'.todo \subseteq run.todo /\ run'.list = run.list
      BY <1>9, <1>0 DEF UpsertLaw, LawFails, Run
    <2>2. QED
      BY <2>1, <1>4, <1>9 DEF UpsertLaw, LawFails, VersionsExist
  <1>10. CASE StoreLaw
    <2> DEFINE l == run.law
    <2>1. l \in Laws /\ run'.todo \subseteq run.todo /\ run'.list = run.list
      BY <1>10, <1>0 DEF StoreLaw, Run
    <2>2. ASSUME NEW x \in Laws, laws'[x] # Null PROVE laws'[x].mst <= Len(published[x])
      <3>1. CASE x = l
        <4>1. laws'[x].mst = run.list[x]
          BY <1>10, <2>1, <3>1 DEF StoreLaw, TypeOK
        <4>2. QED
          BY <4>1 DEF TypeOK
      <3>2. CASE x # l
        BY <1>10, <2>1, <2>2, <3>2 DEF StoreLaw, TypeOK, VersionsExist
      <3>3. QED
        BY <3>1, <3>2
    <2>3. QED
      BY <2>1, <2>2, <1>3, <1>10 DEF StoreLaw, VersionsExist
  <1>11. CASE RepealMissing
    <2>1. ASSUME NEW x \in Laws, laws'[x] # Null PROVE laws'[x].mst <= Len(published[x])
      <3>1. laws[x] # Null
        BY <1>11, <2>1 DEF RepealMissing, Stale
      <3>2. laws[x] \in LawRow
        BY <3>1 DEF TypeOK
      <3>3. laws'[x].mst = laws[x].mst
        BY <1>11, <3>2 DEF RepealMissing, LawRow
      <3>4. QED
        BY <3>1, <3>3 DEF VersionsExist
    <2>2. NoRun.todo = {}
      BY DEF NoRun
    <2>3. QED
      BY <2>1, <2>2, <1>3, <1>11 DEF RepealMissing
  <1>12. CASE EndNamed \/ Abort
    <2>1. NoRun.todo = {}
      BY DEF NoRun
    <2>2. QED
      BY <2>1, <1>4, <1>12 DEF EndNamed, Abort
  <1>13. CASE UNCHANGED lawVars
    BY <1>13 DEF lawVars, VersionsExist
  <1>14. QED
    BY <1>1, <1>2, <1>5, <1>6, <1>7, <1>8, <1>9, <1>10, <1>11, <1>12, <1>13 DEF Next

\* The list is read after what is stored was stored, and is dropped with the
\* run.
LEMMA ListIsNewerStep ==
  ASSUME TypeOK, VersionsExist, ListIsNewer, OpenLawFits, [Next]_lawVars
  PROVE  ListIsNewer'
  <1>0. /\ run \in Run /\ \A l \in Laws : NoRun.list[l] = 0
        /\ published \in [Laws -> Seq(Version)]
        /\ \A l \in Laws : laws[l] # Null => laws[l].mst <= Len(published[l])
    BY DEF TypeOK, NoRun, VersionsExist
  <1>1. ASSUME laws' = laws, run'.list = run.list PROVE ListIsNewer'
    BY <1>1 DEF ListIsNewer
  <1>2. ASSUME run' = NoRun PROVE ListIsNewer'
    BY <1>0, <1>2 DEF ListIsNewer
  <1>3. ASSUME NEW l \in Laws, NEW v \in Version, Publish(l, v) PROVE ListIsNewer'
    BY <1>1, <1>3 DEF Publish, db
  <1>4. ASSUME NEW l \in Laws, Withdraw(l) PROVE ListIsNewer'
    BY <1>1, <1>4 DEF Withdraw, db
  <1>5. ASSUME NEW mode \in {"sync", "all"}, StartSync(mode) PROVE ListIsNewer'
    <2>1. run'.list = NoRun.list /\ laws' = laws
      BY <1>5, NoRunType DEF StartSync, Run, db
    <2>2. QED
      BY <1>0, <2>1 DEF ListIsNewer
  <1>6. ASSUME NEW l \in Laws, StartNamed(l) PROVE ListIsNewer'
    <2>1. /\ laws' = laws
          /\ \A x \in Laws : run'.list[x] = IF x = l THEN Len(published[x]) ELSE 0
      BY <1>6 DEF StartNamed, NoRun, db
    <2>2. QED
      BY <1>0, <2>1 DEF ListIsNewer
  <1>7. CASE FetchPage
    <2>1. laws' = laws
      BY <1>7 DEF FetchPage, db
    <2>2. \A x \in Laws : run'.list[x] \in {Len(published[x]), run.list[x]}
      BY <1>0, <1>7 DEF FetchPage, Run
    <2>3. QED
      BY <1>0, <2>1, <2>2 DEF ListIsNewer
  <1>8. CASE Compare
    BY <1>0, <1>1, <1>8 DEF Compare, Run, db
  <1>9. ASSUME NEW l \in Laws, UpsertLaw(l) \/ LawFails(l) PROVE ListIsNewer'
    BY <1>0, <1>1, <1>9 DEF UpsertLaw, LawFails, Run, db
  <1>10. CASE StoreLaw
    <2>1. run.law \in Laws /\ run'.list = run.list /\ run.list[run.law] \in Nat
      BY <1>0, <1>10 DEF StoreLaw, Run
    <2>2. \A x \in Laws : laws'[x] = IF x = run.law THEN [mst |-> run.list[x], repealed |-> FALSE]
                                    ELSE laws[x]
      BY <1>10, <2>1 DEF StoreLaw, TypeOK
    <2>3. laws'[run.law].mst = run.list[run.law] /\ run.list[run.law] <= run.list[run.law]
      <3>1. laws'[run.law] = [mst |-> run.list[run.law], repealed |-> FALSE]
        BY <2>1, <2>2, Zenon
      <3>2. laws'[run.law].mst = run.list[run.law]
        BY <3>1
      <3>3. QED
        BY <2>1, <3>2
    <2>4. \A x \in Laws : x # run.law => laws'[x] = laws[x]
      BY <2>2
    <2>5. ASSUME NEW x \in Laws, run'.list[x] # 0, laws'[x] # Null
          PROVE  laws'[x].mst <= run'.list[x]
      <3>1. CASE x = run.law
        BY <2>1, <2>3, <3>1
      <3>2. CASE x # run.law
        <4>1. laws'[x] = laws[x] /\ run'.list[x] = run.list[x]
          BY <2>1, <2>4, <3>2
        <4>2. QED
          BY <2>5, <4>1 DEF ListIsNewer
      <3>3. QED
        BY <3>1, <3>2
    <2>6. QED
      BY <2>5 DEF ListIsNewer
  <1>11. CASE RepealMissing \/ EndNamed \/ Abort
    BY <1>2, <1>11 DEF RepealMissing, EndNamed, Abort
  <1>12. CASE UNCHANGED lawVars
    BY <1>1, <1>12 DEF lawVars
  <1>13. QED
    BY <1>3, <1>4, <1>5, <1>6, <1>7, <1>8, <1>9, <1>10, <1>11, <1>12 DEF Next

\* A run has nothing to collect before it has compared the list.
LEMMA ListComesFirstStep ==
  ASSUME TypeOK, ListComesFirst, [Next]_lawVars
  PROVE  ListComesFirst'
  <1>0. run \in Run /\ NoRun.todo = {} /\ NoRun.law = Null
    BY DEF TypeOK, NoRun
  <1>1. ASSUME NEW l \in Laws, NEW v \in Version, Publish(l, v) PROVE ListComesFirst'
    BY <1>1 DEF Publish, ListComesFirst
  <1>2. ASSUME NEW l \in Laws, Withdraw(l) PROVE ListComesFirst'
    BY <1>2 DEF Withdraw, ListComesFirst
  <1>3. ASSUME NEW mode \in {"sync", "all"}, StartSync(mode) PROVE ListComesFirst'
    BY <1>0, <1>3, NoRunType DEF StartSync, ListComesFirst, Run
  <1>4. ASSUME NEW l \in Laws, StartNamed(l) PROVE ListComesFirst'
    BY <1>4, NoRunType DEF StartNamed, ListComesFirst, Run
  <1>5. CASE FetchPage
    <2>1. run'.todo = run.todo /\ run'.law = run.law /\ run.phase = "list"
      BY <1>0, <1>5 DEF FetchPage, Run
    <2>2. QED
      BY <2>1 DEF ListComesFirst
  <1>6. CASE Compare \/ StoreLaw
    <2>1. run.law \in Laws => run.law # Null
      BY NoRowAssumption
    <2>2. run'.phase = "laws"
      BY <1>0, <1>6, <2>1 DEF Compare, StoreLaw, ListComesFirst, Run
    <2>3. QED
      BY <2>2 DEF ListComesFirst
  <1>7. ASSUME NEW l \in Laws, UpsertLaw(l) \/ LawFails(l) PROVE ListComesFirst'
    <2>1. run'.phase = "laws"
      BY <1>0, <1>7 DEF UpsertLaw, LawFails, Run
    <2>2. QED
      BY <2>1 DEF ListComesFirst
  <1>8. CASE RepealMissing \/ EndNamed \/ Abort
    BY <1>0, <1>8 DEF RepealMissing, EndNamed, Abort, ListComesFirst
  <1>9. CASE UNCHANGED lawVars
    BY <1>9 DEF lawVars, ListComesFirst
  <1>10. QED
    BY <1>1, <1>2, <1>3, <1>4, <1>5, <1>6, <1>7, <1>8, <1>9 DEF Next

\* Amendments between reading and storing a law leave its open transaction
\* alone: what the site has for an MST does not change.
LEMMA OpenLawStep ==
  ASSUME IInv, [Next]_lawVars
  PROVE  OpenLawFits'
  <1> USE DEF IInv
  <1>0. run \in Run /\ NoRun.law = Null
    BY DEF TypeOK, NoRun
  <1>1. ASSUME run'.law = Null PROVE OpenLawFits'
    BY <1>1 DEF OpenLawFits
  <1>2. ASSUME NEW l \in Laws, NEW v \in Version, Publish(l, v), run.law # Null PROVE OpenLawFits'
    <2> DEFINE x == run.law
    <2>1. x \in Laws /\ x \in run.todo /\ run.list[x] # 0
      BY <1>0, <1>2 DEF OpenLawFits, VersionsExist, Run
    <2>2. run.list[x] \in 1..Len(published[x])
      BY <2>1, DetailType DEF TypeOK
    <2>3. Detail(x)' = Detail(x)
      <3>1. published'[x][run.list[x]] = published[x][run.list[x]]
        BY <1>2, <2>1, <2>2, PublishKeeps
      <3>2. QED
        BY <1>2, <3>1 DEF Detail, Publish
    <2>4. articles' = articles /\ run' = run
      BY <1>2 DEF Publish, db
    <2> HIDE DEF x
    <2>5. run.changed = {a \in ArticleNos : NeedsEmbedding(articles[x][a], Detail(x)[a])}
      BY <1>2 DEF OpenLawFits, x
    <2>6. QED
      BY <2>1, <2>3, <2>4, <2>5 DEF OpenLawFits, x
  <1>3. ASSUME NEW l \in Laws, NEW v \in Version, Publish(l, v), run.law = Null PROVE OpenLawFits'
    BY <1>1, <1>3 DEF Publish
  <1>4. ASSUME NEW l \in Laws, Withdraw(l) PROVE OpenLawFits'
    BY <1>4 DEF Withdraw, OpenLawFits, Detail, db
  <1>5. ASSUME NEW mode \in {"sync", "all"}, StartSync(mode) PROVE OpenLawFits'
    BY <1>0, <1>1, <1>5, NoRunType DEF StartSync, Run
  <1>6. ASSUME NEW l \in Laws, StartNamed(l) PROVE OpenLawFits'
    BY <1>0, <1>1, <1>6, NoRunType DEF StartNamed, Run
  <1>7. CASE FetchPage \/ Compare
    <2>1. run'.law = run.law /\ run.phase # "laws"
      BY <1>0, <1>7 DEF FetchPage, Compare, Run
    <2>2. QED
      BY <1>1, <2>1 DEF ListComesFirst
  <1>8. ASSUME NEW l \in Laws, UpsertLaw(l) PROVE OpenLawFits'
    <2> DEFINE c == {a \in ArticleNos : NeedsEmbedding(articles[l][a], Detail(l)[a])}
    <2>1. run' = [run EXCEPT !.law = l, !.changed = c] /\ UNCHANGED <<site, db>>
      BY <1>8 DEF UpsertLaw
    <2> HIDE DEF c
    <2>2. run'.law = l /\ l \in run'.todo /\ run'.changed = c /\ run'.list = run.list
      BY <1>0, <1>8, <2>1 DEF UpsertLaw, Run
    <2>3. Detail(l)' = Detail(l) /\ articles' = articles
      BY <2>1, <2>2 DEF Detail, site, db
    <2>4. QED
      BY <2>2, <2>3 DEF OpenLawFits, c
  <1>9. ASSUME NEW l \in Laws, LawFails(l) PROVE OpenLawFits'
    BY <1>0, <1>1, <1>9 DEF LawFails, Run
  <1>10. CASE StoreLaw
    BY <1>0, <1>1, <1>10 DEF StoreLaw, Run
  <1>11. CASE RepealMissing \/ EndNamed \/ Abort
    BY <1>0, <1>1, <1>11 DEF RepealMissing, EndNamed, Abort
  <1>12. CASE UNCHANGED lawVars
    BY <1>12 DEF lawVars, OpenLawFits, Detail
  <1>13. QED
    BY <1>2, <1>3, <1>4, <1>5, <1>6, <1>7, <1>8, <1>9, <1>10, <1>11, <1>12 DEF Next

-----------------------------------------------------------------------------
(* What is stored *)

\* What the commits of a run keep true of the tables.
TablesAreSound == ChunksMatchText /\ StoredIsComplete /\ RepealedIsEmpty

\* The commit of a collected law: the new chunks are those of the new texts,
\* and every article of the version is among them.
LEMMA StoreLawStep ==
  ASSUME IInv, StoreLaw
  PROVE  TablesAreSound'
  <1> USE DEF IInv
  <1> DEFINE l == run.law
             new == Detail(l)
             old == articles[l]
  <1>1. run \in Run /\ l \in Laws
    BY DEF TypeOK, StoreLaw, Run
  <1>2. run.list[l] \in DOMAIN published[l] /\ new \in Version /\ old \in Version
    BY <1>1, DetailType DEF OpenLawFits, VersionsExist, StoreLaw, TypeOK
  <1>3. run.changed = {a \in ArticleNos : NeedsEmbedding(old[a], new[a])}
    BY DEF OpenLawFits, StoreLaw
  <1>4. laws' = [laws EXCEPT ![l] = [mst |-> run.list[l], repealed |-> FALSE]]
        /\ articles' = [articles EXCEPT ![l] = Overlay(new, old)]
        /\ published' = published
    BY <1>1 DEF StoreLaw, TypeOK, site
  <1>5. chunks' = articles'
    <2>1. chunks' = [chunks EXCEPT ![l] = [a \in ArticleNos |-> IF a \in run.changed THEN new[a] ELSE @[a]]]
      BY DEF StoreLaw
    <2>2. chunks = articles
      BY DEF ChunksMatchText
    <2>3. chunks' = [articles EXCEPT ![l] = [a \in ArticleNos |-> IF a \in run.changed THEN new[a] ELSE old[a]]]
      BY <1>1, <2>1, <2>2 DEF TypeOK
    <2>4. [a \in ArticleNos |-> IF a \in run.changed THEN new[a] ELSE old[a]] = Overlay(new, old)
      BY <1>2, <1>3, EmbeddingMatches
    <2>5. QED
      BY <1>4, <2>3, <2>4
  <1>6. laws'[l] = [mst |-> run.list[l], repealed |-> FALSE] /\ articles'[l] = Overlay(new, old)
    BY <1>1, <1>4 DEF TypeOK
  <1>7. laws'[l] # Null /\ laws'[l].mst = run.list[l] /\ laws'[l].repealed = FALSE
    <2>1. run.list[l] \in Nat \ {0}
      BY <1>1, <1>2 DEF TypeOK, Run
    <2>2. [mst |-> run.list[l], repealed |-> FALSE] \in LawRow
      BY <2>1 DEF LawRow
    <2>3. laws'[l] # Null
      BY <1>6, <2>2, NoRowAssumption
    <2>4. laws'[l].mst = run.list[l] /\ laws'[l].repealed = FALSE
      BY <1>6
    <2>5. QED
      BY <2>3, <2>4
  <1>8. \A x \in Laws \ {l} : laws'[x] = laws[x] /\ articles'[x] = articles[x]
    BY <1>1, <1>4 DEF TypeOK
  <1>9. StoredIsComplete'
    <2>1. ASSUME NEW a \in ArticleNos
          PROVE published'[l][laws'[l].mst][a] \in {Null, articles'[l][a]}
      <3>1. published'[l][laws'[l].mst] = new
        BY <1>4, <1>7 DEF Detail
      <3>2. new[a] \in {Null, Overlay(new, old)[a]}
        BY <1>2, OverlayHasNew
      <3>3. QED
        BY <1>6, <3>1, <3>2
    <2>2. ASSUME NEW x \in Laws \ {l}, laws'[x] # Null, ~laws'[x].repealed, NEW a \in ArticleNos
          PROVE published'[x][laws'[x].mst][a] \in {Null, articles'[x][a]}
      BY <1>4, <1>8, <2>2 DEF StoredIsComplete
    <2>3. QED
      BY <2>1, <2>2 DEF StoredIsComplete
  <1>10. RepealedIsEmpty'
    BY <1>7, <1>8 DEF RepealedIsEmpty
  <1>11. QED
    BY <1>5, <1>9, <1>10 DEF TablesAreSound, ChunksMatchText

\* The repeal of the laws that left the list takes articles and chunks alike.
LEMMA RepealStep ==
  ASSUME IInv, RepealMissing
  PROVE  TablesAreSound'
  <1> USE DEF IInv
  <1>1. chunks' = articles' /\ published' = published
    BY DEF RepealMissing, ChunksMatchText, site
  <1>2. ASSUME NEW x \in Laws, x \in Stale
        PROVE  laws'[x] # Null /\ laws'[x].repealed = TRUE /\ articles'[x] = NoArticles
    <2>1. laws[x] \in LawRow
      BY <1>2 DEF Stale, TypeOK
    <2>2. laws'[x] = [laws[x] EXCEPT !.repealed = TRUE] /\ articles'[x] = NoArticles
      BY <1>2 DEF RepealMissing
    <2>3. laws'[x] \in LawRow /\ laws'[x].repealed = TRUE
      BY <2>1, <2>2 DEF LawRow
    <2>4. QED
      BY <2>2, <2>3, NoRowAssumption
  <1>3. ASSUME NEW x \in Laws, x \notin Stale
        PROVE  laws'[x] = laws[x] /\ articles'[x] = articles[x]
    BY <1>3 DEF RepealMissing
  <1>4. StoredIsComplete' /\ RepealedIsEmpty'
    BY <1>1, <1>2, <1>3 DEF StoredIsComplete, RepealedIsEmpty
  <1>5. QED
    BY <1>1, <1>4 DEF TablesAreSound, ChunksMatchText

\* Of the steps of a run, only the two commits above write the tables.
LEMMA TablesStep ==
  ASSUME IInv, [Next]_lawVars
  PROVE  TablesAreSound'
  <1> USE DEF IInv
  <1>1. ASSUME UNCHANGED <<site, db>> PROVE TablesAreSound'
    BY <1>1 DEF TablesAreSound, ChunksMatchText, StoredIsComplete, RepealedIsEmpty, site, db
  <1>2. ASSUME NEW l \in Laws, NEW v \in Version, Publish(l, v) PROVE TablesAreSound'
    <2>1. UNCHANGED <<laws, articles, chunks>>
      BY <1>2 DEF Publish, db
    <2>2. ASSUME NEW x \in Laws, laws[x] # Null
          PROVE published'[x][laws[x].mst] = published[x][laws[x].mst]
      <3>1. laws[x].mst \in Nat \ {0} /\ laws[x].mst <= Len(published[x]) /\ Len(published[x]) \in Nat
        BY <2>2 DEF TypeOK, VersionsExist, LawRow
      <3>2. QED
        BY <1>2, <3>1, PublishKeeps
    <2>3. StoredIsComplete'
      BY <2>1, <2>2 DEF StoredIsComplete
    <2>4. QED
      BY <2>1, <2>3 DEF TablesAreSound, ChunksMatchText, RepealedIsEmpty
  <1>3. ASSUME NEW l \in Laws, Withdraw(l) PROVE TablesAreSound'
    BY <1>3 DEF Withdraw, TablesAreSound, ChunksMatchText, StoredIsComplete, RepealedIsEmpty, db
  <1>4. ASSUME NEW mode \in {"sync", "all"}, StartSync(mode) PROVE TablesAreSound'
    BY <1>1, <1>4 DEF StartSync
  <1>5. ASSUME NEW l \in Laws, StartNamed(l) \/ UpsertLaw(l) \/ LawFails(l) PROVE TablesAreSound'
    BY <1>1, <1>5 DEF StartNamed, UpsertLaw, LawFails
  <1>6. CASE FetchPage \/ Compare \/ EndNamed \/ Abort
    BY <1>1, <1>6 DEF FetchPage, Compare, EndNamed, Abort
  <1>7. CASE UNCHANGED lawVars
    BY <1>1, <1>7 DEF lawVars, site, db
  <1>8. QED
    BY <1>2, <1>3, <1>4, <1>5, <1>6, <1>7, StoreLawStep, RepealStep DEF Next

-----------------------------------------------------------------------------
(* The theorems *)

\* Nothing is stored at first.
LEMMA InitInv == Init => IInv
  <1> SUFFICES ASSUME Init PROVE IInv
    OBVIOUS
  <1>1. NoRun.law = Null /\ NoRun.changed = {} /\ NoRun.todo = {} /\ NoRun.list = [l \in Laws |-> 0]
    BY DEF NoRun
  <1>2. TypeOK
    BY <1>1, NoRunType, NoArticlesType DEF Init, TypeOK
  <1>3. QED
    BY <1>1, <1>2 DEF Init, IInv, VersionsExist, ListIsNewer, ListComesFirst, OpenLawFits, ChunksMatchText,
                      StoredIsComplete, RepealedIsEmpty

\* IInv holds in every state: all that is known of the site, of the run and
\* of the database, together.
THEOREM InductiveInvariant == Spec => []IInv
  <1>1. IInv /\ [Next]_lawVars => IInv'
    <2> SUFFICES ASSUME IInv, [Next]_lawVars PROVE IInv'
      OBVIOUS
    <2>1. TypeOK'
      BY TypeStep DEF IInv
    <2>2. ListComesFirst' /\ ListIsNewer'
      BY ListComesFirstStep, ListIsNewerStep DEF IInv
    <2>3. QED
      BY <2>1, <2>2, VersionsStep, OpenLawStep, TablesStep DEF IInv, TablesAreSound
  <1>2. QED
    BY <1>1, InitInv, PTL DEF Spec

\* Every variable has its type, whatever the site publishes and the runs do.
THEOREM TypeCorrect == Spec => []TypeOK
  <1>1. IInv => TypeOK
    BY DEF IInv
  <1>2. QED
    BY <1>1, InductiveInvariant, PTL

\* The chunks that searches match are always those of the stored texts,
\* however many laws failed and however often the command was killed.
THEOREM IndexIsNeverStale == Spec => []ChunksMatchText
  <1>1. IInv => ChunksMatchText
    BY DEF IInv
  <1>2. QED
    BY <1>1, InductiveInvariant, PTL

\* A law in force has every article of the version its row names, and so has
\* a listed law that the comparison skips.
THEOREM SkippingIsSafe == Spec => []SkippedIsComplete
  <1>1. IInv => SkippedIsComplete
    <2>1. SUFFICES ASSUME IInv, NEW l \in Laws \ ToProcess, run.list[l] # 0, NEW a \in ArticleNos
                   PROVE  Detail(l)[a] \in {Null, articles[l][a]}
      BY DEF SkippedIsComplete, IInv
    <2>2. laws[l] # Null /\ laws[l].mst = run.list[l] /\ ~laws[l].repealed
      BY <2>1 DEF ToProcess
    <2>3. QED
      BY <2>1, <2>2 DEF IInv, StoredIsComplete, Detail
  <1>2. QED
    BY <1>1, InductiveInvariant, PTL

\* No article of a repealed law, or of one that is not stored, is found.
THEOREM RepealedIsNeverFound == Spec => []RepealedIsEmpty
  <1>1. IInv => RepealedIsEmpty
    BY DEF IInv
  <1>2. QED
    BY <1>1, InductiveInvariant, PTL

\* The articles of a law change by whole versions only: one commit lays all
\* that a version has over the articles there were, or takes all of them away.
THEOREM NoHalfVersion == Spec => ArticlesChangeByVersion
  <1>1. ASSUME IInv, [Next]_lawVars, NEW l \in Laws, articles'[l] # articles[l]
        PROVE  \/ articles'[l] = NoArticles
               \/ \E k \in DOMAIN published[l] : articles'[l] = Overlay(published[l][k], articles[l])
    <2>1. CASE StoreLaw
      <3>1. run.law \in Laws /\ run.list[run.law] \in DOMAIN published[run.law]
        BY <1>1, <2>1, DetailType DEF IInv, OpenLawFits, VersionsExist, StoreLaw, TypeOK, Run
      <3>2. articles' = [articles EXCEPT ![run.law] = Overlay(Detail(run.law), articles[run.law])]
        BY <2>1 DEF StoreLaw
      <3>3. QED
        BY <1>1, <3>1, <3>2 DEF IInv, TypeOK, Detail
    <2>2. CASE RepealMissing
      BY <1>1, <2>2 DEF RepealMissing
    <2>3. articles' = articles \/ StoreLaw \/ RepealMissing
      BY <1>1 DEF Next, Publish, Withdraw, StartSync, StartNamed, FetchPage, Compare, UpsertLaw,
                  LawFails, EndNamed, Abort, lawVars, db
    <2>4. QED
      BY <1>1, <2>1, <2>2, <2>3
  <1>2. IInv /\ [Next]_lawVars =>
          \A l \in Laws : articles'[l] # articles[l] =>
            \/ articles'[l] = NoArticles
            \/ \E k \in DOMAIN published[l] : articles'[l] = Overlay(published[l][k], articles[l])
    BY <1>1
  <1>3. QED
    BY <1>2, InductiveInvariant, PTL DEF Spec, ArticlesChangeByVersion

-----------------------------------------------------------------------------
(* The refinement of Corpus *)

\* The tables that are empty at first are those of the abstract corpus.
LEMMA PromisedInit == Init => Promise!Init
  BY DEF Init, Promise!Init, NoArticles, Promise!Nothing

\* The commit of a law is one Collect: its chunks become those of the listed
\* version, because they matched the articles before (ChunksMatchText).
LEMMA PromisedCollect ==
  ASSUME IInv, StoreLaw
  PROVE  Promise!Collect(run.law, run.list[run.law])
  <1> DEFINE l == run.law
             k == run.list[l]
  <1> USE DEF IInv
  <1>1. l \in Laws /\ k \in DOMAIN published[l] /\ Detail(l) \in Version
    BY DetailType DEF OpenLawFits, VersionsExist, StoreLaw, TypeOK, Run
  <1>2. articles[l] \in Version /\ chunks[l] = articles[l] /\ chunks \in [Laws -> Version]
    BY <1>1 DEF TypeOK, ChunksMatchText
  <1>3. chunks'[l] = Overlay(Detail(l), chunks[l])
    <2>1. chunks'[l] = [a \in ArticleNos |-> IF a \in run.changed THEN Detail(l)[a] ELSE articles[l][a]]
      BY <1>1, <1>2 DEF StoreLaw
    <2>2. run.changed = {a \in ArticleNos : NeedsEmbedding(articles[l][a], Detail(l)[a])}
      BY DEF OpenLawFits, StoreLaw
    <2>3. QED
      BY <1>1, <1>2, <2>1, <2>2, EmbeddingMatches
  <1>4. chunks' = [chunks EXCEPT ![l] = Overlay(Detail(l), @)]
    BY <1>1, <1>2, <1>3 DEF StoreLaw
  <1>5. laws[l] # Null => laws[l].mst <= k
    BY <1>1 DEF ListIsNewer, OpenLawFits, VersionsExist, StoreLaw
  <1>6. QED
    BY <1>1, <1>4, <1>5 DEF StoreLaw, site, Detail, Overlay, Promise!Collect

\* The end of a run is one Repeal, of the laws that were not on its list.
LEMMA PromisedRepeal ==
  ASSUME IInv, RepealMissing
  PROVE  Promise!Repeal(Stale)
  <1>1. Stale \subseteq Promise!InForce
    BY DEF Stale, Promise!InForce
  <1>2. QED
    BY <1>1 DEF RepealMissing, site, NoArticles, Promise!Repeal, Promise!Nothing

\* Every step is one of the abstract corpus or changes nothing of it.
LEMMA PromisedStep ==
  ASSUME IInv, [Next]_lawVars
  PROVE  [Promise!Next]_(Promise!vars)
  <1>1. ASSUME NEW l \in Laws, NEW v \in Version, Publish(l, v) PROVE Promise!Next
    <2>1. Promise!Publish(l, v) /\ v \in Promise!Version
      BY <1>1 DEF Publish, db, Promise!Publish, Version, Promise!Version
    <2>2. QED
      BY <2>1 DEF Promise!Next
  <1>2. CASE StoreLaw
    <2>1. run.law \in Laws /\ run.list[run.law] \in DOMAIN published[run.law]
      BY <1>2, DetailType DEF IInv, OpenLawFits, VersionsExist, StoreLaw, TypeOK, Run
    <2>2. QED
      BY <1>2, <2>1, PromisedCollect DEF Promise!Next
  <1>3. CASE RepealMissing
    <2>1. Stale \in SUBSET Laws
      BY DEF Stale
    <2>2. QED
      BY <1>3, <2>1, PromisedRepeal DEF Promise!Next
  <1>4. CASE UNCHANGED <<published, laws, chunks>>
    BY <1>4 DEF Promise!vars
  <1>5. \/ UNCHANGED <<published, laws, chunks>>
        \/ \E l \in Laws, v \in Version : Publish(l, v)
        \/ StoreLaw
        \/ RepealMissing
    BY DEF Next, Withdraw, StartSync, StartNamed, FetchPage, Compare, UpsertLaw, LawFails,
           EndNamed, Abort, lawVars, site, db
  <1>6. QED
    BY <1>1, <1>2, <1>3, <1>4, <1>5

\* The command implements the abstract corpus: seen from a search, a version
\* of a law is laid over what was found of it, and never an older one, or all
\* of it is taken away, in one step, whatever happens in between.
THEOREM Implementation == Spec => KeepsPromise
  <1>1. IInv /\ [Next]_lawVars => [Promise!Next]_(Promise!vars)
    BY PromisedStep
  <1>2. QED
    BY <1>1, PromisedInit, InductiveInvariant, PTL DEF Spec, KeepsPromise, Promise!Spec

-----------------------------------------------------------------------------
(* The collector and the graph command together *)

allVars == <<lawVars, graphVars>>

-----------------------------------------------------------------------------
(* What is known of the command in the middle of a run *)

\* Of the articles it still has to do, a row that is not there any more was
\* deleted since the run loaded it.
TodoIsStored == \A x \in worker.todo : x \in worker.gone \/ articles[x[1]][x[2]] # Null

\* They have no mark.
TodoIsUnmarked == worker.todo \cap marked = {}

\* What it is about to mark has been drawn.
MergedIsDrawn ==
  worker.merged => worker.article # Null /\ edges[worker.article[1]][worker.article[2]] # {}

WorkerFits == TodoIsStored /\ TodoIsUnmarked /\ MergedIsDrawn

GraphInv == IInv /\ GraphTypeOK /\ WorkerFits /\ MarkedIsExtracted

-----------------------------------------------------------------------------
(* The collector beside the command *)

\* The steps of the command leave all of the collector's state but the marks.
LEMMA GraphStepForLaws ==
  ASSUME GraphNext
  PROVE  /\ UNCHANGED <<listing, published, laws, articles, chunks, run>>
         /\ \/ marked' = marked
            \/ Mark /\ marked' = marked \cup {worker.article}
  BY DEF GraphNext, StartGraph, TakeArticle, MergeGraphData, ExtractionFails, Mark, RowIsGone,
         StopGraph, lawVars, site

\* The steps of the collector and of the site take marks away, never set one.
LEMMA LawsOnlyUnmark ==
  ASSUME Next
  PROVE  marked' \subseteq marked
  BY DEF Next, Publish, Withdraw, StartSync, StartNamed, FetchPage, Compare, UpsertLaw, StoreLaw,
         LawFails, RepealMissing, EndNamed, Abort, db

\* The collector's invariant holds beside the command as well: the command
\* changes nothing it speaks of but the set of marks.
LEMMA LawInvStep ==
  ASSUME GraphInv, [GraphNext \/ LawNext]_allVars
  PROVE  IInv'
  <1> USE DEF GraphInv
  <1>1. CASE LawNext
    <2>1. [Next]_lawVars
      BY <1>1 DEF LawNext
    <2>2. TypeOK'
      BY <2>1, TypeStep DEF IInv
    <2>3. QED
      BY <2>1, <2>2, ListComesFirstStep, ListIsNewerStep, VersionsStep, OpenLawStep, TablesStep DEF IInv, TablesAreSound
  <1>2. ASSUME UNCHANGED <<listing, published, laws, articles, chunks, run>>,
               marked' \subseteq Laws \X ArticleNos
        PROVE  IInv'
    BY <1>2 DEF IInv, TypeOK, VersionsExist, ListIsNewer, ListComesFirst, OpenLawFits, Detail, ChunksMatchText,
                StoredIsComplete, RepealedIsEmpty
  <1>3. CASE GraphNext
    <2>1. marked \subseteq Laws \X ArticleNos
      BY DEF IInv, TypeOK
    <2>2. Mark => worker.article \in Laws \X ArticleNos
      BY DEF Mark, WorkerFits, MergedIsDrawn, GraphTypeOK, Worker, Articles
    <2>3. QED
      BY <1>2, <1>3, <2>1, <2>2, GraphStepForLaws
  <1>4. CASE UNCHANGED allVars
    BY <1>2, <1>4 DEF allVars, lawVars, IInv, TypeOK
  <1>5. QED
    BY <1>1, <1>3, <1>4

-----------------------------------------------------------------------------
(* The command *)

LEMMA OffType == Off \in Worker
  BY NoArticlesType DEF Off, Worker, NoArticles

\* A command that has ended knows nothing that could be wrong.
LEMMA OffFits ==
  ASSUME worker' = Off
  PROVE  WorkerFits'
  BY DEF Off, WorkerFits, TodoIsStored, TodoIsUnmarked, MergedIsDrawn

\* Every step keeps the types.  The text of an article is one: what the
\* session holds is, and a row that has expired is read again only while it
\* is there (TodoIsStored), or the command ends.
LEMMA GraphTypeStep ==
  ASSUME GraphInv, [GraphNext \/ LawNext]_allVars, TypeOK'
  PROVE  GraphTypeOK'
  <1>0. /\ worker \in Worker /\ edges \in [Laws -> [ArticleNos -> SUBSET Texts]]
        /\ articles \in [Laws -> Version]
        /\ worker.article # Null => worker.article \in worker.todo /\ worker.text # Null
    BY DEF GraphInv, GraphTypeOK, TypeOK
  <1>1. CASE LawNext
    BY <1>0, <1>1 DEF LawNext, GraphTypeOK, Worker
  <1>2. ASSUME NEW S \in SUBSET Laws, StartGraph(S) PROVE GraphTypeOK'
    <2>1. worker' = [Off EXCEPT !.on = TRUE, !.todo = Pending(S), !.loaded = articles] /\ edges' = edges
      BY <1>2 DEF StartGraph
    <2>2. Pending(S) \subseteq Articles
      BY DEF Pending, Stored
    <2>3. worker' \in Worker /\ worker'.article = Null
      BY <1>0, <2>1, <2>2, OffType DEF Worker, Off
    <2>4. QED
      BY <1>0, <2>1, <2>3 DEF GraphTypeOK
  <1>3. ASSUME NEW x \in Articles, TakeArticle(x) PROVE GraphTypeOK'
    <2>1. worker' = [worker EXCEPT !.article = x, !.text = TextOf(x)] /\ edges' = edges /\ x \in worker.todo
      BY <1>3 DEF TakeArticle
    <2>2. x[1] \in Laws /\ x[2] \in ArticleNos
      BY DEF Articles
    <2>3. worker.loaded[x[1]] \in Version /\ articles[x[1]] \in Version
      BY <1>0, <2>2 DEF Worker
    <2>4. TextOf(x) \in Texts
      <3>1. CASE worker.loaded[x[1]][x[2]] # Null
        BY <2>2, <2>3, <3>1 DEF TextOf, Version
      <3>2. CASE worker.loaded[x[1]][x[2]] = Null
        <4>1. articles[x[1]][x[2]] # Null
          BY <1>3, <2>1, <3>2 DEF TakeArticle, Expired, GraphInv, WorkerFits, TodoIsStored
        <4>2. QED
          BY <2>2, <2>3, <3>2, <4>1 DEF TextOf, Version
      <3>3. QED
        BY <3>1, <3>2
    <2>5. worker' \in Worker /\ worker'.todo = worker.todo /\ worker'.article = x /\ worker'.text = TextOf(x)
      BY <1>0, <2>1, <2>4 DEF Worker
    <2>6. TextOf(x) # Null
      BY <2>4, NoRowAssumption
    <2>7. QED
      BY <1>0, <2>1, <2>5, <2>6 DEF GraphTypeOK
  <1>4. CASE MergeGraphData
    <2>1. /\ worker.article \in Articles /\ worker.text \in Texts
          /\ worker' = [worker EXCEPT !.merged = TRUE]
      BY <1>0, <1>4 DEF MergeGraphData, Worker
    <2>2. worker.article[1] \in Laws /\ worker.article[2] \in ArticleNos
      BY <2>1 DEF Articles
    <2>3. edges' \in [Laws -> [ArticleNos -> SUBSET Texts]]
      BY <1>0, <1>4, <2>1, <2>2 DEF MergeGraphData
    <2>4. QED
      BY <1>0, <2>1, <2>3 DEF GraphTypeOK, Worker
  <1>5. CASE ExtractionFails
    BY <1>0, <1>5 DEF ExtractionFails, GraphTypeOK, Worker
  <1>6. CASE Mark
    <2>1. [l \in Laws |-> NoArticles] \in [Laws -> Version]
      BY NoArticlesType
    <2>2. QED
      BY <1>0, <1>6, <2>1 DEF Mark, GraphTypeOK, Worker
  <1>7. ASSUME worker' = Off, UNCHANGED edges PROVE GraphTypeOK'
    BY <1>0, <1>7, OffType DEF GraphTypeOK, Off
  <1>8. ASSUME NEW x \in Articles, RowIsGone(x) PROVE GraphTypeOK'
    BY <1>7, <1>8 DEF RowIsGone
  <1>9. CASE StopGraph
    BY <1>7, <1>9 DEF StopGraph
  <1>10. CASE UNCHANGED allVars
    BY <1>0, <1>10 DEF allVars, graphVars, GraphTypeOK
  <1>11. QED
    BY <1>1, <1>2, <1>3, <1>4, <1>5, <1>6, <1>8, <1>9, <1>10 DEF GraphNext

\* Every step leaves what is known of the command true.
LEMMA WorkerStep ==
  ASSUME GraphInv, [GraphNext \/ LawNext]_allVars
  PROVE  WorkerFits'
  <1>0. /\ worker \in Worker
        /\ worker.article # Null => worker.article \in worker.todo
        /\ edges \in [Laws -> [ArticleNos -> SUBSET Texts]]
        /\ TodoIsStored /\ TodoIsUnmarked /\ MergedIsDrawn
    BY DEF GraphInv, GraphTypeOK, WorkerFits
  <1>1. CASE LawNext
    <2>1. /\ worker' = [worker EXCEPT !.gone =
                          @ \cup {x \in worker.todo : articles'[x[1]][x[2]] = Null}]
          /\ edges' = edges /\ marked' \subseteq marked
      BY <1>1, LawsOnlyUnmark DEF LawNext
    <2>2. /\ worker'.todo = worker.todo /\ worker'.article = worker.article
          /\ worker'.merged = worker.merged
          /\ worker'.gone = worker.gone \cup {x \in worker.todo : articles'[x[1]][x[2]] = Null}
      BY <1>0, <2>1 DEF Worker
    <2>3. TodoIsStored'
      BY <2>2 DEF TodoIsStored
    <2>4. QED
      BY <1>0, <2>1, <2>2, <2>3 DEF WorkerFits, TodoIsUnmarked, MergedIsDrawn
  <1>2. ASSUME NEW S \in SUBSET Laws, StartGraph(S) PROVE WorkerFits'
    <2>1. /\ worker' = [Off EXCEPT !.on = TRUE, !.todo = Pending(S), !.loaded = articles]
          /\ articles' = articles /\ marked' = marked
      BY <1>2 DEF StartGraph, lawVars
    <2>2. worker'.todo = Pending(S) /\ worker'.merged = FALSE
      BY <2>1 DEF Off
    <2>3. QED
      BY <2>1, <2>2 DEF WorkerFits, TodoIsStored, TodoIsUnmarked, MergedIsDrawn, Pending, Stored
  <1>3. ASSUME NEW x \in Articles, TakeArticle(x) PROVE WorkerFits'
    <2>1. /\ worker' = [worker EXCEPT !.article = x, !.text = TextOf(x)]
          /\ articles' = articles /\ marked' = marked
          /\ worker.article = Null
      BY <1>3 DEF TakeArticle, lawVars
    <2>2. /\ worker'.todo = worker.todo /\ worker'.gone = worker.gone /\ worker'.merged = worker.merged
      BY <1>0, <2>1 DEF Worker
    <2>3. ~worker.merged
      BY <1>0, <2>1 DEF MergedIsDrawn
    <2>4. QED
      BY <1>0, <2>1, <2>2, <2>3 DEF WorkerFits, TodoIsStored, TodoIsUnmarked, MergedIsDrawn
  <1>4. CASE MergeGraphData
    <2> DEFINE x == worker.article
    <2>1. /\ x # Null /\ edges' = [edges EXCEPT ![x[1]][x[2]] = @ \cup {worker.text}]
          /\ worker' = [worker EXCEPT !.merged = TRUE]
          /\ articles' = articles /\ marked' = marked
      BY <1>4 DEF MergeGraphData, lawVars
    <2>2. x[1] \in Laws /\ x[2] \in ArticleNos
      <3>1. x \in Articles \cup {Null}
        BY <1>0 DEF Worker
      <3>2. x \in Articles
        BY <2>1, <3>1
      <3>3. QED
        BY <3>2 DEF Articles
    <2>3. worker.text \in edges'[x[1]][x[2]]
      BY <1>0, <2>1, <2>2
    <2>4. /\ worker'.todo = worker.todo /\ worker'.gone = worker.gone /\ worker'.article = x
      BY <1>0, <2>1 DEF Worker
    <2>5. QED
      BY <1>0, <2>1, <2>3, <2>4 DEF WorkerFits, TodoIsStored, TodoIsUnmarked, MergedIsDrawn
  <1>5. CASE ExtractionFails
    <2>1. /\ worker' = [worker EXCEPT !.article = Null, !.text = Null, !.todo = @ \ {worker.article}]
          /\ articles' = articles /\ marked' = marked /\ ~worker.merged
      BY <1>5 DEF ExtractionFails, lawVars
    <2>2. /\ worker'.todo \subseteq worker.todo /\ worker'.gone = worker.gone
          /\ worker'.merged = worker.merged
      BY <1>0, <2>1 DEF Worker
    <2>3. QED
      BY <1>0, <2>1, <2>2 DEF WorkerFits, TodoIsStored, TodoIsUnmarked, MergedIsDrawn
  <1>6. CASE Mark
    <2> DEFINE x == worker.article
    <2>1. /\ worker' = [worker EXCEPT !.article = Null, !.text = Null, !.merged = FALSE,
                          !.todo = @ \ {x}, !.loaded = [l \in Laws |-> NoArticles]]
          /\ articles' = articles /\ marked' = marked \cup {x}
      BY <1>6 DEF Mark
    <2>2. /\ worker'.todo = worker.todo \ {x} /\ worker'.gone = worker.gone
          /\ worker'.merged = FALSE
      BY <1>0, <2>1 DEF Worker
    <2>3. QED
      BY <1>0, <2>1, <2>2 DEF WorkerFits, TodoIsStored, TodoIsUnmarked, MergedIsDrawn
  <1>7. ASSUME NEW x \in Articles, RowIsGone(x) PROVE WorkerFits'
    BY <1>7, OffFits DEF RowIsGone
  <1>8. CASE StopGraph
    BY <1>8, OffFits DEF StopGraph
  <1>9. CASE UNCHANGED allVars
    BY <1>0, <1>9 DEF allVars, graphVars, lawVars, WorkerFits, TodoIsStored, TodoIsUnmarked, MergedIsDrawn
  <1>10. QED
    BY <1>1, <1>2, <1>3, <1>4, <1>5, <1>6, <1>7, <1>8, <1>9 DEF GraphNext

\* Marks are set on what has been drawn, and the graph loses no edge.
LEMMA ExtractedStep ==
  ASSUME GraphInv, [GraphNext \/ LawNext]_allVars
  PROVE  MarkedIsExtracted'
  <1>0. /\ MarkedIsExtracted /\ MergedIsDrawn /\ worker \in Worker
        /\ edges \in [Laws -> [ArticleNos -> SUBSET Texts]]
        /\ marked \subseteq Laws \X ArticleNos
    BY DEF GraphInv, GraphTypeOK, TypeOK, WorkerFits
  <1>1. ASSUME edges' = edges, marked' \subseteq marked PROVE MarkedIsExtracted'
    BY <1>0, <1>1 DEF MarkedIsExtracted
  <1>2. CASE LawNext
    BY <1>1, <1>2, LawsOnlyUnmark DEF LawNext
  <1>3. CASE MergeGraphData
    <2> DEFINE x == worker.article
    <2>1. /\ x \in Articles /\ edges' = [edges EXCEPT ![x[1]][x[2]] = @ \cup {worker.text}]
          /\ marked' = marked
      BY <1>0, <1>3 DEF MergeGraphData, lawVars, Worker
    <2>2. ASSUME NEW y \in Laws \X ArticleNos
          PROVE  edges[y[1]][y[2]] \subseteq edges'[y[1]][y[2]]
      <3>1. x[1] \in Laws /\ x[2] \in ArticleNos /\ y[1] \in Laws /\ y[2] \in ArticleNos
        BY <2>1 DEF Articles
      <3>2. CASE y[1] = x[1] /\ y[2] = x[2]
        BY <1>0, <2>1, <3>1, <3>2
      <3>3. CASE ~(y[1] = x[1] /\ y[2] = x[2])
        BY <1>0, <2>1, <3>1, <3>3
      <3>4. QED
        BY <3>2, <3>3
    <2>3. QED
      BY <1>0, <2>1, <2>2 DEF MarkedIsExtracted
  <1>4. CASE Mark
    BY <1>0, <1>4 DEF Mark, MarkedIsExtracted, MergedIsDrawn
  <1>5. CASE GraphNext /\ ~MergeGraphData /\ ~Mark
    <2>1. edges' = edges /\ marked' = marked
      BY <1>5, GraphStepForLaws DEF GraphNext, StartGraph, TakeArticle, ExtractionFails, RowIsGone, StopGraph
    <2>2. QED
      BY <1>1, <2>1
  <1>6. CASE UNCHANGED allVars
    BY <1>1, <1>6 DEF allVars, graphVars, lawVars
  <1>7. QED
    BY <1>2, <1>3, <1>4, <1>5, <1>6

-----------------------------------------------------------------------------
(* What follows *)

\* GraphInv holds in every state of the two commands together.
THEOREM GraphInductive == GraphSpec => []GraphInv
  <1>1. GraphInit => GraphInv
    <2> SUFFICES ASSUME GraphInit PROVE GraphInv
      OBVIOUS
    <2>1. IInv /\ marked = {}
      BY InitInv DEF GraphInit, Init
    <2>2. edges \in [Laws -> [ArticleNos -> SUBSET Texts]]
      BY DEF GraphInit
    <2>3. GraphTypeOK
      BY <2>1, <2>2, OffType DEF GraphInit, GraphTypeOK, IInv, Off
    <2>4. WorkerFits
      BY DEF GraphInit, Off, WorkerFits, TodoIsStored, TodoIsUnmarked, MergedIsDrawn
    <2>5. QED
      BY <2>1, <2>3, <2>4 DEF GraphInv, MarkedIsExtracted
  <1>2. GraphInv /\ [GraphNext \/ LawNext]_allVars => GraphInv'
    <2> SUFFICES ASSUME GraphInv, [GraphNext \/ LawNext]_allVars PROVE GraphInv'
      OBVIOUS
    <2>1. IInv'
      BY LawInvStep
    <2>2. GraphTypeOK'
      BY <2>1, GraphTypeStep DEF IInv
    <2>3. QED
      BY <2>1, <2>2, WorkerStep, ExtractedStep DEF GraphInv
  <1>3. QED
    BY <1>1, <1>2, PTL DEF GraphSpec, allVars

\* Every reachable state of the two commands is well typed; the text that is
\* sent to the LLM is one, although its row may be deleted meanwhile.
THEOREM GraphTypeCorrect == GraphSpec => []GraphTypeOK
  <1>1. GraphInv => GraphTypeOK
    BY DEF GraphInv
  <1>2. QED
    BY <1>1, GraphInductive, PTL

\* An article with a mark has edges in the graph, whatever fails or is
\* killed between the two databases.
THEOREM MarkedAlwaysExtracted == GraphSpec => []MarkedIsExtracted
  <1>1. GraphInv => MarkedIsExtracted
    BY DEF GraphInv
  <1>2. QED
    BY <1>1, GraphInductive, PTL

\* No LLM call is made for an article that has its mark.
THEOREM MarkedAlwaysSkipped == GraphSpec => MarkedIsSkipped
  <1> DEFINE Skipped == \A x \in Articles :
                          worker.article = Null /\ worker'.article = x => x \notin marked
  <1>1. GraphInv /\ [GraphNext \/ LawNext]_allVars => [Skipped]_allVars
    <2> SUFFICES ASSUME GraphInv, GraphNext \/ LawNext, NEW x \in Articles,
                        worker.article = Null, worker'.article = x
                 PROVE  x \notin marked
      OBVIOUS
    <2>1. /\ worker \in Worker /\ TodoIsUnmarked /\ x # Null
      BY NoArticleAssumption DEF GraphInv, GraphTypeOK, WorkerFits
    <2>2. CASE LawNext
      <3>1. worker'.article = worker.article
        BY <2>1, <2>2 DEF LawNext, Worker
      <3>2. QED
        BY <2>1, <3>1
    <2>3. ASSUME NEW y \in Articles, TakeArticle(y) PROVE x \notin marked
      <3>1. y \in worker.todo /\ worker'.article = y
        BY <2>1, <2>3 DEF TakeArticle, Worker
      <3>2. QED
        BY <2>1, <3>1 DEF TodoIsUnmarked
    <2>4. ASSUME NEW S \in SUBSET Laws, StartGraph(S) PROVE worker'.article = Null
      BY <2>4 DEF StartGraph, Off
    <2>5. CASE MergeGraphData
      BY <2>5 DEF MergeGraphData
    <2>6. CASE ExtractionFails
      BY <2>6 DEF ExtractionFails
    <2>7. CASE Mark
      BY <2>1, <2>7 DEF Mark, Worker
    <2>8. ASSUME worker' = Off PROVE worker'.article = Null
      BY <2>8 DEF Off
    <2>9. QED
      BY <2>1, <2>2, <2>3, <2>4, <2>5, <2>6, <2>7, <2>8 DEF GraphNext, RowIsGone, StopGraph
  <1>2. QED
    BY <1>1, GraphInductive, PTL DEF GraphSpec, MarkedIsSkipped, allVars

\* Beside the graph command, too, the collector implements the abstract
\* corpus: marks are nothing that a search sees.
THEOREM CorpusBesideGraph == GraphSpec => KeepsPromise
  <1>1. GraphInit => Promise!Init
    BY PromisedInit DEF GraphInit
  <1>2. GraphInv /\ [GraphNext \/ LawNext]_allVars => [Promise!Next]_(Promise!vars)
    <2> SUFFICES ASSUME GraphInv, [GraphNext \/ LawNext]_allVars PROVE [Promise!Next]_(Promise!vars)
      OBVIOUS
    <2>1. CASE LawNext
      BY <2>1, PromisedStep DEF GraphInv, LawNext
    <2>2. CASE GraphNext
      BY <2>2, GraphStepForLaws DEF Promise!vars
    <2>3. CASE UNCHANGED allVars
      BY <2>3 DEF allVars, lawVars, Promise!vars
    <2>4. QED
      BY <2>1, <2>2, <2>3
  <1>3. QED
    BY <1>1, <1>2, GraphInductive, PTL DEF GraphSpec, KeepsPromise, Promise!Spec, allVars

=============================================================================
