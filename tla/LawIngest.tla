----------------------------- MODULE LawIngest -----------------------------
(***************************************************************************)
(* Collecting the laws: app/ingest.py, with the filters of app/parser.py   *)
(* and the requests of app/law_api_client.py.  The command compares the    *)
(* list of laws in force at law.go.kr with the database, collects the laws *)
(* whose serial number (MST) changed, and empties those that left the      *)
(* list.  It is run by hand, one run at a time; the site publishes and     *)
(* withdraws laws meanwhile, any request may fail for good, and the        *)
(* command may be killed between any two commits.                          *)
(*                                                                         *)
(* Abstractions: an MST is the number of the version among those of its    *)
(* law; an article's text is a value, equal when the hashes are equal;     *)
(* its chunks and their vectors are the text they were computed from.      *)
(* Names, dates, departments and categories of the laws are left out.      *)
(***************************************************************************)
EXTENDS Integers, Sequences, FiniteSets, SequencesExt

CONSTANTS
  Laws,        \* law ids
  ArticleNos,  \* numbers (with branch numbers) of articles
  Texts,       \* texts of articles
  Null,        \* no such row, no such article
  Display,     \* laws on a page of the list
  MaxVersions  \* bound: versions published of all laws together

ASSUME DisplayAssumption == Display \in Nat \ {0}
ASSUME MaxVersionsAssumption == MaxVersions \in Nat

VARIABLES
  listing,     \* law.go.kr: the laws in force, in the order of the list
  published,   \* law.go.kr: law -> its versions; the last one is in force
  laws,        \* law -> its row in laws
  articles,    \* law -> article number -> full_text of its row in articles
  chunks,      \* law -> article number -> the text its chunks come from
  marked,      \* the articles whose graph_synced_at is set
  run          \* the run of the command, with the work it has not committed

site == <<listing, published>>
db == <<laws, articles, chunks, marked>>
lawVars == <<listing, published, laws, articles, chunks, marked, run>>

-----------------------------------------------------------------------------

LawRow == [mst: Nat \ {0}, repealed: BOOLEAN]

ASSUME NoRowAssumption == Null \notin Laws \cup Texts /\ Null \notin LawRow

\* The texts of the articles of a law that are not deleted.
Version == [ArticleNos -> Texts \cup {Null}]
NoArticles == [a \in ArticleNos |-> Null]

(***************************************************************************)
(* mode: by comparison, --all, or by name.  list: the MSTs read from the   *)
(* list so far, 0 for a law that was not on it.  todo: the laws still to   *)
(* collect.  law: the one with an open transaction, of which changed are   *)
(* the articles to embed.                                                  *)
(***************************************************************************)
Run == [mode: {"none", "sync", "all", "named"}, phase: {"list", "compare", "laws"},
        page: Nat \ {0}, list: [Laws -> Nat], todo: SUBSET Laws,
        law: Laws \cup {Null}, changed: SUBSET ArticleNos]

NoRun == [mode |-> "none", phase |-> "list", page |-> 1, list |-> [l \in Laws |-> 0],
          todo |-> {}, law |-> Null, changed |-> {}]

TypeOK ==
  /\ listing \in Seq(Laws)
  /\ published \in [Laws -> Seq(Version)]
  /\ laws \in [Laws -> LawRow \cup {Null}]
  /\ articles \in [Laws -> Version]
  /\ chunks \in [Laws -> Version]
  /\ marked \subseteq Laws \X ArticleNos
  /\ run \in Run
  /\ run.law = Null => run.changed = {}
  /\ \A l \in Laws : run.list[l] <= Len(published[l])

-----------------------------------------------------------------------------
(* law.go.kr *)

\* A law is enacted or amended; one that is not in the list enters it somewhere.
Publish(l, v) ==
  /\ Cardinality(UNION {{x} \X DOMAIN published[x] : x \in Laws}) < MaxVersions
  /\ published' = [published EXCEPT ![l] = Append(@, v)]
  /\ IF l \in ToSet(listing) THEN listing' = listing
     ELSE \E k \in 1..(Len(listing) + 1) : listing' = InsertAt(listing, k, l)
  /\ UNCHANGED <<db, run>>

\* A law is repealed.
Withdraw(l) ==
  /\ \E k \in DOMAIN listing : listing[k] = l /\ listing' = RemoveAt(listing, k)
  /\ UNCHANGED <<published, db, run>>

-----------------------------------------------------------------------------
(* Listing *)

\* main without arguments, or with --all.
StartSync(mode) ==
  /\ run = NoRun
  /\ run' = [NoRun EXCEPT !.mode = mode]
  /\ UNCHANGED <<site, db>>

\* main with a name: ingest_law takes the entry whose name is exactly that.
StartNamed(l) ==
  /\ run = NoRun
  /\ l \in ToSet(listing)
  /\ run' = [NoRun EXCEPT !.mode = "named", !.phase = "laws", !.todo = {l},
               !.list[l] = Len(published[l])]
  /\ UNCHANGED <<site, db>>

Page(n) == {k \in DOMAIN listing : (n - 1) * Display < k /\ k <= n * Display}

\* list_all_current_laws gets one page; a page that is not full is the last.
FetchPage ==
  LET entries == {listing[k] : k \in Page(run.page)}
      full == run.page * Display <= Len(listing)
  IN  /\ run.mode \in {"sync", "all"} /\ run.phase = "list"
      /\ run' = [run EXCEPT
           !.list = [l \in Laws |-> IF l \in entries THEN Len(published[l]) ELSE @[l]],
           !.page = IF full THEN @ + 1 ELSE @,
           !.phase = IF full THEN @ ELSE "compare"]
      /\ UNCHANGED <<site, db>>

\* An incremental run collects a listed law that is new, amended or revived.
ToProcess ==
  {l \in Laws : /\ run.list[l] # 0
                /\ \/ run.mode = "all"
                   \/ laws[l] = Null
                   \/ laws[l].mst # run.list[l]
                   \/ laws[l].repealed}

Compare ==
  /\ run.phase = "compare"
  /\ run' = [run EXCEPT !.phase = "laws", !.todo = ToProcess]
  /\ UNCHANGED <<site, db>>

-----------------------------------------------------------------------------
(* Collecting a law, in one transaction *)

\* The text the site has for the MST of the list.
Detail(l) == published[l][run.list[l]]

\* Variant: only an article that is new is chunked and embedded.
NeedsEmbeddingIfNew(old, new) == new # Null /\ old = Null

\* upsert_article: the hash of a listed article differs from the stored one.
NeedsEmbedding(old, new) == new # Null /\ old # new

\* The detail of a law, upsert_law, and upsert_article for each of its
\* articles; a law without a single article is an error (see LawFails).
UpsertLaw(l) ==
  /\ run.phase = "laws" /\ run.law = Null /\ l \in run.todo
  /\ Detail(l) # NoArticles
  /\ run' = [run EXCEPT !.law = l,
               !.changed = {a \in ArticleNos : NeedsEmbedding(articles[l][a], Detail(l)[a])}]
  /\ UNCHANGED <<site, db>>

\* An amended law over its stored articles: what it no longer has, stays.
Overlay(new, old) == [a \in ArticleNos |-> IF new[a] # Null THEN new[a] ELSE old[a]]

\* Variant: a commit per article; the law row goes with the first.
StoreLawByArticle ==
  LET l == run.law
  IN  /\ l # Null
      /\ laws' = [laws EXCEPT ![l] = [mst |-> run.list[l], repealed |-> FALSE]]
      /\ \E a \in {b \in ArticleNos : run.changed = {} \/ b \in run.changed} :
           /\ articles' = [articles EXCEPT ![l][a] = Overlay(Detail(l), articles[l])[a]]
           /\ chunks' = [chunks EXCEPT ![l][a] = articles'[l][a]]
           /\ marked' = IF a \in run.changed THEN marked \ {<<l, a>>} ELSE marked
           /\ IF run.changed \subseteq {a}
              THEN run' = [run EXCEPT !.law = Null, !.changed = {}, !.todo = @ \ {l}]
              ELSE run' = [run EXCEPT !.changed = @ \ {a}]
      /\ UNCHANGED site

\* Variant: a law that was repealed and is listed again stays repealed.
StoreLawStillRepealed ==
  LET l == run.law
  IN  /\ l # Null
      /\ laws' = [laws EXCEPT ![l] = [mst |-> run.list[l],
                                      repealed |-> laws[l] # Null /\ laws[l].repealed]]
      /\ articles' = [articles EXCEPT ![l] = Overlay(Detail(l), @)]
      /\ chunks' = [chunks EXCEPT ![l] = Overlay(Detail(l), @)]
      /\ marked' = marked \ {<<l, a>> : a \in run.changed}
      /\ run' = [run EXCEPT !.law = Null, !.changed = {}, !.todo = @ \ {l}]
      /\ UNCHANGED site

\* embed_and_store_chunks, and the commit of the law with all its articles.
StoreLaw ==
  LET l == run.law
  IN  /\ l # Null
      /\ laws' = [laws EXCEPT ![l] = [mst |-> run.list[l], repealed |-> FALSE]]
      /\ articles' = [articles EXCEPT ![l] = Overlay(Detail(l), @)]
      /\ chunks' = [chunks EXCEPT ![l] =
                      [a \in ArticleNos |-> IF a \in run.changed THEN Detail(l)[a] ELSE @[a]]]
      /\ marked' = marked \ {<<l, a>> : a \in run.changed}
      /\ run' = [run EXCEPT !.law = Null, !.changed = {}, !.todo = @ \ {l}]
      /\ UNCHANGED site

\* Variant: without the rollback, the row of the law that was flushed is
\* committed with the next law.
LawFailsHalfway(l) ==
  /\ run.phase = "laws" /\ l \in run.todo /\ run.law \in {Null, l}
  /\ laws' = IF run.law = l THEN [laws EXCEPT ![l] = [mst |-> run.list[l], repealed |-> FALSE]] ELSE laws
  /\ run' = [run EXCEPT !.law = Null, !.changed = {}, !.todo = @ \ {l}]
  /\ UNCHANGED <<site, articles, chunks, marked>>

\* Variant: without the rollback, the changed articles stay in the session.
LawFailsInSession(l) ==
  /\ run.phase = "laws" /\ l \in run.todo /\ run.law \in {Null, l}
  /\ run' = [run EXCEPT !.law = Null, !.todo = @ \ {l}]
  /\ UNCHANGED <<site, db>>

\* A request that fails for good, a law without articles, a failing model
\* or database: the transaction is rolled back and the run goes on.
LawFails(l) ==
  /\ run.phase = "laws" /\ l \in run.todo /\ run.law \in {Null, l}
  /\ run' = [run EXCEPT !.law = Null, !.changed = {}, !.todo = @ \ {l}]
  /\ UNCHANGED <<site, db>>

-----------------------------------------------------------------------------
(* Ending a run *)

Done == run.phase = "laws" /\ run.law = Null /\ run.todo = {}

Stale == {l \in Laws : run.list[l] = 0 /\ laws[l] # Null /\ ~laws[l].repealed}

\* _repeal_missing_laws: the rows stay, their articles and chunks go.
RepealMissing ==
  /\ Done /\ run.mode \in {"sync", "all"}
  /\ laws' = [l \in Laws |-> IF l \in Stale THEN [laws[l] EXCEPT !.repealed = TRUE] ELSE laws[l]]
  /\ articles' = [l \in Laws |-> IF l \in Stale THEN NoArticles ELSE articles[l]]
  /\ chunks' = [l \in Laws |-> IF l \in Stale THEN NoArticles ELSE chunks[l]]
  /\ marked' = {x \in marked : x[1] \notin Stale}
  /\ run' = NoRun
  /\ UNCHANGED site

EndNamed ==
  /\ Done /\ run.mode = "named"
  /\ run' = NoRun
  /\ UNCHANGED <<site, db>>

\* A page that cannot be fetched, or the command is killed.
Abort ==
  /\ run # NoRun
  /\ run' = NoRun
  /\ UNCHANGED <<site, db>>

-----------------------------------------------------------------------------

Init ==
  /\ listing = <<>>
  /\ published = [l \in Laws |-> <<>>]
  /\ laws = [l \in Laws |-> Null]
  /\ articles = [l \in Laws |-> NoArticles]
  /\ chunks = [l \in Laws |-> NoArticles]
  /\ marked = {}
  /\ run = NoRun

Next ==
  \/ \E l \in Laws, v \in Version : Publish(l, v)
  \/ \E l \in Laws : Withdraw(l)
  \/ \E mode \in {"sync", "all"} : StartSync(mode)
  \/ \E l \in Laws : StartNamed(l)
  \/ FetchPage
  \/ Compare
  \/ \E l \in Laws : UpsertLaw(l)
  \/ StoreLaw
  \/ \E l \in Laws : LawFails(l)
  \/ RepealMissing
  \/ EndNamed
  \/ Abort

Spec == Init /\ [][Next]_lawVars

-----------------------------------------------------------------------------
(* Safety *)

\* The search index is never behind the texts: an article is stored with
\* the chunks of exactly its text, and no chunk without its article.
ChunksMatchText == chunks = articles

\* Of a law in force every article that its stored version has is stored.
StoredIsComplete ==
  \A l \in Laws : laws[l] # Null /\ ~laws[l].repealed =>
    \A a \in ArticleNos : published[l][laws[l].mst][a] \in {Null, articles[l][a]}

\* No failure or kill leaves a law that is never completed: whatever its row
\* says, a law in force is complete, and a law that is listed and that the
\* comparison skips for its MST has every article of the listed version with
\* its text.  So one that was emptied as repealed is collected when it is
\* listed again, although its MST is the stored one.
SkippedIsComplete ==
  /\ StoredIsComplete
  /\ \A l \in Laws \ ToProcess : run.list[l] # 0 =>
       \A a \in ArticleNos : Detail(l)[a] \in {Null, articles[l][a]}

\* A repealed law has no articles, and articles belong to a law in force.
RepealedIsEmpty ==
  \A l \in Laws : laws[l] = Null \/ laws[l].repealed => articles[l] = NoArticles

\* Searches between two commits never see a law half amended: all articles
\* that a published version has come at once, over those there were, or all
\* articles vanish at once.
ArticlesChangeByVersion ==
  [][\A l \in Laws : articles'[l] # articles[l] =>
       \/ articles'[l] = NoArticles
       \/ \E k \in DOMAIN published[l] : articles'[l] = Overlay(published[l][k], articles[l])]_lawVars

-----------------------------------------------------------------------------
(* Refinement *)

\* What searches find of a law are its chunks.
Promise == INSTANCE Corpus WITH rows <- laws, found <- chunks

\* The command keeps its promise to the searches: whatever is published
\* between its requests, fails or is killed, one commit lays a whole version
\* of a law, and no older one than it had, over what they find of it, or takes
\* all of it away.  Articles the version no longer has are still found, see
\* DeletedIsNotStored.
KeepsPromise == Promise!Spec

-----------------------------------------------------------------------------
(* The inductive invariant behind them: what is known of a run in the       *)
(* middle, whatever the site publishes meanwhile.                           *)

\* The versions that are listed, stored or about to be collected exist.
VersionsExist ==
  /\ \A k \in DOMAIN listing : published[listing[k]] # <<>>
  /\ \A l \in Laws : laws[l] # Null => laws[l].mst <= Len(published[l])
  /\ \A l \in run.todo : run.list[l] # 0

\* Nothing is collected before the list has been read and compared.
ListComesFirst == run.phase # "laws" => run.todo = {} /\ run.law = Null

\* An open transaction embeds just what differs from the stored articles.
OpenLawFits ==
  run.law # Null =>
    /\ run.law \in run.todo
    /\ run.changed = {a \in ArticleNos : NeedsEmbedding(articles[run.law][a], Detail(run.law)[a])}

\* What is listed is at least as new as what is stored.
ListIsNewer ==
  \A l \in Laws : run.list[l] # 0 /\ laws[l] # Null => laws[l].mst <= run.list[l]

IInv ==
  /\ TypeOK
  /\ VersionsExist
  /\ ListIsNewer
  /\ ListComesFirst
  /\ OpenLawFits
  /\ ChunksMatchText
  /\ StoredIsComplete
  /\ RepealedIsEmpty

-----------------------------------------------------------------------------
(* What comments in the code say and a change of the site refutes *)

\* "Deleted articles are not stored": of a law in force nothing is stored
\* that the collected version does not have.
DeletedIsNotStored ==
  \A l \in Laws : laws[l] # Null /\ ~laws[l].repealed =>
    \A a \in ArticleNos : published[l][laws[l].mst][a] = Null => articles[l][a] = Null

=============================================================================
