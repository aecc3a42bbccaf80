# Law Owly in TLA+

Law Owly (this repository) takes reports of workplace incidents, finds the
articles of law that apply to them with a vector search and an LLM, and lets
managers review them. This directory holds TLA+ models of the parts of it in
which several things happen at once or half-way, the TLC configurations that
check them, and TLAPS proofs about all of them but the checks of the monitor.

- [The system](#the-system)
- [Which module models what](#which-module-models-what)
- [Fairness](#fairness)
- [The runs](#the-runs)
- [What the code does that its comments deny](#what-the-code-does-that-its-comments-deny)
- [What is proved](#what-is-proved)
- [What is not modelled](#what-is-not-modelled)
- [Plan](#plan)

To check a module: `tlc -workers 2 -config incident_workflow.cfg MCIncidentWorkflow.tla`;
to check the proofs: `tlapm IncidentWorkflowProofs.tla`. `PROJECT.json` maps
every definition to the lines it stands for and lists, for every property, a
plausible mistake in the code that breaks it.

## The system

One FastAPI process (`src/app`) over PostgreSQL with pgvector, Neo4j and
Gemini; two commands run by hand, `python -m app.ingest` and
`python -m app.graph_ingest`; and a second FastAPI process that monitors all of
it (`src/ops`).

| Part | State it keeps | Operations | What is hard |
|---|---|---|---|
| Incident workflow (`routers/incidents.py`) | `incidents`, `incident_events`, `incident_comments` | create, edit, comment, change of status, replacement of citations | handlers run in a thread pool, each with its own session under READ COMMITTED; they decide on a copy, call an LLM for seconds and then write |
| Accounts and roles (`routers/settings.py`, `main.py`) | `users` | change of one's role, deletion of one's account | a request in flight carries a detached copy of the user; rows of the deleted user are kept with their references nulled |
| Requests: sessions and sign-up (`auth.py`, `routers/auth.py`), the middleware (`main.py`), the pool (`db.py`) | `user_sessions`; the connections of the pool; one event loop | find the user of a session, log in, log out, sign up, expiry on use | two sign-ups of one name; the middleware and one handler wait for a connection on the event loop, which others need to give theirs back |
| Law collection (`ingest.py`, `parser.py`, `law_api_client.py`) | `laws`, `articles`, `article_chunks` | incremental run, `--all`, by name | the site changes while it is read page by page; any request fails; the command is killed; a law is one commit |
| Graph of articles (`graph_ingest.py`) | Neo4j nodes and edges, `articles.graph_synced_at` | one LLM call, some MERGEs and one commit per article | two databases without a common transaction, beside the collector on the same rows; an LLM quota that ends the run |
| References by pattern (`graph_references.py`) | Neo4j edges | the same edges without an LLM, in batches | references across laws create nodes of laws that are not collected |
| Graph of reports (`graph_incidents.py`) | Neo4j Incident nodes and CITES edges | `sync_incident` after a commit | several auto-committed statements, failures only logged, syncs of one report overlap |
| Search (`retrieval.py`, `graph_retrieval.py`, `rerank.py`) | a process-wide cache: does the graph have articles | hybrid search over the chosen laws, then the graph around the best of them | three reads at different times while laws and choices change; threads overwrite each other's verdict in the cache; Neo4j down |
| Analysis (`annotate.py`, `issues.py`, `citations.py`, `chunking.py`) | none | issues, one LLM call per unit in a pool, citations merged; also as a stream | order of results, partial failure, offsets |
| Choice of laws (`law_catalog.py`) | `user_law_selections` | replace the selection | DELETE and INSERT by two saves |
| Start-up (`migrate.py`, `seed.py`, `regions_seed.py`) | the schema, `regions`, categories, where reports and users are | migrations in two stages with seeds between, on every start | databases of older versions; a crash between any two transactions |
| Monitor (`src/ops`) | counters, last snapshot, SQLite history | poll every few seconds, refresh button | two collectors of one log; one-second resolution of the log's filter |

They interact through the two databases only, with one exception: the handlers
of the incident workflow call the analysis and `sync_incident` directly. The
collector and the graph command are separate processes that share the rows of
`articles`: the collector clears `graph_synced_at` when it stores a changed
text, and the graph command sets it when it has drawn an article.

What makes each part correct: the history of a report accounts for its state
and only ever grows; the manager in charge took charge; nothing but the review
side completes a report; a failing LLM never costs a report. The search index is
the stored text; a law that is skipped because its serial number is known is
complete; a repealed law is empty; a search never sees half an
amendment, nor an older version of an article after a newer one of its law. An
article that is marked as drawn is drawn, and is not sent to the LLM again. The
graph of a report is made of its committed citations. A result names articles
of chosen laws, each once, and a graph that has been filled gets used. The list
of an analysis depends on the answers and not on their order, and loses nothing
that was shown. Whoever has a session knows the password; a save of the choice
of laws is exact; every request is answered. The process serves in the end,
from a database of an older version in which no row stands in the way of the
merge of provinces, and loses no place. The monitor skips no request, counts none
twice when its calls follow each other, and shows what lasts as long as its
databases answer what they are asked.

## Which module models what

**`IncidentWorkflow`** models the handlers of `routers/incidents.py` and the
account operations that touch reports. `row`, `events`, `comments`, `stored`
are the tables, `accounts` and `managers` the users with their role, and
`req[t]` is the request a worker thread serves: `seen` is the row as the
session loaded it, `new` the same object with the handler's assignments. A
request begins (`CreateIncident`, `EditIncident`, `AddComment`,
`UpdateIncidentStatus`, `OpenReview`), with the guards of its handler on what it
just read; if it has a text to analyse, `AnalysisSucceeds` or `AnalysisFails`
follows; then it ends in `Commit` or, when a foreign key is gone, in
`CommitFails`. Between these steps every other thread may step. Two things are
modelled because the properties depend on them:

- `Flush`: SQLAlchemy's UPDATE names only the columns that differ from what was
  loaded. This is what keeps a conclusion alive under an overlapping edit
  (`EditKeepsStatus`), and what its mutant takes away.
- `AnalysisFails`: the handler rolls back, which expires the loaded object, so
  an edit goes on with a fresh copy (its check of the status is not repeated).

`OpenReview` and `ReplaceCitations` are the page on which a manager edits the
markers and the request that saves them: offsets are those of the text the page
showed. The form is one value, a citation list the text it was computed for.

**`Dossier`** is the abstract specification of what whoever reads these tables
may see: a report is opened (`File`), written anew by its creator (`Revise`),
talked about (`Say`), decided on (`Decide`), marked (`Mark`), and accounts
`Leave`. Each is one step of one existing account, with its event or message, and
writes only its own columns; it has no requests, sessions, analyses and roles.
Where it is nondeterministic is where the code loses something to a race: an
operation may leave a column as it finds it. `IncidentWorkflow` implements it with
the tables mapped to themselves (`KeepsPromise`): one commit is one operation,
`DeleteAccount` is `Leave`, all else stutters.

**`LawIngest`** models `app/ingest.py` over a site that publishes, amends,
withdraws and revives laws (`Publish`, `Withdraw`). `run` is the command: it
reads the list page by page (`FetchPage`), compares (`Compare`), and for each
law opens a transaction (`UpsertLaw`: detail, law row, articles by hash) and
commits it with the new chunks (`StoreLaw`); `LawFails` is every way a law can
fail, after which the run goes on, and `Abort` a page that cannot be fetched or
a kill. At the end `RepealMissing` empties the laws that were not on the list.
A serial number is the number of a version of its law.

**`Corpus`** is the abstract specification of what a search may see of this:
`rows` and `found`, and three actions. A law is published, collected as a whole
(`Collect`: one published version, none older than the last, laid over what is
found; an article which that version no longer has stays, as in the code, see
`vanished_article` below), and repealed with everything that was found of it. So
each text that is found is of a published version, but all of them together need
not be one. It has no pages, no transactions and no failures. `LawIngest`
implements it with `rows <- laws, found <- chunks` (`KeepsPromise`).

**`LawListing`** adds to `LawIngest` one history variable, the laws that have
been on the list since the run began, for a single property.

**`GraphIngest`** extends `LawIngest`: `worker` is `graph_ingest_all` on the same
tables. `TakeArticle` reads the text as the session has it (SQLAlchemy keeps
what it loaded until a commit) and begins the LLM call, `MergeGraphData` draws,
`Mark` sets and commits the mark; `ExtractionFails`, `RowIsGone` (the
collector deleted the row) and `StopGraph` (quota, limit, kill) are the ways
out. The collector's row locks hold `Mark` back (`Locked`).

**`IncidentGraph`** models `sync_incident` and the three handlers that call it:
`Save` is their commit, then `Refresh`, `MergeReport`, `ClearCites`,
`LinkCitation` once per citation, `EndSync`; `SyncFails` may end it anywhere.
`past`, and the fields `alone` and `had` of a request, are history for the
properties only.

**`Requests`** models what happens to every request of the application before
and around its handler. `free` counts the connections of the pool, `loop` is the
request that occupies the event loop, `req[r]` where a request is. The
middleware (`Dispatch`, `Look`, `DropExpired`) talks to the database on the loop
without awaiting; a handler runs in a thread, takes a connection with its first
statement (`CheckoutInThread`, or `CheckoutFails` when the pool's time-out has
passed) and is closed on the loop (`Close`); a commit gives the connection back,
and what is read after it takes one again. Handlers: a page, log-in
(`CheckPassword`, `CreateSession`), sign-up (`CheckName`, `Register`,
`CreateSession`), log-out (`RevokeSession`) and the two that save the choice of
laws, one of which is a coroutine (`EnterLoop`) and does all of it on the loop.
The save itself is statement by statement: `BeginSave` reads, `Delete` and
`Insert` wait for rows an open transaction has changed (`Locked`), `CommitSave`.

**`Search`** models `hybrid_search`: the vector query, the load of its chunks, the
ranking, the question whether the graph has articles, its expansion around the
best of them and the rows of what it adds, each in a step of its own, while the collector replaces or empties a law, the user saves another
choice and Neo4j fills, goes and comes back. `populated` and `recent` are
`_graph_populated` and the recheck interval, shared by the threads; a search
looks, and caches its verdict later. Distances and scores are any order.

**`Spans`** has the pure functions of `chunking.py` and `citations.py`
(sentences, windows with overlap, quotes that are found although their blanks
differ, the merge of citations) on texts as sequences of characters;
**`Analysis`** the generator of `annotate.py` that uses them: one call for the
issues, a unit for each issue and each chunk, a pool of threads with a call per
unit, answers and failures in any order (`StartCall`, `EndCall`, `TakeCall`),
the merge (`Finish`), and a browser that may leave between any two events.
`KeptIssues` tells issues apart by the name that the LLM gave (`issues.py:169`),
`Issue` stores one without a name under that of its perspective (177), so two
issues may be kept that have one name.

**`Startup`** models `on_startup`, one transaction per action, on the databases
`Init` allows: empty, of this version, of one with other regions, of one with
sites instead of regions, and of one that died between the two. `KeysHold` is
the foreign keys, a step that breaks one fails and ends the process (`Fails`);
`Die` may do so anywhere, with another image the next time. The place of a report
is looked up before it is stored (`TakePlace`, `incidents.py:138`); the two codes
of a user are stored as the form sends them (`ChoosePlace`,
`routers/auth.py:160`, `settings.py:129`), so nothing but the foreign keys holds
of them, in the older databases too.

**`AccessLog`** models `collect_access_log`: a call copies the last time and the
lines seen at it (`CopyLast`), reads the log without the lock (`ReadLog`, by
seconds and up to a number of lines, as Docker's filter and the code cut it) and
applies the result (`CountLines`). **`Monitor`** models `poll_once` with the
checks that answer at moments of their own and the snapshot that is replaced by
whichever poll ends. A check of a database connects, which has a time-out, and
then asks (`CheckAsks`), which has none (`checks.py:125`, `activity.py:90`): its
answer comes when the server is not `frozen`, and the poll waits for it.

`MC...` modules give TLC the values of constants and the symmetry sets;
`...Proofs` modules hold the proofs. A definition introduced by "Variant:" is a
mistake the code could contain, kept beside the definition it would replace;
nothing uses it in the specifications.

## Fairness

The specifications of reports, laws and graphs assume none: their properties are
safety properties, commands are run by hand, and any step may never come. The
others state liveness, and only the fairness the code gives them:

| Module | Assumed | Because |
|---|---|---|
| `Requests` | `SF` of each request's own steps and of its turns on the loop; none of arrivals | the pool's wait has a time-out of 30 s, PostgreSQL wakes who waits for a row when the transaction that has it ends, and asyncio takes ready callbacks in turn. Strong, because a connection or the loop may be free and taken again and again before a request's turn comes |
| `Search` | `WF` of each search's next step and of the passing of the recheck interval | a statement or query returns or raises; none of beginning a search, so the property speaks of runs in which searches keep coming |
| `Analysis` | `WF` of the generator, of the pool's threads and of answers | the LLM client answers or raises; nothing is assumed of the browser |
| `Startup` | `WF` of starting and of the steps of the start | `restart: unless-stopped` in the compose file; the number of crashes is finite |
| `AccessLog` | `WF` that the poller calls again and that a call ends, `SF` of its reading the log | `poller()` is a loop that catches everything; a call that times out is followed by one that does not: Docker does not refuse for ever |
| `Monitor` | `WF` of the poller's next poll, of each check's next step and of the end of a poll | the same loop; connecting has a time-out, and the web check and those of Docker have one for all they do. A query has none: once a database has been asked, its answer is assumed only while it is not frozen, and the property excepts a poller that hangs in one |

Nothing is assumed of the refresh button, of restarts, or of the world.

## The runs

| Run | Instance | Shows |
|---|---|---|
| `incident_workflow` | 2 accounts, 1 report, 2 threads, 1 text, up to 3 history rows and requests | `StatusIsLogged`, `AssigneeTookCharge`, `RequesterSideIsCreators`, `HistoryIsAppendOnly`, `OnlyReviewCompletes`, `EditKeepsStatus`, `ReportIsKept`, and the refinement `KeepsPromise` |
| `law_ingest` | 2 laws, 2 articles, 2 texts, 3 versions in all, 1 law per page | `ChunksMatchText`, `SkippedIsComplete`, `RepealedIsEmpty`, and the refinement `KeepsPromise` |
| `graph_ingest` | the same with 1 article per law, beside the graph command | `MarkedIsExtracted`, `MarkedIsSkipped` |
| `graph_sync` | 2 threads, 2 articles, one report with a region and one without | `CitesWereCommitted`, `LoneSyncIsExact` |
| `requests` | 2 requests of any kind at a time, 2 browsers, 2 laws of which one is repealed, pools of 1 and 2 connections | the accounting of the pool and the loop (`TypeOK`), `SessionNeedsPassword`, `SaveIsExact`, `EveryRequestIsAnswered` |
| `search` | 2 threads, 2 articles of 2 laws in 2 parts, 1 commit at a time that changes something | `ResultsWereChosen`, `NoArticleTwice`, `GraphComesAlive` |
| `analysis` | 3 texts, 2 lists of issues, 2 candidate lists, 3 answers, a pool of 2; all texts of up to 5 characters for the functions | `DismissedIsNotArgued`, `AnswerIsJudged`, `ResultIgnoresOrder`, `DoneCoversEmitted`, `ChunksCoverText`, `QuoteIsLocated`, `SessionIsClosed` |
| `startup` | a report and a user, 3 provinces of which one is merged away, 3 cities, two listed sites, one of them in the province that is merged away, and an unlisted one, 3 crashes | `ServesCleanData`, `PlaceIsKept`, `ServesInTheEnd` |
| `access_log` | the poller and one refresh, 2 ticks to a second, 3 ticks, 3 lines, 2 lines per call | `NothingSkipped`, `CountedOnce`, `SeenIsAtLast`, `EveryRequestCounted` |
| `monitor` | the poller and one refresh; the web check and those of the two databases | `LastingStateIsShown` |
| `edit_after_completion`, `legacy_site` | the smallest that has the behaviour | one refuted statement each, see below |

*Why the bounds are enough.* Requests about different reports share no row but
that of their user, so one report is what they can quarrel about; two threads
give every overlap of two handlers, and a third account or thread adds no new
pair. (The refuted statements about managers need three accounts, and their
configurations have them.) `MaxLog = 3` lets a report be created, then two
requests overlap on it, or three follow each other. `StatusInputs` leaves out of
the six statuses those that no guard looks at. In `LawIngest` one law per page
puts a page boundary between any two laws, three versions let a law be
enacted, amended and amended again, or amended around another, with a
withdrawal and a return anywhere; two articles are needed for an amendment to be
half stored. The graph command works article by article, so one article per law
and two laws suffice for a deletion under its feet. Two threads and two articles
are the smallest instance in which a sync is interrupted between two links.

In `Requests` two requests and one connection are the smallest instance in which
the loop waits for a connection whose holder waits for the loop, and two
connections the smallest in which two saves overlap; there is no bound on how
many requests follow each other. In `Search` two articles of two parts with a
pool of two let one article take both places, one seed lets the graph bring the
other; one commit can fall between any two reads. In `Analysis` a pool of two
threads gives every order of two answers, and there are more units than threads,
so that calls wait, overlap and fail one by one; the texts of five characters
over letter, blank and full stop have every arrangement of two sentences with
blanks around them. `Startup` needs one province that is merged away, one that
takes it over and one that is neither, and a site in each of the first and the
last. `ServesInTheEnd` has a hypothesis, `InTheWay`: the rows on which the merge
of provinces is known to fail, a report or user at a listed site in a merged province
(the run `legacy_site`) and a user whose city is a merged province. `Monitor`
has one check whose answers all have a time-out, one that must connect before it
asks, and one that asks over a connection it has. Three crashes can hit three
different steps of one repair. `AccessLog` needs two ticks in a second (for lines in
one second, and for a window that begins in the middle of one), and a limit of
two lines so that it is met.

`CHECK_DEADLOCK FALSE`: in `IncidentWorkflow`, when all accounts are deleted
nothing more happens, as in the system; an analysis ends; a process that serves
and whose rows have places has nothing to do in `Startup` (crashes are bounded);
in `AccessLog` the bounds on time and lines let the world stop.

## What the code does that its comments deny

The two runs with `expect: violation` check a statement that a comment makes and
TLC refutes; the other configurations in the table are kept for whoever wants to
see the behaviour (`tlc -config <name>.cfg <module>`).

| Configuration | Statement | What happens |
|---|---|---|
| `edit_after_completion` (run) | a completed report cannot be edited (`incidents.py:310`) | the check comes before the analysis, the write after it |
| `legacy_site` (run) | data with sites is moved to regions without loss (`migrate.py:126`, 135) | the site in Gwangyang becomes a city whose code begins with a province that was merged away: a foreign key fails at every start |
| `race_for_assignment` (`MCIncidentWorkflow`) | who first presses "start review" is fixed as the manager in charge (`incidents.py:510`) | two managers read NULL, the second commit replaces the first |
| `vanished_article` (`MCLawIngest`) | deleted articles are not stored (`parser.py:85`) | an article deleted by an amendment keeps its row and chunks |
| `law_missed_on_page` (`LawListing`) | laws no longer listed are repealed (`ingest.py:231`) | a law that slips to an earlier page is missed, and repealed |
| `stale_mark` (`MCGraphIngest`) | with a changed text the relations no longer hold (`ingest.py:103`) | the mark cleared for a new text is set again for the old one |
| `removed_citation` (`MCIncidentGraph`) | removed citations are cleared from the graph (`graph_incidents.py:32`) | an older list is drawn after a newer one |
| `frozen_database` (`Monitor`) | the time-out of one target does not push back the checks of the others (`state.py:92`) | the checks run side by side, but the snapshot waits for all, and a query to a database that froze after connecting has no time-out: the pages keep showing the old state of everything |
| `dismissed_yet_cited` (`MCAnalysis`) | the screen does not show articles and "nothing applies" for one perspective at once (`issues.py:185`) | only issues are compared with the dismissed perspectives; a chunk is analysed with the laws of each category that was found for it, and what it cites there appears under a dismissed one |
| `wrong_anchor` (`MCAnalysis`) | a quote is not anchored where the same words stand for something else (`citations.py:103`) | a quote with other blanks is looked for in the whole text first |

Also: the status of a report moves in more than the two places that
`LawGraphRAG_Technical_Document.md:713` names; an edit submits a draft, and takes
a report under review back to draft.

## What is proved

`IncidentWorkflowProofs`, for all accounts, reports, threads, texts and bounds:
`Spec => []TypeOK`, `[]StatusIsLogged`, `[]AssigneeTookCharge`,
`[]RequesterSideIsCreators`, and the four action properties
`HistoryIsAppendOnly`, `OnlyReviewCompletes`, `EditKeepsStatus` and
`ReportIsKept`. None of the three invariants is inductive: a commit
writes what its request decided earlier, so they need to be told what a request
in flight may hold. `IInv` adds `RequestFits` (a status or a manager in charge that
differs from the loaded one is accompanied by an event; a request in the name of the requester
belongs to the creator as long as the account exists), `CreatesApart` (two
reports being created have different ids) and `UnstoredIsBlank`. The argument is
by actions: `Handler...` lemmas show that a request begins fit, the lemmas on
`Commit` that a fit request leaves the tables consistent whatever was committed
meanwhile (`Flush` keeps a column or takes the new one, and a new one is logged),
and the ones on `DeleteAccount` that forgetting a user forgets them everywhere.
The action properties need a second invariant on top, `OutcomeFits`: which status
a request of each kind may be about to write, through a failed analysis as well.

`Implementation` is the refinement, `Spec => KeepsPromise`. It needs a third
invariant, `ColumnsFit`: which columns a request of each kind may be about to
write, and that a message has an event exactly when it moves the report, and then
of the outcome of its kind. With the three, `Flush` turns the commit of each kind
of request into its operation on the abstract report (one `Promised...` lemma
each): a column that the request did not change is the one in the table by now,
which the abstract operation allows.

`IncidentGraphProofs`, for all reports, threads and articles: `[]TypeOK`,
`[]CitesWereCommitted` and `[]LoneSyncIsExact`. The invariant says that every
list under way is part of what was committed, and `Undisturbed`: a request that
is alone is the only one with its report, its list is the committed one from the
refresh on, and from the removal on the edges are the linked part of the list
that had nodes. `OthersUndisturbed` shows once that a step on one report leaves
those that are alone with another as they are; each action then only has to
treat its own thread.

`IngestProofs`, for all laws, articles and texts, any length of a page and any
number of versions: `[]TypeOK`, `[]ChunksMatchText`, `[]SkippedIsComplete`,
`[]RepealedIsEmpty`, the action property `ArticlesChangeByVersion`, and the
refinement `Spec => KeepsPromise`. The tables
are written by two commits only, but what these write was read before, so the
invariant says what is known of a run in the middle: versions that are listed,
stored or about to be collected were published (`VersionsExist`; the site takes
nothing back, so amendments leave them as they were), what is listed is at least
as new as what is stored (`ListIsNewer`), nothing is collected before
the list has been compared (`ListComesFirst`), and an open transaction embeds
exactly the articles that differ (`OpenLawFits`). `EmbeddingMatches` then shows
that replacing the chunks of those articles yields the chunks of the new texts.
The refinement is shown step by step from this invariant: `StoreLaw` is one
`Collect` because the chunks matched the articles before it and the list is not older
than the row, `RepealMissing` one
`Repeal`, `Publish` itself, and everything else a stutter.

Its second part composes: the collector's invariant holds beside the graph
command (`LawInvStep`: the command changes only the set of marks, of which
nothing else speaks), and with it `[]GraphTypeOK`, `[]MarkedIsExtracted`,
`MarkedIsSkipped` and again `KeepsPromise`. `WorkerFits` is what is known of the
command in the middle: what it has still to do is stored or known to be deleted
and has no mark, and what it is about to mark is drawn.

`RequestsProofs`, for any number of requests, browsers, laws and connections:
`[]SessionNeedsPassword`, `SaveIsExact` and `[]TypeOK`. `IInv` says that a request
that is about to create a session has proved whose it is (`Proven`), that a
request belongs to a browser (`Named`), and that a save which is alone will
delete exactly what is selected of the laws it may change (`Exact`). `PoolInv`
says in which phases a request holds a connection and in which it occupies the
loop (`Sound`, `Occupies`), from which the count of the free ones follows with
the library's theorems on cardinality.

`StartupProofs`, for any map, merges, rows, sites and number of crashes:
`[]ServesCleanData` and `PlaceIsKept`. `IInv` says what has been done at each
point of the start (`DoneSoFar`), which regions can be there (`RegionsFit`), that
a report with a city is in the province of its code or in the one that took it
over, and that a user has only codes that are there (`RowsFit`); a crash only makes the point earlier, of which less is said.

`AccessLogProofs`, for any number of polls, any limit of lines and any number of
ticks to a second: `[]LogTypeOK`, `[]NothingSkipped`, `[]CountedOnce` and
`[]SeenIsAtLast`. The heart of `IInv` is `GoesOn(t, s)`: whoever goes on from the
time `t`, leaving out the lines `s`, skips no request. It holds of the tally and,
because calls may overlap and the last to end decides, of the copy of every call
under way (`NoGap`); it survives a read that was cut short because what was read
has no gap (`RawHasNoGap`). `NoRepetition` says that without overlaps a call's
copy is what the tally still holds, and that whatever was counted lies before the
last time or was seen at it.

`SearchProofs`, for any threads, articles, laws, chunks and commits:
`[]TypeOK`, `[]ResultsWereChosen` and `[]NoArticleTwice`. `Fits` says of a search
under way what the properties say of its result, and that the laws selected now
are among those selected since it began, which is why a chunk or a neighbour
that passes the filter of its statement belongs in the result. The rest is about
sequences: an order of a set names each member once, a beginning of it too, and
so do two lists without common members one after the other.

`AnalysisProofs`, for any texts, codes, answers, candidates, limits, windows and
threads: the six safety properties of the run `analysis` and `[]TypeOK` (which no
run needs any more). Four theorems about the functions come first; they quantify
over all texts, quotes, sizes and citations, and the properties follow from them:

- `MergeIgnoresOrder` and `MergeCovers`. A sort returns a list of its elements in
  their order, each once, which is shown by ranks: among n things in a total order
  each number below n is the rank of exactly one. `IsFusion` says what merging is
  meant to return (every citation is covered, no entry spans a gap, entries of one
  article are apart); `FusedUpTo` says it of the loop after k citations, together
  with where the next one may begin, and `FusionIsUnique` that only one list does
  it. So the list depends on the set of citations alone.
- `QuotesAreLocated`. The characters that are not blank correspond to an ascending
  list of offsets, of which a slice takes an interval (`Splits`, `CompactOfSlice`):
  what is found among the ones is a place among the others, and back.
- `ChunksCoverAll`. `AreParts` (spans in order, apart, that leave out only blanks)
  holds of sentences, survives the merging of short ones, and chunks made of parts
  cover the text and go forward.

`AnalysisInv` then ties the stream to these functions: what was sent is, as a set,
what the answered calls cite; failures are counted, so they are all calls exactly
if none was answered; the last event is an error or the merged list accordingly.
For `DismissedIsNotArgued` it says that a unit is of an issue that was kept or of
the articles of one category, and `CitationsFor` that a citation takes its
perspective from its unit: what is shown under a dismissed one can only have come
from a chunk, and is of a law of that category.

A recursive function is unfolded in these proofs by hand: the library's theorems
for that take operators as parameters. `RepeatsExists` builds the values of a step
that stays in a set, the CHOOSE behind the definition then has that function to
choose, and `Induct` proves by induction over an interval that a set, given by what
is claimed, contains it.

Assumptions: `StatusInputs` are statuses, the bounds are numbers, a page has
at least one law, a pool at least one connection, `Null` is none of the ids,
articles, texts, rows and codes, no number and no pair of numbers, there are
finitely many articles to search, the reports with a region are reports, a merged
province is taken over by one that is not merged itself, a city is in a province
of the map; what is read by an analysis is text, and candidates are articles of
laws with a category (`InputsAssumption`). TLC evaluates them in the runs.

Only model-checked: `Monitor`, and all liveness: `EveryRequestIsAnswered`,
`GraphComesAlive`, `SessionIsClosed`, `ServesInTheEnd`, `EveryRequestCounted`,
`LastingStateIsShown`. Liveness under fairness and ENABLED are out of the prover's
reach.

## What is not modelled

- Of the modelled handlers: attachments (they are stored by the commit of their
  report or comment), the reviewer's note, the form's single columns, and
  `created_at`, by which the history is displayed. It is the start of the
  transaction, not of the commit, so the order of the models (that of the commits)
  is not always the displayed one.
- Overlapping runs of the collector: the command is run by hand. Retries inside
  one request of the site; a request here succeeds or fails for good. A
  collector beside a start of the application.
- `graph_references.py`: regular expressions over texts and idempotent batches
  of MERGE; nodes of Neo4j beyond their existence, so the properties that
  `MergeReport` sets and the edges of a report to its regions, which statistics and
  drawings read; targets of edges, two nodes for one region (the MERGE of regions has no
  uniqueness constraint behind it).
- The rules of `law_category.py`, the content of LLM answers, prompts and their
  parsing, distances, scores and embeddings.
- That an INSERT of several rows takes its locks one by one: two first saves of
  overlapping choices of laws (`law_catalog.py:106`) could wait for each other until
  PostgreSQL fails one of them. In `Requests` an insert is one step.
- The number of worker threads (40 by default), which is beyond the connections
  of the pool, and hashing of passwords. A change of the password
  (`settings.py:123`), which leaves the user's other sessions valid: a session is
  of whoever knew the password when it began.
- The threads of the monitor that a hung check keeps for good: enough of them
  would fill the pool of `to_thread` and hold back checks of other targets.
- Detected issues without a category, and two columns of the result that the LLM
  fills in. Of two citations of one article in one domain that begin at the same
  place, the merged list keeps the reason of the one that came first; the models
  have no reasons, so this is not part of `ResultIgnoresOrder`.
- Pages, statistics (`mypage_stats.py`), charts, the history of the monitor in
  SQLite, `graph3d.py` and browser scripts: read-only or rendering.
- The scripts that build documents.

## Plan

1. `graph_references.py` and nodes without a law in `GraphIngest`; two nodes per
   region in `IncidentGraph`; the displayed order of the history.
2. A start of the application beside a running collector (`seed.py:49`).
