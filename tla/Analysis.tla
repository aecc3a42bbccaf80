------------------------------ MODULE Analysis ------------------------------
(***************************************************************************)
(* The analysis of a text: annotate_text_stream of src/app/annotate.py,    *)
(* with src/app/issues.py and src/app/citations.py, and the endpoint of    *)
(* src/app/main.py that sends its events to the browser.  One LLM call     *)
(* finds issues; each issue and each chunk of the text is a unit; a pool   *)
(* of threads asks the LLM about each unit that has candidate articles;    *)
(* the answers are taken as they come and merged at the end.               *)
(*                                                                         *)
(* annotate_text, which the report handlers call, is the same with answers *)
(* taken in the order of the units and nobody who may leave.               *)
(***************************************************************************)
EXTENDS Spans

CONSTANTS
    Texts,          \* the texts that are sent, as Spans has them
    Codes,          \* DOMAIN_LABELS: its codes, in parts, by their numbers
    DomainLabel,    \* DOMAIN_LABELS: of each code its name
    Etc,            \* the number of the code 'etc'
    Category,       \* of each law the number of its code
    IssueReplies,   \* what the LLM may answer about issues
    DocLists,       \* what a search may find: sequences of articles
    Replies,        \* what the LLM may answer about a unit
    MaxIssues,      \* MAX_ISSUES
    Window, Overlap,\* of the chunks of a text: 4 and 1 in chunk_units
    Workers,        \* the threads of the pool: 5 in the code
    Samples         \* texts on which the functions of Spans are checked

ASSUME AnalysisAssumption ==
    /\ MaxIssues \in Nat \ {0} /\ Workers \in Nat \ {0}
    /\ Window \in Nat \ {0} /\ Overlap \in Nat

\* What is read is text; a failure is no reply.
ASSUME InputsAssumption ==
    /\ Texts \subseteq Seq(STRING) /\ Samples \subseteq Seq(STRING)
    /\ Codes \in Seq(Seq(STRING)) /\ Etc \in DOMAIN Codes
    /\ DomainLabel \in [DOMAIN Codes -> STRING]
    /\ Category \in Seq(DOMAIN Codes)
    /\ IssueReplies \subseteq
         [issues : Seq([code : Seq(STRING), label : STRING, query : STRING,
                        quotes : Seq(Seq(STRING))]),
          dismissed : SUBSET Seq(STRING)]
    /\ DocLists \subseteq Seq((DOMAIN Category) \X Int)
    /\ Replies \subseteq Seq([law : Int, no : Int, tail : BOOLEAN, quote : Seq(STRING)])
    /\ Null \notin Replies

VARIABLES
    phase,      \* where the generator is
    text,       \* the text of the request
    issues,     \* analysis.issues
    dismissed,  \* analysis.dismissed, by domain
    items,      \* the units, then unit_data: with their candidates
    call,       \* of each item its future
    emitted,    \* all_citations, each sent as an event
    failed,     \* how many answers taken were failures
    ending,     \* the last event: none, "error", or "done" with its list
    session     \* whether the database session of the request is open

vars == <<phase, text, issues, dismissed, items, call, emitted, failed, ending,
          session>>

Phases == {"received", "issues", "calling", "leaving", "ended"}

Silence == [type |-> "none"]
Error == [type |-> "error"]
DoneWith(citations) == [type |-> "done", citations |-> citations]

Init ==
    /\ phase = "received"
    /\ text \in Texts
    /\ issues = <<>> /\ dismissed = {}
    /\ items = <<>> /\ call = <<>>
    /\ emitted = <<>> /\ failed = 0
    /\ ending = Silence
    /\ session = TRUE

-----------------------------------------------------------------------------
(* issues.py *)

\* A code as it is, else the only one that begins like it, else 'etc'.
NormalizeDomain(code) ==
    LET longer == {d \in DOMAIN Codes : code # <<>> /\ IsPrefix(code, Codes[d])}
    IN IF \E d \in DOMAIN Codes : Codes[d] = code
       THEN CHOOSE d \in DOMAIN Codes : Codes[d] = code
       ELSE IF Cardinality(longer) = 1 THEN CHOOSE d \in longer : TRUE ELSE Etc

\* An issue as it is stored: one without a name has that of its perspective.
Issue(t, answered) ==
    LET domain == NormalizeDomain(answered.code)
    IN [domain |-> domain,
        label  |-> IF answered.label = "" THEN DomainLabel[domain] ELSE answered.label,
        spans  |-> ResolveSpans(t, answered.quotes)]

\* Issues in the order of the answer, without those that have no query or
\* come again, up to the limit.  What comes again is told by the name in the
\* answer, so that two issues that are stored may still have one name.
KeptIssues(t, answer) ==
    LET asked == {k \in DOMAIN answer : answer[k].query # ""}
        Key(k) == <<NormalizeDomain(answer[k].code), answer[k].label>>
        fresh == InOrder({k \in asked : \A j \in asked : j < k => Key(j) # Key(k)}, <)
    IN [i \in 1 .. Min({Len(fresh), MaxIssues}) |-> Issue(t, answer[fresh[i]])]

Established(kept) == {kept[i].domain : i \in DOMAIN kept}
\* Variant: what the answer dismisses, whatever it establishes.
DismissedDomains_All(codes, kept) == {NormalizeDomain(c) : c \in codes}
DismissedDomains(codes, kept) ==
    {NormalizeDomain(c) : c \in codes} \ Established(kept)

\* The units of a text, without candidates yet.
NoDomain == 0
Unit(domain, search, fallback) ==
    [domain |-> domain, search |-> search, fallback |-> fallback, docs |-> <<>>]
IssueUnit(t, issue) ==
    Unit(issue.domain,
         IF issue.spans = <<>> THEN << <<0, Len(t)>> >> ELSE issue.spans,
         issue.spans)
ChunkUnit(chunk) == Unit(NoDomain, <<chunk>>, <<>>)

Units(t, kept) ==
    LET chunks == ChunkText(SplitSentences(t), Window, Overlap)
    IN [i \in DOMAIN kept |-> IssueUnit(t, kept[i])]
         \o [i \in DOMAIN chunks |-> ChunkUnit(chunks[i])]

\* A blank text is not asked about; a failure leaves no issues.
ExtractIssues ==
    /\ phase = "received"
    /\ \/ UNCHANGED <<issues, dismissed>>
       \/ \E answer \in IssueReplies :
            /\ Compact(text) # <<>>
            /\ issues' = KeptIssues(text, answer.issues)
            /\ dismissed' = DismissedDomains(answer.dismissed, issues')
    /\ items' = Units(text, issues')
    /\ phase' = "issues"
    /\ UNCHANGED <<text, call, emitted, failed, ending, session>>

-----------------------------------------------------------------------------
(* The candidates *)

\* One search after the other; units nothing is found for are dropped.  The
\* event "issues" is sent and all calls are submitted.
RetrieveUnits ==
    /\ phase = "issues"
    /\ \E found \in [DOMAIN items -> DocLists] :
         LET kept == InOrder({i \in DOMAIN items : found[i] # <<>>}, <)
         IN items' = [k \in DOMAIN kept |-> [items[kept[k]] EXCEPT !.docs = found[kept[k]]]]
    /\ call' = [i \in DOMAIN items' |-> [pc |-> "waiting"]]
    /\ phase' = "calling"
    /\ UNCHANGED <<text, issues, dismissed, emitted, failed, ending, session>>

\* The database or the model of the search raises: the stream says so.
RetrievalFails ==
    /\ phase = "issues"
    /\ ending' = Error
    /\ items' = <<>>
    /\ phase' = "ended"
    /\ session' = FALSE
    /\ UNCHANGED <<text, issues, dismissed, call, emitted, failed>>

-----------------------------------------------------------------------------
(* The pool *)

Running == {i \in DOMAIN call : call[i].pc = "running"}
Waiting == {i \in DOMAIN call : call[i].pc = "waiting"}

\* A free thread takes the call submitted first.
StartCall(i) ==
    /\ phase \in {"calling", "leaving"}
    /\ i \in Waiting /\ \A j \in Waiting : i <= j
    /\ Cardinality(Running) < Workers
    /\ call' = [call EXCEPT ![i] = [pc |-> "running"]]
    /\ UNCHANGED <<phase, text, issues, dismissed, items, emitted, failed, ending, session>>

EndCall(i) ==
    /\ i \in Running
    /\ \E result \in Replies \cup {Null} :
         call' = [call EXCEPT ![i] = [pc |-> "ready", parsed |-> result]]
    /\ UNCHANGED <<phase, text, issues, dismissed, items, emitted, failed, ending, session>>

-----------------------------------------------------------------------------
(* What an answer cites: _citations_from_result *)

\* The candidate that is meant: by law and number, else the first one with
\* the number, for the LLM may write more than the name of the law.
MatchOf(docs, cited) ==
    LET exact == {k \in DOMAIN docs : /\ ~cited.tail
                                      /\ docs[k] = <<cited.law, cited.no>>}
        alike == {k \in DOMAIN docs : docs[k][2] = cited.no}
    IN IF exact # {} THEN docs[Min(exact)]
       ELSE IF alike # {} THEN docs[Min(alike)] ELSE Null

CitationsOf(t, item, cited) ==
    LET doc == MatchOf(item.docs, cited)
        spans == CitationSpans(t, item, cited.quote)
    IN [k \in DOMAIN spans |->
          [law    |-> IF doc = Null THEN cited.law ELSE doc[1],
           no     |-> cited.no,
           start  |-> spans[k][1],
           end    |-> spans[k][2],
           domain |-> IF item.domain # NoDomain THEN item.domain
                      ELSE IF doc = Null THEN NoDomain ELSE Category[doc[1]]]]

CitationsFromResult(t, item, parsed) ==
    FlattenSeq([k \in DOMAIN parsed |-> CitationsOf(t, item, parsed[k])])

TakeCall(i) ==
    /\ phase = "calling" /\ call[i].pc = "ready"
    /\ call' = [call EXCEPT ![i].pc = "taken"]

\* The generator takes an answer and sends its citations.
TakeResult(i) ==
    /\ TakeCall(i)
    /\ IF call[i].parsed = Null
       THEN failed' = failed + 1 /\ UNCHANGED emitted
       ELSE /\ emitted' = emitted \o CitationsFromResult(text, items[i], call[i].parsed)
            /\ UNCHANGED failed
    /\ UNCHANGED <<phase, text, issues, dismissed, items, ending, session>>

AllTaken == \A i \in DOMAIN call : call[i].pc = "taken"

\* Variant: one failure is enough.
AllFailed_Any == failed > 0
AllFailed == items # <<>> /\ failed = Len(items)

\* The end of the stream, and of the session.
Finish ==
    /\ phase = "calling" /\ AllTaken
    /\ ending' = IF AllFailed THEN Error ELSE DoneWith(MergeCitations(emitted))
    /\ phase' = "ended"
    /\ session' = FALSE
    /\ UNCHANGED <<text, issues, dismissed, items, call, emitted, failed>>

\* The browser is gone: at the next event it would send, the generator is
\* closed.  The pool is shut down, which waits for what was submitted.
Disconnect ==
    /\ phase = "calling"
    /\ phase' = "leaving"
    /\ UNCHANGED <<text, issues, dismissed, items, call, emitted, failed, ending, session>>

\* Variant: the session is closed at the end of the stream only.
Leave_KeepsSession ==
    /\ phase = "leaving"
    /\ Running \cup Waiting = {}
    /\ phase' = "ended"
    /\ UNCHANGED <<text, issues, dismissed, items, call, emitted, failed, ending, session>>
Leave ==
    /\ phase = "leaving"
    /\ Running \cup Waiting = {}
    /\ phase' = "ended"
    /\ session' = FALSE
    /\ UNCHANGED <<text, issues, dismissed, items, call, emitted, failed, ending>>

Calls == \E i \in DOMAIN call : StartCall(i) \/ EndCall(i)
Generator ==
    \/ ExtractIssues \/ RetrieveUnits \/ RetrievalFails
    \/ \E i \in DOMAIN call : TakeResult(i)
    \/ Finish \/ Leave

Next == Calls \/ Generator \/ Disconnect

(***************************************************************************)
(* The generator goes on while there is something to do, the threads of    *)
(* the pool take what waits, and the LLM answers each call or raises.  The *)
(* steps of the generator are told by what they do to phase and call.      *)
(***************************************************************************)
GoOn ==
    /\ phase # "ended"
    /\ phase = "calling" => AllTaken
    /\ phase = "leaving" => Running \cup Waiting = {}
    /\ phase' \in Phases \ {phase, "leaving"}
Fairness ==
    /\ WF_phase(GoOn)
    /\ WF_call(\E i \in DOMAIN call : TakeCall(i))
    /\ WF_call(Calls)

Spec == Init /\ [][Next]_vars /\ Fairness

-----------------------------------------------------------------------------
TextSpans == {span \in (0 .. Len(text)) \X (0 .. Len(text)) : span[1] < span[2]}
IsCitation(c) == /\ <<c.start, c.end>> \in TextSpans
                 /\ c.domain \in DOMAIN Codes \cup {NoDomain}
                 /\ c.law \in Int /\ c.no \in Int

TypeOK ==
    /\ phase \in Phases
    /\ text \in Texts
    /\ Len(issues) <= MaxIssues
    /\ \A i \in DOMAIN issues : /\ issues[i].domain \in DOMAIN Codes
                               /\ Range(issues[i].spans) \subseteq TextSpans
    /\ dismissed \subseteq DOMAIN Codes
    /\ phase \in {"calling", "leaving"} => DOMAIN call = DOMAIN items
    /\ \A i \in DOMAIN call : call[i].pc \in {"waiting", "running", "ready", "taken"}
    /\ Cardinality(Running) <= Workers
    /\ \A k \in DOMAIN emitted : IsCitation(emitted[k])
    /\ failed \in 0 .. Len(items)
    /\ ending.type \in {"none", "error", "done"}
    /\ session <=> phase # "ended"

(***************************************************************************)
(* A perspective that was dismissed is not argued, however the LLM spells  *)
(* codes and whichever answers come (issues.py:185-187): none of its       *)
(* issues is shown, and no article is shown under it on behalf of an       *)
(* issue, but only as the law of that perspective which a chunk calls for. *)
(***************************************************************************)
Shown ==
    Range(emitted)
      \cup (IF ending.type = "done" THEN Range(ending.citations) ELSE {})
DismissedIsNotArgued ==
    /\ dismissed \cap Established(issues) = {}
    /\ \A c \in Shown : c.domain \in dismissed =>
         c.law \in DOMAIN Category /\ Category[c.law] = c.domain

(***************************************************************************)
(* Part of the answers is better than none (annotate.py:143-145): the      *)
(* stream ends in an error only if every call failed, or the search did,   *)
(* and then nothing was sent before it; it ends in a list only if some     *)
(* call was answered, or there was nothing to ask.                         *)
(***************************************************************************)
Answered == {i \in DOMAIN call : call[i].pc = "taken" /\ call[i].parsed # Null}
AnswerIsJudged ==
    /\ ending.type = "error" => Answered = {} /\ emitted = <<>> /\ AllTaken
    /\ ending.type = "done" => (Answered # {} \/ items = <<>>) /\ AllTaken

(***************************************************************************)
(* The final list has the same places whichever call ended first.  (Which  *)
(* reason is kept, if two answers begin one place, is not in the model.)   *)
(***************************************************************************)
InUnitOrder ==
    FlattenSeq([i \in DOMAIN items |->
        IF i \in Answered THEN CitationsFromResult(text, items[i], call[i].parsed)
        ELSE <<>>])
ResultIgnoresOrder ==
    ending.type = "done" => ending.citations = MergeCitations(InUnitOrder)

(***************************************************************************)
(* The final list replaces what was shown so far (app.js) without losing   *)
(* any of it: each citation sent lies in one entry of its article and      *)
(* perspective, entries of one article are apart, and each begins and ends *)
(* where a citation does.                                                  *)
(***************************************************************************)
DoneCoversEmitted ==
    ending.type = "done" =>
      LET final == ending.citations IN
      /\ \A c \in Range(emitted) : \E k \in DOMAIN final :
           SameArticle(c, final[k]) /\ final[k].start <= c.start /\ c.end <= final[k].end
      /\ \A k \in DOMAIN final :
           /\ \E c \in Range(emitted) : SameArticle(c, final[k]) /\ c.start = final[k].start
           /\ \E c \in Range(emitted) : SameArticle(c, final[k]) /\ c.end = final[k].end
           /\ \A j \in DOMAIN final : SameArticle(final[j], final[k]) =>
                j = k \/ final[j].end < final[k].start \/ final[k].end < final[j].start

(***************************************************************************)
(* Chunks (chunking.py:107-137) leave out nothing but blanks, go forward,  *)
(* and none is contained in another: the last window is not repeated by    *)
(* shorter ones.  Whatever the sizes, with and without merging.            *)
(***************************************************************************)
ChunksCover(t, sentences, window, overlap) ==
    LET chunks == ChunkText(sentences, window, overlap) IN
    /\ \A i \in Offsets(t) : CharAt(t, i) \notin Blanks =>
         \E k \in DOMAIN chunks : chunks[k][1] <= i /\ i < chunks[k][2]
    /\ \A k \in DOMAIN chunks : k > 1 =>
         /\ chunks[k - 1][1] < chunks[k][1]
         /\ chunks[k - 1][2] < chunks[k][2]
ChunksCoverText ==
    phase = "received" =>
      \A t \in Samples, window \in 1 .. 3, overlap \in 0 .. 2, minChars \in {0, 3} :
        ChunksCover(t, MergeShortSentences(SplitSentences(t), minChars), window, overlap)

(***************************************************************************)
(* A quote of the text is found although its blanks differ (chunking.py:   *)
(* 73-74), what is found reads like the quote, and a quote that stands in  *)
(* the given part as it is, is found there.                                *)
(***************************************************************************)
Readings(t) == {Compact(Slice(t, <<i, j>>)) : i \in 0 .. Len(t), j \in 0 .. Len(t)}
QuoteFits(t, q, within) ==
    LET place == LocateQuote(t, q, Null)
        there == LocateQuote(t, q, within)
    IN /\ place # Null => Compact(Slice(t, place)) = Compact(q)
       /\ Find(t, Strip(q), within) # Null => within[1] <= there[1]
QuoteIsLocated ==
    phase = "received" =>
      \A t \in Samples :
        LET readings == Readings(t) IN
        \A q \in Samples :
          Compact(q) # <<>> =>
            /\ LocateQuote(t, q, Null) # Null <=> Compact(q) \in readings
            /\ QuoteFits(t, q, <<Len(t) \div 2, Len(t)>>)

(***************************************************************************)
(* The session of every request is closed, also when the browser leaves    *)
(* while calls run: else the pool of connections runs dry.                 *)
(***************************************************************************)
SessionIsClosed == <>[]~session

(***************************************************************************)
(* What citations.py:103 and chunking.py:76 say: a quote is looked for in  *)
(* the parts of the text the unit is about first, so that it is not        *)
(* anchored where the same words stand for something else.                 *)
(***************************************************************************)
StandsIn(span, quote) == LocateQuote(Slice(text, span), quote, Null) # Null
AnchorIsInUnit ==
    \A i \in Answered : \A cited \in Range(call[i].parsed) :
      LET search == Range(items[i].search)
          anchors == Range(CitationSpans(text, items[i], cited.quote))
      IN (\E span \in search : StandsIn(span, cited.quote)) =>
           \A a \in anchors : \E span \in search : span[1] <= a[1] /\ a[2] <= span[2]

(***************************************************************************)
(* What issues.py:185-187 is about: the page would show that there are     *)
(* articles and that the perspective does not apply, at once (app.js:91-92 *)
(* and render.js:98).                                                      *)
(***************************************************************************)
NothingUnderDismissed == \A c \in Shown : c.domain \notin dismissed
=============================================================================
