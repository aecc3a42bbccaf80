------------------------------- MODULE Spans -------------------------------
(***************************************************************************)
(* Where things are in a text: the pure functions of src/app/chunking.py   *)
(* and src/app/citations.py.  A text is a sequence of characters, of which *)
(* only blanks, line ends and full stops matter.  A span <<s, e>> is the   *)
(* half-open interval of the code, from 0: text[s:e].                      *)
(***************************************************************************)
EXTENDS Integers, FiniteSets, Sequences, SequencesExt, FiniteSetsExt

CONSTANT Null   \* None: no place

ASSUME NullAssumption == Null \notin Int /\ Null \notin Int \X Int

Blanks == {" ", "\n"}
Stops == {"."}

Slice(t, span) == SubSeq(t, span[1] + 1, span[2])
CharAt(t, i) == t[i + 1]
Offsets(t) == 0 .. Len(t) - 1

\* A set in the order of Precedes, which is total and strict.
InOrder(S, Precedes(_, _)) ==
    [k \in 1 .. Cardinality(S) |->
        CHOOSE x \in S : Cardinality({y \in S : Precedes(y, x)}) = k - 1]

\* Spans in the order of the text, as list.sort() orders pairs.
Before(a, b) == a[1] < b[1] \/ (a[1] = b[1] /\ a[2] < b[2])
Sorted(spans) == InOrder(spans, Before)

\* The characters that are not blank, and where they are.
NonBlanks(t) == {i \in Offsets(t) : CharAt(t, i) \notin Blanks}
OffsetsOf(t) == InOrder(NonBlanks(t), <)
Compact(t) ==
    LET offsets == OffsetsOf(t)
    IN [k \in DOMAIN offsets |-> CharAt(t, offsets[k])]

-----------------------------------------------------------------------------
(* chunking.py *)

\* A run of blanks after a full stop separates, and so does a line end.
IsSeparator(t, i) ==
    /\ CharAt(t, i) \in Blanks
    /\ \/ CharAt(t, i) = "\n"
       \/ \E stop \in 0 .. i - 1 : /\ CharAt(t, stop) \in Stops
                                  /\ \A k \in stop + 1 .. i : CharAt(t, k) \in Blanks

\* What separators leave, without the empty parts.
SplitSentences(t) ==
    LET kept == {i \in Offsets(t) : ~IsSeparator(t, i)}
        starts == {i \in kept : i - 1 \notin kept}
        End(start) == Min({e \in start + 1 .. Len(t) : e \notin kept})
    IN Sorted({<<start, End(start)>> : start \in starts})

\* Sentences are joined to the next until they have minChars characters; the
\* rest at the end goes to the unit before it.
MergeShortSentences(sentences, minChars) ==
    LET n == Len(sentences)
        joined[k \in 0 .. n] ==
          IF k = 0 THEN [units |-> <<>>, from |-> Null]
          ELSE LET acc == joined[k - 1]  s == sentences[k]
                   from == IF acc.from = Null THEN s[1] ELSE acc.from
               IN IF s[2] - from >= minChars
                  THEN [units |-> Append(acc.units, <<from, s[2]>>), from |-> Null]
                  ELSE [acc EXCEPT !.from = from]
        units == joined[n].units
    IN IF minChars = 0 THEN sentences
       ELSE IF joined[n].from = Null THEN units
       ELSE IF units = <<>> THEN << <<joined[n].from, sentences[n][2]>> >>
       ELSE Append(Front(units), <<Last(units)[1], sentences[n][2]>>)

\* Variant: windows go on after the one that reaches the end.
ChunkText_ToTheEnd(sentences, window, overlap) ==
    LET n == Len(sentences)
        step == Max({window - overlap, 1})
        starts == {i \in 0 .. n - 1 : i % step = 0}
    IN Sorted({<<sentences[i + 1][1], sentences[Min({i + window, n})][2]>> : i \in starts})

\* Windows of `window' units, each sharing `overlap' with the one before,
\* until one reaches the end.
ChunkText(sentences, window, overlap) ==
    LET n == Len(sentences)
        step == Max({window - overlap, 1})
        starts == {i \in 0 .. n - 1 : i % step = 0 /\ (i = 0 \/ i - step + window < n)}
    IN Sorted({<<sentences[i + 1][1], sentences[Min({i + window, n})][2]>> : i \in starts})

\* Leading and trailing blanks do not count.
Strip(q) ==
    LET kept == {i \in 1 .. Len(q) : q[i] \notin Blanks}
    IN IF kept = {} THEN <<>> ELSE SubSeq(q, Min(kept), Max(kept))

\* The first place of q in t[span], as str.find.
Find(t, q, span) ==
    LET places == {i \in span[1] .. span[2] : /\ i + Len(q) <= span[2]
                                              /\ Slice(t, <<i, i + Len(q)>>) = q}
    IN IF places = {} THEN Null ELSE <<Min(places), Min(places) + Len(q)>>

\* Variant: the end is that of the character before the last.
FindCompact_EndsEarly(t, q) ==
    LET offsets == OffsetsOf(t)
        at == Find(Compact(t), Compact(q), <<0, Len(offsets)>>)
    IN IF at = Null THEN Null ELSE <<offsets[at[1] + 1], offsets[at[2]]>>
\* The same without blanks on either side; the place is that of the text.
FindCompact(t, q) ==
    LET offsets == OffsetsOf(t)
        at == Find(Compact(t), Compact(q), <<0, Len(offsets)>>)
    IN IF at = Null THEN Null ELSE <<offsets[at[1] + 1], offsets[at[2]] + 1>>

LocateQuote(t, quote, within) ==
    LET q == Strip(quote)
        inside == IF within = Null THEN Null ELSE Find(t, q, within)
        anywhere == Find(t, q, <<0, Len(t)>>)
    IN IF q = <<>> THEN Null
       ELSE IF inside # Null THEN inside
       ELSE IF anywhere # Null THEN anywhere ELSE FindCompact(t, q)

-----------------------------------------------------------------------------
(* citations.py *)

\* Spans that overlap or touch become one.
Fuse(spans) ==
    LET fused[k \in 0 .. Len(spans)] ==
          IF k = 0 THEN <<>>
          ELSE LET acc == fused[k - 1]  s == spans[k]
               IN IF acc # <<>> /\ s[1] <= Last(acc)[2]
                  THEN Append(Front(acc), <<Last(acc)[1], Max({Last(acc)[2], s[2]})>>)
                  ELSE Append(acc, s)
    IN fused[Len(spans)]

ResolveSpans(t, quotes) ==
    Fuse(Sorted({LocateQuote(t, quotes[k], Null) : k \in DOMAIN quotes} \ {Null}))

\* Where a quote is anchored: the first search span is tried, then the whole
\* text, which leaves nothing for the other search spans to find; else the
\* evidence of the issue.
CitationSpans(t, unit, quote) ==
    LET found == {s \in 1 .. Len(unit.search) :
                    LocateQuote(t, quote, unit.search[s]) # Null}
    IN IF found = {} THEN unit.fallback
       ELSE << LocateQuote(t, quote, unit.search[Min(found)]) >>

\* Citations are sorted by domain, article and start; those of one article in
\* one domain that overlap or touch become one, which keeps the reason of the
\* first.  A stable sort: what is equal stays in the order it came.
SortedBy(citations, Less(_, _)) ==
    LET places == InOrder(DOMAIN citations,
                    LAMBDA i, j : Less(citations[i], citations[j])
                                  \/ (~Less(citations[j], citations[i]) /\ i < j))
    IN [i \in DOMAIN citations |-> citations[places[i]]]

SameArticle(c, d) == c.domain = d.domain /\ c.law = d.law /\ c.no = d.no
ByArticle(c, d) ==
    \/ c.domain < d.domain
    \/ c.domain = d.domain /\ c.law < d.law
    \/ c.domain = d.domain /\ c.law = d.law /\ c.no < d.no
    \/ SameArticle(c, d) /\ c.start < d.start
ByStart(c, d) == c.start < d.start

\* Variant: citations are merged in the order they come.
MergeCitations_AsTheyCome(citations) ==
    LET sorted == citations
        merged[k \in 0 .. Len(citations)] ==
          IF k = 0 THEN <<>>
          ELSE LET acc == merged[k - 1]  c == sorted[k]
               IN IF acc # <<>> /\ SameArticle(Last(acc), c) /\ c.start <= Last(acc).end
                  THEN Append(Front(acc), [Last(acc) EXCEPT !.end = Max({@, c.end})])
                  ELSE Append(acc, c)
    IN SortedBy(merged[Len(citations)], ByStart)
\* Variant: the last citation of a place says where it ends.
MergeCitations_LastEnd(citations) ==
    LET sorted == SortedBy(citations, ByArticle)
        merged[k \in 0 .. Len(citations)] ==
          IF k = 0 THEN <<>>
          ELSE LET acc == merged[k - 1]  c == sorted[k]
               IN IF acc # <<>> /\ SameArticle(Last(acc), c) /\ c.start <= Last(acc).end
                  THEN Append(Front(acc), [Last(acc) EXCEPT !.end = c.end])
                  ELSE Append(acc, c)
    IN SortedBy(merged[Len(citations)], ByStart)
MergeCitations(citations) ==
    LET sorted == SortedBy(citations, ByArticle)
        merged[k \in 0 .. Len(citations)] ==
          IF k = 0 THEN <<>>
          ELSE LET acc == merged[k - 1]  c == sorted[k]
               IN IF acc # <<>> /\ SameArticle(Last(acc), c) /\ c.start <= Last(acc).end
                  THEN Append(Front(acc), [Last(acc) EXCEPT !.end = Max({@, c.end})])
                  ELSE Append(acc, c)
    IN SortedBy(merged[Len(citations)], ByStart)
=============================================================================
