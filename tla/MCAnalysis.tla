---------------------------- MODULE MCAnalysis ----------------------------
(* Small instances of Analysis for TLC. *)
EXTENDS Analysis, TLC

\* "a b." twice with different blanks, so that quotes stand in two places.
Twice == <<"a", " ", " ", "b", ".", " ", "a", " ", " ", "b", ".">>
AB == <<"a", " ", "b">>
MCTexts == {Twice, <<"a", "\n", "b">>, <<" ">>}

\* criminal, civil, civil_procedure, family_inheritance, etc.
MCCodes == << <<"criminal">>, <<"civil">>, <<"civil", "procedure">>,
              <<"family", "inheritance">>, <<"etc">> >>
MCDomainLabel == <<"x", "civil", "suit", "family", "etc">>
MCCategory == <<1, 2>>

Found(code, label, quotes) ==
    [code |-> code, label |-> label, query |-> "query", quotes |-> quotes]
\* One that has no name, and is then named like the other one of its
\* perspective; one that comes twice, and one too many.
MCIssueReplies ==
    {[issues |-> <<Found(<<"family">>, "", <<AB, <<"b", ".">> >>),
                   Found(<<"family">>, "family", <<AB>>)>>,
      dismissed |-> {<<"civil">>, <<"family", "inheritance">>}],
     [issues |-> <<Found(<<"civil">>, "x", <<>>), Found(<<"civil">>, "x", <<AB>>),
                   [Found(<<"none">>, "y", <<>>) EXCEPT !.query = ""],
                   Found(<<"c">>, "y", <<AB>>), Found(<<"criminal">>, "x", <<>>)>>,
      dismissed |-> {<<"criminal">>}]}

MCDocLists == {<<>>, << <<1, 10>>, <<2, 10>> >>}
Cited(law, no, tail, quote) == [law |-> law, no |-> no, tail |-> tail, quote |-> quote]
MCReplies ==
    {<<>>,
     <<Cited(1, 10, FALSE, AB \o <<".">>), Cited(1, 10, TRUE, <<"b">>)>>,
     <<Cited(2, 10, FALSE, <<"b">>), Cited(1, 20, FALSE, <<"z">>)>>}

Strings(chars, n) == UNION {[1 .. k -> chars] : k \in 0 .. n}
MCSamples == Strings({"a", ".", " "}, 5)
NoSamples == {}
===========================================================================
