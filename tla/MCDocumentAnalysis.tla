------------------------- MODULE MCDocumentAnalysis -------------------------
(* DocumentAnalysis on small instances.                                    *)
EXTENDS DocumentAnalysis

CONSTANTS ch1, ch2, runner

NoChannels == {}
OneChannel == {ch1}
TwoChannels == {ch1, ch2}

\* Every failure point of every stage it exists for.
AllFailures ==
    (Stages \X {"begin", "work", "complete", "finalize", "orphan", "sink", "read"})
        \cup {<<"PARSE", "source">>}

\* Every failure but that of a channel to record its own.
OwnedFailures == AllFailures \ (Stages \X {"orphan"})

\* Detection fails once, and later resolution fails before its transaction.
DetectThenResolve == {<<"DETECT", "work">>, <<"RESOLVE", "begin">>}

\* Parsing fails natively, and the retry does not find the source file.
ParseThenSource == {<<"PARSE", "work">>, <<"PARSE", "source">>}

NoFailures == {}
DetectFails == {<<"DETECT", "work">>}

=============================================================================
