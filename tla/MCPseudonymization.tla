------------------------- MODULE MCPseudonymization -------------------------
(***************************************************************************)
(* A block is written, sanitized with one of the mappings of each value,   *)
(* sent, and comes back with a few edits; every text on the way is handed  *)
(* to Pseudonymization.                                                    *)
(***************************************************************************)
EXTENDS Pseudonymization, FiniteSetsExt

CONSTANTS
    Person, Account,    \* the two Values
    P, Q,               \* the two Tokens
    Letter, Han,        \* the one of AsciiChars and the one of OtherChars
    MaxLength,          \* bound: length of the block
    MaxEdits            \* bound: edits of the answer

VARIABLES
    mappings,   \* the Mapping Vault: each mapping with the history of its Entity
    source,     \* the text of the block
    used,       \* the mapping of each mention, by its position
    answer,     \* the response; empty before the block is sanitized
    edits       \* how often it was edited

vars == <<mappings, source, used, answer, edits>>

A == <<Char(Letter)>>
H == <<Char(Han)>>

\* The person is a party with an alias that may have been another one before,
\* and may stand in the Matter without a party too; the other value is a phone
\* number, a bank account or an address, under its alias as a mere value.
PersonMapping(alias, history) ==
    [token |-> P, value |-> Person, type |-> "PERSON_NAME", alias |-> alias, history |-> history]
AccountMapping(type) ==
    [token |-> Q, value |-> Account, type |-> type,
     alias |-> IF type = "PHONE" THEN A ELSE H, history |-> {}]

Vaults ==
    {{PersonMapping(alias, history), AccountMapping(type)} \cup more :
        alias \in {A, H}, history \in {{}, {H \o H}, {H \o A}},
        type \in {"PHONE", "BANK_ACCOUNT", "ADDRESS"},
        more \in {{}, {PersonMapping(A \o H, {})}}}

Init ==
    /\ mappings \in Vaults
    /\ source = <<>> /\ used = <<>> /\ answer = <<>> /\ edits = 0

Write ==
    /\ answer = <<>> /\ Len(source) < MaxLength
    /\ \E s \in PlainSymbols :
          /\ source' = Append(source, s)
          /\ IF s[1] = "value"
             THEN \E m \in {n \in mappings : n.value = s[2]} : used' = Append(used, m)
             ELSE used' = Append(used, "none")
    /\ UNCHANGED <<mappings, answer, edits>>

\* The mentions at the positions in which, as replacements.
Mentions == {i \in 1..Len(source) : source[i][1] = "value"}
Replacements(which) ==
    {[start |-> i - 1, end |-> i, alias |-> used[i].alias, token |-> used[i].token] : i \in which}

Sanitize ==
    /\ answer = <<>> /\ source # <<>>
    /\ LET result == SanitizeBlock(source, Replacements(Mentions))
       IN  result.ok /\ answer' = result.text
    /\ UNCHANGED <<mappings, source, used, edits>>

\* The provider drops or adds a symbol.
Edit ==
    /\ answer # <<>> /\ edits < MaxEdits
    /\ \E i \in 1..Len(answer) :
          \/ answer' = RemoveAt(answer, i)
          \/ \E s \in Ascii \cup {Wrapped(P), Bare(P), Bare(Q)} : answer' = InsertAt(answer, i, s)
    /\ edits' = edits + 1
    /\ UNCHANGED <<mappings, source, used>>

Next == Write \/ Sanitize \/ Edit

Spec == Init /\ [][Next]_vars

-----------------------------------------------------------------------------

\* What pseudonymizeText is to do, from left to right: the text between the
\* ranges, and a pseudonym for each of them.
Composed(text, replacements) ==
    LET sorted == SetToSortSeq(replacements, LAMBDA r, s : r.start < s.start)
        parts == FoldLeft(LAMBDA done, r :
                    [at |-> r.end,
                     text |-> done.text \o SubSeq(text, done.at + 1, r.start) \o FormatPseudonym(r)],
                    [at |-> 0, text |-> <<>>], sorted)
    IN  parts.text \o SubSeq(text, parts.at + 1, Len(text))

\* Replacing from right to left puts every pseudonym in its place, in any text
\* and for any two ranges, and ranges that overlap or leave the text are refused
\* (the overlap error of pseudonymizeText).
RangesReplaced ==
    answer = <<>> =>
    \A a, b, c, d \in 0..(Len(source) + 1) :
        LET r == [start |-> a, end |-> b, alias |-> H, token |-> P]
            s == [start |-> c, end |-> d, alias |-> A, token |-> Q]
            result == PseudonymizeText(source, {r, s})
        IN  /\ result.ok <=> /\ InText(source, r) /\ InText(source, s)
                             /\ b <= c \/ d <= a
            /\ result.ok => result.text = Composed(source, {r, s})

\* No alias of a token ends with another one of the same token.
AliasesOf(t) == UNION {{m.alias} \cup m.history : m \in {n \in mappings : n.token = t}}
AliasesApart ==
    \A t \in Tokens : \A a, b \in AliasesOf(t) : a # b => ~IsSuffix(a, b)

\* The policies of the types used here.
Withheld(m, onRequest) == m.type = "BANK_ACCOUNT" \/ (m.type = "PHONE" /\ ~onRequest)

\* A mention that cannot come back: its policy withholds it, or its alias is
\* glued to the ASCII word before it.
Stuck(i, onRequest) ==
    \/ Withheld(used[i], onRequest)
    \/ i > 1 /\ source[i - 1] \in Ascii /\ Head(used[i].alias) \in Ascii

RestoresSource(onRequest) ==
    LET stuck == {i \in Mentions : Stuck(i, onRequest)}
        result == Rehydrate(answer, mappings, onRequest)
    IN  /\ result.ok
        /\ result.text = Composed(source, Replacements(stuck))
        /\ result.unresolved = {used[i].token : i \in stuck}

\* An answer that quotes the block comes back as the block itself, except for
\* the mentions that must stay pseudonyms, and exactly their tokens are
\* reported: however many mappings share a token, whatever stands between two
\* mentions (RehydrationService.rehydrate after pseudonymizeText).
RoundTrip ==
    AliasesApart /\ answer # <<>> /\ edits = 0 => \A q \in BOOLEAN : RestoresSource(q)

\* What the documentation says: only the exact span of the pseudonym is
\* replaced, the text around it is never consumed.
SurroundingKept == answer # <<>> /\ edits = 0 => \A q \in BOOLEAN : RestoresSource(q)

\* However the answer was edited, a value that policy withholds never comes
\* back into it.
WithheldStaysOut ==
    \A q \in BOOLEAN :
        LET text == Rehydrate(answer, mappings, q).text
        IN  \A m \in mappings : Withheld(m, q) => ~Contains(text, Value(m.value))

\* How long the alias of the reference at i can be, and the answer with the
\* references in which replaced together with that much text before them.
Cuts(i) ==
    IF answer[i][1] = "bare" THEN {0}
    ELSE {Len(a) : a \in {b \in AliasesOf(answer[i][2]) : IsSuffix(b, SubSeq(answer, 1, i - 1))}}

Spliced(which, cut) ==
    FoldLeft(LAMBDA done, i :
                IF i \in which
                THEN [text |-> done.text \o SubSeq(answer, done.at + 1, i - 1 - cut[i])
                                  \o <<Value((CHOOSE m \in mappings : m.token = answer[i][2]).value)>>,
                      at |-> i]
                ELSE done,
             [text |-> <<>>, at |-> 0], [i \in 1..Len(answer) |-> i])

\* However the answer was edited, rehydration replaces whole pseudonyms only:
\* the result is the answer with some references, each with an alias of its
\* token that stands before it, cut out for the value.  Nothing is lost, moved
\* or written twice.
WholePseudonymsOnly ==
    LET positions == {i \in 1..Len(answer) : answer[i] \in References}
    IN  \A text \in {Rehydrate(answer, mappings, q).text : q \in BOOLEAN} :
        \E which \in SUBSET positions : \E cut \in [which -> 0..2] :
           /\ \A i \in which : cut[i] \in Cuts(i)
           /\ LET spliced == Spliced(which, cut)
              IN  text = spliced.text \o SubSeq(answer, spliced.at + 1, Len(answer))
=============================================================================
