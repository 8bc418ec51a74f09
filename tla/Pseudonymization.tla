-------------------------- MODULE Pseudonymization --------------------------
(***************************************************************************)
(* The two directions of a pseudonym: pseudonymizeText puts an alias and a *)
(* wrapped token in the place of a mention, RehydrationService puts the    *)
(* protected value back where the token still stands.                      *)
(*                                                                         *)
(* A text is a sequence of symbols: characters, protected values (each of  *)
(* them the text of a mention), and references to tokens, wrapped or bare. *)
(***************************************************************************)
EXTENDS Naturals, Sequences, FiniteSets, SequencesExt

CONSTANTS
    AsciiChars,     \* letters and digits of ASCII
    OtherChars,     \* any other characters
    Values,         \* protected values
    Tokens          \* public tokens

Char(c) == <<"char", c>>
Value(v) == <<"value", v>>
Wrapped(t) == <<"wrapped", t>>
Bare(t) == <<"bare", t>>

Ascii == {Char(c) : c \in AsciiChars}
PlainSymbols == Ascii \cup {Char(c) : c \in OtherChars} \cup {Value(v) : v \in Values}
References == {Wrapped(t) : t \in Tokens} \cup {Bare(t) : t \in Tokens}

Refused == [ok |-> FALSE]
Done(text) == [ok |-> TRUE, text |-> text]

-----------------------------------------------------------------------------
(* Pseudonymization.  A replacement is [start, end, alias, token]; its     *)
(* range leaves out the symbol at end.                                     *)

FormatPseudonym(r) == Append(r.alias, Wrapped(r.token))

InText(text, r) == r.start < r.end /\ r.end <= Len(text)

\* Mutant: a range may begin inside the one to its right.
StaysBefore(r, endOfPrevious) == r.start <= endOfPrevious

\* The range ends before the one to its right begins.
EndsBefore(r, endOfPrevious) == r.end <= endOfPrevious

Replace(done, r) ==
    IF ~done.ok \/ ~EndsBefore(r, done.previous) THEN Refused
    ELSE [ok |-> TRUE, previous |-> r.start,
          text |-> SubSeq(done.text, 1, r.start) \o FormatPseudonym(r)
                      \o SubSeq(done.text, r.end + 1, Len(done.text))]

\* pseudonymizeText: from right to left, so that offsets stay true; ranges
\* outside the text or into one another are refused.
PseudonymizeText(text, replacements) ==
    LET sorted == SetToSortSeq(replacements, LAMBDA r, s : r.start > s.start)
        result == FoldLeft(LAMBDA done, r : Replace(done, r),
                           [ok |-> TRUE, previous |-> Len(text), text |-> text], sorted)
    IN  IF (\A r \in replacements : InText(text, r)) /\ result.ok
        THEN Done(result.text) ELSE Refused

\* The part of PseudonymizationService.sanitize that may refuse a block: the
\* ranges, and the search for the text of every mention in the result.
SanitizeBlock(text, replacements) ==
    LET result == PseudonymizeText(text, replacements)
        leaks == \E r \in replacements :
                    \E i \in 0..(Len(result.text) - (r.end - r.start)) :
                        SubSeq(result.text, i + 1, i + r.end - r.start)
                            = SubSeq(text, r.start + 1, r.end)
    IN  IF ~result.ok THEN Refused ELSE IF leaks THEN Refused ELSE result

-----------------------------------------------------------------------------
(* Rehydration.                                                            *)

\* DEFAULT_RESTORE_POLICIES, stamped on the mapping when it is made.
DefaultRestorePolicy(type) ==
    CASE type \in {"PERSON_NAME", "ORG_NAME", "ADDRESS"} -> "ALWAYS_RESTORE"
      [] type \in {"PHONE", "EMAIL", "ID_CARD"} -> "RESTORE_ON_REQUEST"
      [] type = "BANK_ACCOUNT" -> "NEVER_RESTORE"

\* Mutant: what may be restored on request is restored when nothing is said.
RestoredUnlessNever(mapping, onRequest) ==
    DefaultRestorePolicy(mapping.type) # "NEVER_RESTORE"

\* The mappings whose policy lets the value back into this text.
MayRestore(mapping, onRequest) ==
    \/ DefaultRestorePolicy(mapping.type) = "ALWAYS_RESTORE"
    \/ DefaultRestorePolicy(mapping.type) = "RESTORE_ON_REQUEST" /\ onRequest

\* One token may stand for several mappings of one value: their aliases, with
\* those of the Entity, are joined.  Two values of one token are refused.
RestorableTokens(mappings, onRequest) ==
    {m.token : m \in {n \in mappings : MayRestore(n, onRequest)}}
OneValue(mappings, onRequest) ==
    \A m, n \in {k \in mappings : MayRestore(k, onRequest)} :
        m.token = n.token => m.value = n.value

\* Mutant: the last mapping of a token wins.
LastTarget(mappings, token, onRequest) ==
    LET m == CHOOSE n \in mappings : n.token = token /\ MayRestore(n, onRequest)
    IN  [value |-> m.value, aliases |-> {m.alias}]

Target(mappings, token, onRequest) ==
    LET of == {n \in mappings : n.token = token /\ MayRestore(n, onRequest)}
    IN  [value |-> (CHOOSE m \in of : TRUE).value,
         aliases |-> UNION {{m.alias} \cup m.history : m \in of}]

\* A reference at position i: a wrapped token, or a bare one that is no part of
\* a longer identifier.
Identifying == Ascii \cup {Bare(t) : t \in Tokens}
IsReference(text, i) ==
    \/ text[i] \in {Wrapped(t) : t \in Tokens}
    \/ /\ text[i] \in {Bare(t) : t \in Tokens}
       /\ i > 1 => text[i - 1] \notin Identifying
       /\ i < Len(text) => text[i + 1] \notin Ascii

FindPublicTokenReferences(text) ==
    {text[i][2] : i \in {j \in 1..Len(text) : IsReference(text, j)}}

\* Mutant: the length of the alias is taken, whatever stands there.
LongEnough(text, alias, i) == alias # <<>> /\ Len(alias) < i

\* The alias stands right before position i, and does not begin in the middle
\* of an ASCII word.
Precedes(text, alias, i) ==
    /\ alias # <<>> /\ Len(alias) < i
    /\ SubSeq(text, i - Len(alias), i - 1) = alias
    /\ i - Len(alias) > 1 /\ Head(alias) \in Ascii =>
          text[i - Len(alias) - 1] \notin Ascii

\* The longest alias that stands before the reference, unless it reaches into
\* what the reference before has consumed; a set of at most one alias.
AliasAt(text, aliases, i, cursor) ==
    LET longest == {a \in aliases : Precedes(text, a, i)
                       /\ \A b \in aliases : Precedes(text, b, i) => Len(b) <= Len(a)}
    IN  {a \in longest : i - Len(a) > cursor}

\* rehydrateText, one reference after the other; cursor is the position up to
\* which the text has been written.
RestoreAt(text, mappings, onRequest, done, i) ==
    IF ~IsReference(text, i) \/ text[i][2] \notin RestorableTokens(mappings, onRequest) THEN done
    ELSE LET target == Target(mappings, text[i][2], onRequest)
             restored(first) == [text |-> done.text \o SubSeq(text, done.cursor + 1, first - 1)
                                              \o <<Value(target.value)>>,
                                 cursor |-> i]
             aliases == AliasAt(text, target.aliases, i, done.cursor)
         IN  IF text[i][1] = "bare" THEN restored(i)
             ELSE IF aliases = {} THEN done
             ELSE restored(i - Len(CHOOSE a \in aliases : TRUE))

RehydrateText(text, mappings, onRequest) ==
    LET result == FoldLeft(LAMBDA done, i : RestoreAt(text, mappings, onRequest, done, i),
                           [text |-> <<>>, cursor |-> 0], [i \in 1..Len(text) |-> i])
    IN  result.text \o SubSeq(text, result.cursor + 1, Len(text))

\* RehydrationService.rehydrate: the text, and the tokens that still stand in it.
Rehydrate(text, mappings, onRequest) ==
    IF ~OneValue(mappings, onRequest) THEN Refused
    ELSE LET restored == RehydrateText(text, mappings, onRequest)
         IN  [ok |-> TRUE, text |-> restored,
              unresolved |-> FindPublicTokenReferences(restored)]
=============================================================================
