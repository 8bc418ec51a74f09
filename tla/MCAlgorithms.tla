---------------------------- MODULE MCAlgorithms ----------------------------
(***************************************************************************)
(* The algorithms that keep no state, over bounded inputs.  A behaviour    *)
(* grows the input of one of them: candidates and fields for the rules of  *)
(* resolution, a text for the outbound scan, a block and its answer for    *)
(* pseudonyms.  Of the others it keeps an empty input, so that every       *)
(* behaviour is one of RulesSpec and one of ScanSpec as well.              *)
(***************************************************************************)
EXTENDS MCResolutionRules, OutboundScan

CONSTANTS MaxSymbols, MaxEdits              \* bounds of pseudonyms

VARIABLES
    part,                                   \* the algorithm under test
    mappings, source, used, answer, edits   \* the input of pseudonyms

Names == INSTANCE MCPseudonymization
    WITH Person <- "person", Account <- "account", P <- "p", Q <- "q",
         Letter <- "letter", Han <- "han", Values <- {"person", "account"},
         Tokens <- {"p", "q"}, AsciiChars <- {"letter"}, OtherChars <- {"han"},
         MaxLength <- MaxSymbols

namesVars == <<mappings, source, used, answer, edits>>
vars == <<part, rulesVars, scanVars, namesVars>>

\* The scan on short numbers: a prefix of one digit, mobile numbers of two and
\* cards of two digits with a check character.
OneDigit == <<"8">>

Numbers(phones, banks, cards) == [PHONE |-> phones, BANK_ACCOUNT |-> banks, ID_CARD |-> cards]

\* A mobile number, which the prefix may precede; longer numbers; a card; both
\* at once, so that windows of several lengths are open.
ShortNumbers ==
    {Numbers({<<"1", "8">>}, {}, {}),
     Numbers({<<"1", "1", "8">>}, {<<"8", "8", "1">>}, {}),
     Numbers({}, {}, {<<"1", "8", "X">>}),
     Numbers({<<"1", "8">>}, {<<"8", "8", "1">>}, {<<"1", "8", "X">>})}

NoRules == asked = [type |-> "PERSON", strength |-> "EXPLICIT"] /\ breaks = {}
NoScan == denyIndex = Numbers({<<"1", "8">>}, {}, {})
NoNames == mappings = <<>> /\ source = <<>> /\ used = <<>> /\ answer = <<>> /\ edits = 0

Init ==
    /\ RulesInit /\ ScanInit
    /\ \/ part = "rules" /\ NoScan /\ NoNames
       \/ part = "scan" /\ NoRules /\ NoNames
       \/ part = "names" /\ Names!Init /\ NoRules /\ NoScan

Next ==
    /\ UNCHANGED part
    /\ \/ part = "rules" /\ RulesNext /\ UNCHANGED <<scanVars, namesVars>>
       \/ part = "scan" /\ ScanNext /\ UNCHANGED <<rulesVars, namesVars>>
       \/ part = "names" /\ Names!Next /\ UNCHANGED <<rulesVars, scanVars>>

Spec == Init /\ [][Next]_vars

-----------------------------------------------------------------------------

\* An answer that quotes the block comes back as the block, except for the
\* mentions that must stay pseudonyms, whose tokens are reported, however many
\* mappings share a token (pseudonymizeText, RehydrationService.rehydrate); and
\* any two ranges of the block are replaced in place, or refused.
RoundTrip == part = "names" => Names!RoundTrip /\ Names!RangesReplaced

\* However the answer was edited, rehydration cuts out whole pseudonyms only,
\* and no value that its policy withholds comes back.
OnlyPseudonymsRestored ==
    part = "names" => Names!WholePseudonymsOnly /\ Names!WithheldStaysOut
=============================================================================
