---------------------------- MODULE OutboundScan ----------------------------
(***************************************************************************)
(* The digit matcher of the outbound scan (scanDigitRuns): one pass over   *)
(* the text that keeps a bounded suffix of the current run of digit        *)
(* groups, and must find exactly the renderings that normalization takes   *)
(* to a denied number.  The text is already folded: it consists of digits, *)
(* separators (and token spans, which become one), the check character X,  *)
(* and anything else.                                                      *)
(***************************************************************************)
EXTENDS Integers, Sequences, FiniteSets, FiniteSetsExt

CONSTANTS
    Digits,         \* the decimal digits, "1" and "8" among them
    CountryPrefix,  \* the redundant prefix, 86
    MobileLength,   \* digits of a mainland mobile number, 11
    CardDigits,     \* digits before the check character of a card, 17
    Floor,          \* MIN_DIGIT_EQUIVALENCE_LENGTH
    Longest,        \* MAX_DIGIT_EQUIVALENCE_DIGITS
    Slack,          \* dead digits that are kept before the buffer is cut, 64
    Denylists,      \* the denied numbers, normalized, by type: one of these
    MaxText         \* bound: length of the text

Symbols == Digits \cup {"sep", "X", "other"}
NumberTypes == {"PHONE", "BANK_ACCOUNT", "ID_CARD"}

ASSUME ScanAssumption ==
    /\ Digits \cap {"sep", "X", "other"} = {} /\ CountryPrefix \in Seq(Digits)
    /\ {MobileLength, CardDigits, Floor, Longest, Slack, MaxText} \subseteq Nat
    /\ Denylists \subseteq [NumberTypes -> SUBSET Seq(Symbols)]

VARIABLES
    text,       \* history: what has been read
    denyIndex,  \* the denied numbers of this request
    scan        \* the state of the pass

scanVars == <<text, denyIndex, scan>>

-----------------------------------------------------------------------------
(* Normalization and the index of denied numbers.                          *)

DropMainlandCountryPrefix(digits) ==
    LET n == Len(CountryPrefix)
    IN  IF /\ Len(digits) = MobileLength + n
           /\ SubSeq(digits, 1, n) = CountryPrefix
           /\ digits[n + 1] = "1"
        THEN SubSeq(digits, n + 1, Len(digits)) ELSE digits

\* A rendered number without its separators.
RenderNumberDigits(rendered) ==
    LET kept[n \in 0..Len(rendered)] ==
            IF n = 0 THEN <<>>
            ELSE IF rendered[n] = "sep" THEN kept[n - 1]
            ELSE Append(kept[n - 1], rendered[n])
    IN  kept[Len(rendered)]

IsDenied(type, v) == v \in denyIndex[type]

\* isNormalizedDigitValueIndexable: what a bounded window can prove absent.
Indexable(type, v) ==
    /\ Len(v) \in Floor..Longest
    /\ IF type = "ID_CARD"
       THEN Len(v) = CardDigits + 1 /\ \A i \in 1..CardDigits : v[i] \in Digits
       ELSE \A i \in DOMAIN v : v[i] \in Digits

\* Mutant: a prefix that is glued to the number is not looked for.
BareWindowLengths ==
    UNION {{Len(v) : v \in {w \in denyIndex[type] : Indexable(type, w)}} : type \in NumberTypes}

WindowLengths ==
    {Len(v) : v \in {w \in denyIndex["BANK_ACCOUNT"] : Indexable("BANK_ACCOUNT", w)}}
        \cup {Len(v) : v \in {w \in denyIndex["ID_CARD"] : Indexable("ID_CARD", w)}}
        \cup UNION {{Len(v), Len(v) + Len(CountryPrefix)} :
                       v \in {w \in denyIndex["PHONE"] : Indexable("PHONE", w)}}

EnumerateTo == Max(WindowLengths \cup {0})

-----------------------------------------------------------------------------
(* The pass.  starts: absolute offsets at which groups of the run begin,   *)
(* in ascending order in the code; kept: the digits of the run from offset *)
(* base on.                                                                *)

NoRun == [group |-> <<>>, oversized |-> FALSE, kept |-> <<>>, base |-> 0,
          total |-> 0, starts |-> {}, inRun |-> FALSE]

\* matchWindow.
Matches(window) ==
    {<<"PHONE", DropMainlandCountryPrefix(window)>>, <<"BANK_ACCOUNT", window>>,
     <<"ID_CARD", window>>}

Denied(found) == {m \in found : IsDenied(m[1], m[2]) /\ Indexable(m[1], m[2])}

\* Mutant: the buffer is never cut.
NeverDead(kept, base, starts) == 0

\* How many digits at the front of the buffer no later window can begin with.
Dead(kept, base, starts) ==
    LET dead == IF starts = {} THEN Len(kept) ELSE Min(starts) - base
    IN  IF dead > Slack THEN dead ELSE 0

\* Mutant: an oversized group is left out and its neighbours touch.
SkipsOversized(s) == [s EXCEPT !.group = <<>>, !.oversized = FALSE]

\* An oversized group severs the run: no window reaches across it.
Severed(s) == [s EXCEPT !.group = <<>>, !.oversized = FALSE,
                        !.kept = <<>>, !.base = s.total, !.starts = {}]

\* closeGroup: the group joins the run, starts out of reach are forgotten, and
\* the windows that end here and begin at a start are looked up.
CloseGroup(s) ==
    IF s.oversized THEN [state |-> Severed(s), found |-> {}]
    ELSE IF s.group = <<>> THEN [state |-> s, found |-> {}]
    ELSE LET kept == s.kept \o s.group
             total == s.total + Len(s.group)
             starts == {a \in s.starts \cup {s.total} : total - a <= EnumerateTo}
             windows == {SubSeq(kept, total - n - s.base + 1, Len(kept)) :
                           n \in {m \in WindowLengths :
                                    /\ total >= m + s.base
                                    /\ total - m \in starts}}
             dead == Dead(kept, s.base, starts)
         IN  [state |-> [s EXCEPT !.group = <<>>, !.total = total, !.starts = starts,
                                  !.kept = SubSeq(kept, dead + 1, Len(kept)),
                                  !.base = @ + dead],
              found |-> Denied(UNION {Matches(w) : w \in windows})]

\* matchTrailingX: the digits before the check character, whether or not a
\* separator stands between.
TrailingX(s) ==
    IF \E a \in s.starts : s.total - a = CardDigits
    THEN {SubSeq(s.kept, s.total - CardDigits - s.base + 1, Len(s.kept)) \o <<"X">>}
    ELSE {}

\* A digit extends the group; past the longest window nothing of it is kept.
TakeDigit(s, c) ==
    IF s.oversized THEN s
    ELSE IF Len(s.group) >= EnumerateTo
         THEN [s EXCEPT !.group = <<>>, !.oversized = TRUE, !.inRun = TRUE]
         ELSE [s EXCEPT !.group = Append(@, c), !.inRun = TRUE]

\* The state of the pass after one more character.
Step(s, c) ==
    LET closed == CloseGroup(s.run)
        found == s.found \cup closed.found
        card == Denied({<<"ID_CARD", v>> : v \in TrailingX(closed.state)})
    IN  CASE EnumerateTo = 0 -> s
          [] c \in Digits -> [s EXCEPT !.run = TakeDigit(@, c)]
          [] c \notin Digits /\ ~s.run.inRun -> s
          [] c = "sep" /\ s.run.inRun -> [run |-> closed.state, found |-> found]
          [] c = "X" /\ s.run.inRun ->
                [run |-> NoRun,
                 found |-> IF s.run.group # <<>> \/ s.run.starts # {}
                           THEN found \cup card ELSE found]
          [] c = "other" /\ s.run.inRun -> [run |-> NoRun, found |-> found]

Read(c) ==
    /\ EnumerateTo > 0
    /\ Len(text) < MaxText
    /\ text' = Append(text, c)
    /\ scan' = Step(scan, c)
    /\ UNCHANGED denyIndex

NothingRead ==
    /\ text = <<>>
    /\ scan = [run |-> NoRun, found |-> {}]

ScanInit == NothingRead /\ denyIndex \in Denylists

ScanNext == \E c \in Symbols : Read(c)

ScanSpec == ScanInit /\ [][ScanNext]_scanVars

\* The text ends here: what the scan reports.
Found == scan.found \cup CloseGroup(scan.run).found

-----------------------------------------------------------------------------
(* What the pass is to find, without its buffers.                          *)

\* Positions i..j of q begin and end with a whole group of digits and hold
\* nothing but digits and separators.
GroupAligned(q, i, j) ==
    /\ q[i] \in Digits /\ (i > 1 => q[i - 1] \notin Digits)
    /\ q[j] \in Digits /\ (j < Len(q) => q[j + 1] \notin Digits)
    /\ \A k \in i..j : q[k] \in Digits \cup {"sep"}

Alignments(q) ==
    {p \in (1..Len(q)) \X (1..Len(q)) : p[1] <= p[2] /\ GroupAligned(q, p[1], p[2])}

\* A check character follows position j, perhaps after separators.
FollowedByX(q, j) ==
    \E k \in (j + 1)..Len(q) :
        q[k] = "X" /\ \A l \in (j + 1)..(k - 1) : q[l] = "sep"

NumbersIn(q) == {RenderNumberDigits(SubSeq(q, p[1], p[2])) : p \in Alignments(q)}

CardsIn(q) ==
    {Append(RenderNumberDigits(SubSeq(q, p[1], p[2])), "X") :
        p \in {r \in Alignments(q) : FollowedByX(q, r[2])}}

\* Every number that stands in the text in some rendering.
Rendered ==
    {<<"ID_CARD", card>> : card \in CardsIn(text)}
        \cup UNION {{<<"PHONE", DropMainlandCountryPrefix(digits)>>,
                     <<"BANK_ACCOUNT", digits>>, <<"ID_CARD", digits>>} :
                        digits \in NumbersIn(text)}

\* No rendering of a denied number escapes the pass: neither the cut buffer,
\* nor a forgotten start, nor an oversized group hides one (the fail-closed
\* boundary of scanOutboundPayload).
NoRenderingEscapes == Denied(Rendered) \subseteq Found

\* The pass reports no number that is not there: digits of different runs, of
\* the middle of a longer number or around an oversized one are never joined.
NoFalseAlarm == Found \subseteq Denied(Rendered)

\* However long the text, the pass keeps only a bounded part of it: the group
\* being read, and a suffix of the run.
BoundedMemory ==
    /\ Len(scan.run.group) <= EnumerateTo
    /\ Len(scan.run.kept) <= EnumerateTo + Slack
    /\ Cardinality(scan.run.starts) <= EnumerateTo

\* scanDigitRuns finds exactly the renderings of denied numbers, and what it
\* keeps of a text is bounded.
ScanIsExact == NoRenderingEscapes /\ NoFalseAlarm /\ BoundedMemory
=============================================================================
