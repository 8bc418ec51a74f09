------------------------- MODULE MCResolutionRules --------------------------
(***************************************************************************)
(* The decision rules over bounded inputs.  A behaviour grows an input: it *)
(* hands the rules one more candidate, or puts one more field into a       *)
(* block.                                                                  *)
(***************************************************************************)
EXTENDS ResolutionRules

CONSTANTS
    Parties,        \* the Entities proposed
    Organizations,  \* those of them that are organizations
    Retirable,      \* those of them that may be out of use
    MaxCandidates,  \* bound: candidates of an input
    BlockLength,    \* bound: length of a block
    MaxFields       \* bound: mentions in a block

VARIABLES asked, proposed, fields, breaks

KindOf(e) == IF e \in Organizations THEN "ORGANIZATION" ELSE "PERSON"

\* The mentions tried.
Tried ==
    [type : {"PERSON", "ORGANIZATION"}, strength : {"EXPLICIT", "REFERENCE"}]
        \cup [type : {"PHONE", "ID_CARD"}, strength : {"EXPLICIT"}]

rulesVars == <<asked, proposed, fields, breaks>>

\* What EntityResolutionService gathers about a candidate: a match by value or
\* by name with the rules of the pair, or labelled context, or both.
Gathered ==
    {ev \in Evidence :
        /\ ~(ev.shares /\ ev.name)
        /\ ev.cannot \/ ev.must => ev.shares /\ ~ev.labelled /\ ~ev.conflicts
        /\ ev.conflicts => ev.name /\ ~ev.labelled}

CandidateOf(e, ev, active) ==
    LET scored == ScoreCandidate(asked.type, ev)
    IN  [entity |-> e, type |-> KindOf(e), active |-> active, ev |-> ev,
         score |-> scored.score, hard |-> scored.hard]

RulesInit ==
    /\ asked \in Tried
    /\ proposed = <<>>
    /\ fields = {}
    /\ breaks \in {{}} \cup {{b} : b \in 0..(BlockLength - 1)}

AddCandidate ==
    /\ fields = {} /\ breaks = {}
    /\ Len(proposed) < MaxCandidates
    /\ \E e \in Parties, ev \in Gathered : \E active \in {TRUE, e \notin Retirable} :
          proposed' = Append(proposed, CandidateOf(e, ev, active))
    /\ UNCHANGED <<asked, fields, breaks>>

AddField ==
    /\ proposed = <<>> /\ asked.type = "PERSON" /\ asked.strength = "EXPLICIT"
    /\ Cardinality(fields) < MaxFields
    /\ \E start \in 0..(BlockLength - 1), type \in {"PERSON", "ORGANIZATION", "PHONE", "ID_CARD"} :
       \E end \in (start + 1)..BlockLength, labelled \in BOOLEAN :
          fields' = fields \cup {[id |-> <<start, end, type>>, type |-> type,
                                  start |-> start, end |-> end, labelled |-> labelled]}
    /\ UNCHANGED <<asked, proposed, breaks>>

RulesNext == AddCandidate \/ AddField

RulesSpec == RulesInit /\ [][RulesNext]_rulesVars

-----------------------------------------------------------------------------

Proposal == ProposeResolution(asked, proposed)
Tied == LabeledContextLinks(fields, breaks, BlockLength, 2)
RowsOf(e) == {i \in DOMAIN proposed :
              proposed[i].entity = e /\ Usable(asked, proposed[i])}
Field(id) == CHOOSE f \in fields : f.id = id

\* An Entity with a Cannot-Link among its candidates is never linked, whatever
\* else is known about it (normalizeCandidates and proposeResolution).
CannotLinkWins ==
    \A i \in DOMAIN proposed :
        (Usable(asked, proposed[i]) /\ proposed[i].hard = "CANNOT_LINK") =>
            Proposal.candidate # proposed[i].entity

\* The decision, and the Entity a Mention is linked to, do not depend on the
\* order in which the repositories list the candidates (proposeResolution).
OrderIrrelevant ==
    LET this == Proposal
    IN  \A order \in {f \in [DOMAIN proposed -> DOMAIN proposed] :
                          \A i, j \in DOMAIN proposed : f[i] = f[j] => i = j} :
            LET other == ProposeResolution(asked, [i \in DOMAIN proposed |-> proposed[order[i]]])
            IN  /\ other.decision = this.decision
                /\ this.decision = "AUTO_LINK" => other.candidate = this.candidate

\* Without a hard rule a Mention is linked by itself only on a labelled field
\* of its own document, and never a PERSON: shared numbers and equal names add
\* up to a review at most.
SoftLinkNeedsLabel ==
    (Proposal.decision = "AUTO_LINK"
        /\ \A i \in RowsOf(Proposal.candidate) : proposed[i].hard = "NONE") =>
        /\ asked.type # "PERSON"
        /\ \E i \in RowsOf(Proposal.candidate) : proposed[i].ev.labelled

\* A new Entity is made only when every Entity proposed is ruled out, so a
\* weak candidate is never answered with a guessed duplicate; and only for a
\* name that is more than a reference.
NewEntityLastResort ==
    Proposal.decision = "NEW_ENTITY" =>
        /\ asked.type \in NameTypes /\ asked.strength # "REFERENCE"
        /\ \A i \in DOMAIN proposed : Usable(asked, proposed[i]) =>
              \E j \in RowsOf(proposed[i].entity) : proposed[j].hard = "CANNOT_LINK"

\* One more candidate that is not a Cannot-Link never makes the rules link
\* another Entity than the one it speaks for: competition lowers the margin.
NoLinkByCompetition ==
    [][(/\ proposed' # proposed
         /\ Proposal'.decision = "AUTO_LINK"
         /\ proposed'[Len(proposed')].hard # "CANNOT_LINK"
         /\ Proposal'.candidate # proposed'[Len(proposed')].entity) =>
            /\ Proposal.decision = "AUTO_LINK"
            /\ Proposal.candidate = Proposal'.candidate]_rulesVars

\* A labelled value belongs to one subject only, the last one that begins
\* before it, and no line or sentence ends between the two
\* (extractLabeledContextLinks; the service keeps one subject per value).
OneOwner ==
    \A l \in Tied :
        /\ \A other \in Tied : other[1] = l[1] => other = l
        /\ \A f \in fields : f.type \in NameTypes =>
              ~(Field(l[2]).end <= f.start /\ f.start <= Field(l[1]).start)
        /\ \A b \in breaks : ~(Field(l[2]).end <= b /\ b < Field(l[1]).start)

=============================================================================
