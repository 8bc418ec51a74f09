-------------------------- MODULE ResolutionRules ---------------------------
(***************************************************************************)
(* The decision rules of entity resolution (packages/entity-resolution):   *)
(* which values a labelled field ties to a subject, what the evidence      *)
(* about a candidate Entity is worth, and what is decided for a Mention    *)
(* from its candidates.  Pure operators; Rules of er-v2.                   *)
(***************************************************************************)
EXTENDS Integers, Sequences, FiniteSets, SequencesExt

NameTypes == {"PERSON", "ORGANIZATION"}
IdentifierTypes == {"PHONE", "EMAIL", "ID_CARD", "BANK_ACCOUNT", "ADDRESS"}
MetadataTypes == {"CASE_NUMBER", "CONTRACT_NUMBER", "COURT", "LAWYER", "JUDGE"}
MentionTypes == NameTypes \cup IdentifierTypes \cup MetadataTypes
EntityTypes == {"PERSON", "ORGANIZATION"}
HardRules == {"NONE", "MUST_LINK", "CANNOT_LINK"}

\* The value classes that are protected; metadata has none.
Protectable(type) == type \in NameTypes \cup IdentifierTypes

-----------------------------------------------------------------------------
(* Labelled fields.  A mention of a block is [id, type, start, end,        *)
(* labelled]: labelled when the text right before it is a label of its     *)
(* type, within the window the code cuts.  breaks are the offsets of line  *)
(* ends and sentence marks; Reach is how far a subject reaches.            *)

Before(a, b) == a.start < b.start \/ (a.start = b.start /\ a.end < b.end)

SubjectsOf(mentions) == SetToSortSeq({m \in mentions : m.type \in NameTypes}, Before)

\* Mutant of HardEnd: the next subject does not end the reach of this one.
EndsByReachOnly(subjects, i, length, Reach) == subjects[i].end + Reach

HardEnd(subjects, i, length, Reach) ==
    LET next == IF i < Len(subjects) THEN subjects[i + 1].start ELSE length
    IN  IF next < subjects[i].end + Reach THEN next ELSE subjects[i].end + Reach

\* The pairs <<value, subject>> of ids that a labelled field group ties.
LabeledContextLinks(mentions, breaks, length, Reach) ==
    LET subjects == SubjectsOf(mentions)
        Owns(i, m) ==
            /\ subjects[i].labelled /\ m.labelled
            /\ m.type \in IdentifierTypes
            /\ subjects[i].type = "ORGANIZATION" => m.type # "ID_CARD"
            /\ subjects[i].end <= m.start
            /\ m.start < HardEnd(subjects, i, length, Reach)
            /\ \A b \in breaks : ~(subjects[i].end <= b /\ b < m.start)
    IN  {<<p[1].id, subjects[p[2]].id>> :
            p \in {q \in mentions \X DOMAIN subjects : Owns(q[2], q[1])}}

-----------------------------------------------------------------------------
(* Evidence about one candidate.                                           *)

Evidence == [shares: BOOLEAN, conflicts: BOOLEAN, name: BOOLEAN,
             cannot: BOOLEAN, must: BOOLEAN, labelled: BOOLEAN]
NoEvidence == [shares |-> FALSE, conflicts |-> FALSE, name |-> FALSE,
               cannot |-> FALSE, must |-> FALSE, labelled |-> FALSE]

SoftScore(type, ev) ==
    (IF type \in {"PHONE", "EMAIL", "BANK_ACCOUNT"} /\ ev.shares THEN 40 ELSE 0)
        + (IF type \in NameTypes /\ ev.name THEN 25 ELSE 0)
        + (IF ev.labelled THEN 100 ELSE 0)

\* Hard rules are exclusive and override every soft signal, in this order.
ScoreCandidate(type, ev) ==
    IF ev.cannot \/ (ev.conflicts /\ type \in NameTypes \cup {"ID_CARD"})
    THEN [score |-> 0, hard |-> "CANNOT_LINK"]
    ELSE IF ev.must \/ (type = "ID_CARD" /\ ev.shares)
    THEN [score |-> 40, hard |-> "MUST_LINK"]
    ELSE [score |-> SoftScore(type, ev), hard |-> "NONE"]

-----------------------------------------------------------------------------
(* The decision.  A candidate is [entity, type, active, score, hard]; the  *)
(* mention is [type, strength].                                            *)

Compatible(mentionType, entityType) ==
    mentionType \in IdentifierTypes \/ mentionType = entityType

Usable(mention, c) == c.active /\ Compatible(mention.type, c.type)

\* Mutant of Strongest: Must-Link wins.
MustLinkFirst(hards) ==
    IF "MUST_LINK" \in hards THEN "MUST_LINK"
    ELSE IF "CANNOT_LINK" \in hards THEN "CANNOT_LINK" ELSE "NONE"

\* Cannot-Link wins over Must-Link, and either over no rule.
Strongest(hards) ==
    IF "CANNOT_LINK" \in hards THEN "CANNOT_LINK"
    ELSE IF "MUST_LINK" \in hards THEN "MUST_LINK" ELSE "NONE"

\* The rank: by falling score, then by first appearance.
Higher(a, b) == a.score > b.score \/ (a.score = b.score /\ a.first < b.first)
Top(ranked) == CHOOSE a \in ranked : \A b \in ranked \ {a} : Higher(a, b)

\* One candidate per Entity.
NormalizeCandidates(mention, candidates) ==
    LET usable == {i \in DOMAIN candidates : Usable(mention, candidates[i])}
        Rows(e) == {i \in usable : candidates[i].entity = e}
        Collapsed(e) ==
            [entity |-> e,
             score |-> Max({candidates[i].score : i \in Rows(e)}),
             hard |-> Strongest({candidates[i].hard : i \in Rows(e)}),
             first |-> CHOOSE i \in Rows(e) : \A j \in Rows(e) : i <= j]
    IN  {Collapsed(candidates[i].entity) : i \in usable}

\* Mutant of MayCreateEntity: a reference suffices.
ReferenceCreates(mention) == mention.type \in NameTypes

MayCreateEntity(mention) == mention.type \in NameTypes /\ mention.strength # "REFERENCE"

Decided(decision, candidate, ranked) ==
    [decision |-> decision, candidate |-> candidate, ranked |-> ranked]
Nobody == "no entity"

Margin(eligible) ==
    LET others == eligible \ {Top(eligible)}
    IN  Top(eligible).score - (IF others = {} THEN 0 ELSE Top(others).score)

\* Mutants of MayAutoLink.
LinksWithoutMargin(mention, eligible) ==
    mention.type # "PERSON" /\ Top(eligible).score >= 90
LinksOnEqualNumber(mention, eligible) ==
    mention.type # "PERSON" /\ Top(eligible).score >= 40 /\ Margin(eligible) >= 15
LinksOnlyAgainstRunnerUp(mention, eligible) ==
    mention.type # "PERSON" /\ Top(eligible).score >= 90
        /\ eligible # {Top(eligible)} /\ Margin(eligible) >= 15

MayAutoLink(mention, eligible) ==
    mention.type # "PERSON" /\ Top(eligible).score >= 90 /\ Margin(eligible) >= 15

ProposeResolution(mention, candidates) ==
    LET ranked == NormalizeCandidates(mention, candidates)
        must == {c \in ranked : c.hard = "MUST_LINK"}
        eligible == {c \in ranked : c.hard # "CANNOT_LINK"}
        create == MayCreateEntity(mention)
    IN  IF must # {}
        THEN Decided(IF must = {Top(must)} THEN "AUTO_LINK" ELSE "REVIEW", Top(must).entity, ranked)
        ELSE IF eligible = {}
        THEN Decided(IF create THEN "NEW_ENTITY" ELSE "UNRESOLVED", Nobody, ranked)
        ELSE IF MayAutoLink(mention, eligible)
        THEN Decided("AUTO_LINK", Top(eligible).entity, ranked)
        ELSE IF Top(eligible).score >= 65 \/ create
        THEN Decided("REVIEW", Top(eligible).entity, ranked)
        ELSE Decided("UNRESOLVED", Nobody, ranked)

=============================================================================
