---------------------------- MODULE EntityReview ----------------------------
(***************************************************************************)
(* The identities of a Matter: entity resolution of its Documents, the     *)
(* review decisions of the user, and sanitization, which freezes them in   *)
(* an artifact.  One action per service operation with its transaction;    *)
(* the code runs each without yielding, so an action is atomic.            *)
(*                                                                         *)
(* A Slot is a span of a Document that is, or could be marked as, a        *)
(* mention.  Texts are compared by their normal form.  Every protected     *)
(* value has its restoration token.  A crash inside an operation is its    *)
(* failure: recovery marks the Document FAILED.                            *)
(***************************************************************************)
EXTENDS ResolutionRules

CONSTANTS
    Documents,
    Slots,
    Info,        \* [Slots -> [doc, block, start, end, type, strength, text, valid, manual]]
    Ties,        \* <<value slot, subject slot>>: the labelled fields of the blocks
    Entities,    \* 1..n: ids grow with the time of creation
    Texts,       \* texts that the user may give as an alias
    Malformed,   \* aliases with a reserved delimiter
    Null,
    MaxEdits     \* bound: review operations of a behavior

ASSUME EntitiesAssumption ==
    /\ IsFiniteSet(Entities) /\ Entities = 1..Cardinality(Entities)
    /\ Null \notin Entities \cup Texts
    /\ \A e \in Entities : <<"alias", e>> # Null

ASSUME SlotsAssumption ==
    /\ IsFiniteSet(Slots)
    /\ \A s \in Slots :
         /\ Info[s].doc \in Documents /\ Info[s].type \in MentionTypes
         /\ {Info[s].block, Info[s].start, Info[s].end} \subseteq Nat
         /\ {Info[s].valid, Info[s].manual} \subseteq BOOLEAN

\* A labelled field gives an identifier to a name (LabeledContextLinks).
ASSUME TiesAssumption ==
    \A tie \in Ties :
        /\ tie[1] \in Slots => Info[tie[1]].type \in IdentifierTypes
        /\ tie[2] \in Slots => Info[tie[2]].type \in NameTypes

VARIABLES
    document,    \* [Documents -> [status, trashed]]
    mention,     \* [Slots -> [live, entity, review, valued]]
    entity,      \* [Entities -> [status, type, into]]
    alias,       \* [Entities -> [primary, former]]
    values,      \* the ProtectedValues of the Matter, <<type, text>>
    links,       \* <<Entity, value>>: entity_protected_values
    candidate,   \* [Slots -> [Entities -> state of the row, or NONE]]
    rules,       \* entity_constraints: <<{a, b}, type>>
    trail,       \* per Slot what the resolution events say, see Silent
    recorded,    \* the rules of all CONSTRAINT_CREATED events
    artifact,    \* [Documents -> Null or [Slots -> mapping or Null]]
    edits        \* review operations left

identity == <<entity, alias, values, links, rules>>
vars == <<document, mention, identity, candidate, trail, recorded, artifact, edits>>

Statuses == {"DETECTED", "RESOLVE_FAILED", "READY", "SANITIZE_FAILED", "SANITIZED"}
Value(s) == <<Info[s].type, Info[s].text>>
Valued(s) == Protectable(Info[s].type) /\ Info[s].valid
SlotsOf(d) == {s \in Slots : Info[s].doc = d}
Live(d) == {s \in SlotsOf(d) : mention[s].live}
Active(e) == entity[e].status = "ACTIVE"
Spelled(e) == {alias[e].primary} \cup alias[e].former
Synthetic(e) == <<"alias", e>>
Free == {e \in Entities : entity[e].status = "NONE"}
FirstOf(ids) == CHOOSE e \in ids : \A f \in ids : e <= f

Iterated(next, e, bound) ==
    LET after[n \in 0..bound] == IF n = 0 THEN e ELSE next[after[n - 1]] IN after

Successor == [e \in Entities |-> IF entity[e].status = "MERGED" THEN entity[e].into ELSE e]

\* The Entity that an id stands for once merges are followed.
Canonical(e) == Iterated(Successor, e, Cardinality(Entities))[Cardinality(Entities)]

Silent == [entity |-> Null, actor |-> Null, confirmed |-> Null, rejected |-> FALSE]
NoRows == [e \in Entities |-> "NONE"]

Init ==
    /\ document = [d \in Documents |-> [status |-> "DETECTED", trashed |-> FALSE]]
    /\ mention = [s \in Slots |-> [live |-> ~Info[s].manual, entity |-> Null,
                                   review |-> "UNREVIEWED", valued |-> FALSE]]
    /\ entity = [e \in Entities |-> [status |-> "NONE", type |-> Null, into |-> Null]]
    /\ alias = [e \in Entities |-> [primary |-> Null, former |-> {}]]
    /\ values = {} /\ links = {} /\ rules = {} /\ recorded = {}
    /\ candidate = [s \in Slots |-> NoRows]
    /\ trail = [s \in Slots |-> Silent]
    /\ artifact = [d \in Documents |-> Null]
    /\ edits = MaxEdits

-----------------------------------------------------------------------------
(* EntityResolutionService.resolve.  A run is the state it plans, mention  *)
(* by mention, plus resolved: the Entity a mention stands for in this run. *)

EmptyRun == [mention |-> mention, entity |-> entity, alias |-> alias, links |-> links,
             candidate |-> candidate, resolved |-> [s \in Slots |-> Null]]

\* Pass 1: the values of all mentions, and whether a row existed before.
PlannedValues(d) == {Value(s) : s \in {t \in Live(d) : Valued(t)}}
Existed(s) == Value(s) \in values

Linked(s) == {e \in Entities : Active(e) /\ <<e, Value(s)>> \in links}
Ruled(type, e, others) == \E o \in others \ {e} : <<{e, o}, type>> \in rules

\* An identifier matches through a shared value only.
IdentifierEvidence(s) ==
    [e \in IF Existed(s) THEN Linked(s) ELSE {} |->
        [NoEvidence EXCEPT !.shares = TRUE,
                           !.cannot = Ruled("CANNOT_LINK", e, Linked(s)),
                           !.must = Ruled("MUST_LINK", e, Linked(s))]]

\* Mutant: a renamed party is not found by the name it was linked to.
MatchedByAlias(s) ==
    {e \in Entities :
        Active(e) /\ entity[e].type = Info[s].type /\ alias[e].primary = Info[s].text}

Matched(s) ==
    {e \in Entities :
        /\ Active(e) /\ entity[e].type = Info[s].type
        /\ alias[e].primary = Info[s].text \/ <<e, Value(s)>> \in links}

\* The cards of the Document are all different from one of the Entity.
Conflicts(d, e) ==
    /\ \E v \in PlannedValues(d) : v[1] = "ID_CARD"
    /\ \E v \in {Value(s) : s \in Slots} :
          v[1] = "ID_CARD" /\ <<e, v>> \in links /\ v \notin PlannedValues(d)

\* A name matches a primary alias or a linked name; Cannot-Link is not used.
NameEvidence(s) ==
    [e \in Matched(s) |->
        [NoEvidence EXCEPT !.name = TRUE,
                           !.conflicts = Conflicts(Info[s].doc, e),
                           !.must = Ruled("MUST_LINK", e, Matched(s))]]

\* The Entity that the subject of a labelled field was given in this run.
ContextEntities(run, s) ==
    {run.resolved[t] : t \in {u \in Live(Info[s].doc) : <<s, u>> \in Ties}} \ {Null}

\* Context adds to the score of a candidate and leaves its hard rule.
Candidates(run, s) ==
    LET type == Info[s].type
        evidence == IF type \in IdentifierTypes THEN IdentifierEvidence(s) ELSE NameEvidence(s)
        context == ContextEntities(run, s)
        labelled == ScoreCandidate(type, [NoEvidence EXCEPT !.labelled = TRUE])
        own(e) == IF e \in DOMAIN evidence THEN ScoreCandidate(type, evidence[e])
                  ELSE [score |-> 0, hard |-> "NONE"]
    IN  {[entity |-> e, type |-> run.entity[e].type, active |-> TRUE, hard |-> own(e).hard,
          score |-> own(e).score + (IF e \in context THEN labelled.score ELSE 0)]
            : e \in DOMAIN evidence \cup context}

RowState(decided, e) ==
    IF decided.decision = "AUTO_LINK"
    THEN IF e = decided.candidate THEN "ACCEPTED" ELSE "REJECTED"
    ELSE IF decided.decision = "NEW_ENTITY" THEN "REJECTED" ELSE "PENDING"

CandidateRows(decided) ==
    [e \in Entities |->
        IF \E c \in decided.ranked : c.entity = e
        THEN RowState(decided, e) ELSE "NONE"]

\* Mutant: a mention that has its Entity already is passed over.
KeepUnvalued(run, s) ==
    LET e == run.mention[s].entity
    IN  [run EXCEPT !.resolved = [run.resolved EXCEPT ![s] = IF Active(e) THEN e ELSE Null]]

\* A mention that has its Entity already is only given its value.
KeepAssigned(run, s) ==
    LET e == run.mention[s].entity
        valued == run.mention[s].valued \/ Valued(s)
    IN  [run EXCEPT !.mention = [run.mention EXCEPT ![s].valued = valued],
                    !.links = run.links \cup (IF Valued(s) THEN {<<e, Value(s)>>} ELSE {}),
                    !.resolved = [run.resolved EXCEPT ![s] = IF Active(e) THEN e ELSE Null]]

Give(run, s, e) ==
    [run EXCEPT !.mention = [run.mention EXCEPT ![s].entity = e],
                !.links = run.links \cup {<<e, Value(s)>>},
                !.resolved = [run.resolved EXCEPT ![s] = e]]

\* planNewEntity: a synthetic primary alias, the type of the mention.
PlanNewEntity(run, e, type) ==
    LET row == [status |-> "ACTIVE", type |-> type, into |-> Null]
    IN  [run EXCEPT !.entity = [run.entity EXCEPT ![e] = row],
                    !.alias = [run.alias EXCEPT ![e].primary = Synthetic(e)]]

Propose(run, s) ==
    LET decided == ProposeResolution(Info[s], SetToSeq(Candidates(run, s)))
        rows == [run EXCEPT !.mention = [run.mention EXCEPT ![s].valued = TRUE],
                            !.candidate = [run.candidate EXCEPT ![s] = CandidateRows(decided)]]
        fresh == FirstOf({e \in Entities : run.entity[e].status = "NONE"})
    IN  CASE decided.decision = "AUTO_LINK" -> Give(rows, s, decided.candidate)
          [] decided.decision = "NEW_ENTITY" ->
                Give(PlanNewEntity(rows, fresh, Info[s].type), s, fresh)
          [] OTHER -> rows

\* Pass 2, in the order of the text.
ResolveMention(run, s) ==
    IF run.mention[s].entity # Null THEN KeepAssigned(run, s)
    ELSE IF Valued(s) THEN Propose(run, s) ELSE run

Earlier(s, t) ==
    Info[s].block < Info[t].block
        \/ (Info[s].block = Info[t].block /\ Info[s].start < Info[t].start)
FirstInText(slots) == CHOOSE s \in slots : \A t \in slots : ~Earlier(t, s)

PlanFirst(plan) ==
    LET s == FirstInText(plan.todo)
    IN  [run |-> ResolveMention(plan.run, s), todo |-> plan.todo \ {s}]

\* The result of so many steps from first.
Repeated(Step(_), first, count) ==
    LET after[n \in 0..count] == IF n = 0 THEN first ELSE Step(after[n - 1]) IN after[count]

ResolvedRun(d) ==
    Repeated(PlanFirst, [run |-> EmptyRun, todo |-> Live(d)], Cardinality(Live(d))).run

\* What complete verifies before it writes: no assignment is cleared or moved.
Verified(d, run) ==
    \A s \in Live(d) : mention[s].entity # Null => run.mention[s].entity = mention[s].entity

\* One SYSTEM event for each mention that was given an Entity.
TrailAfterResolution(run) ==
    [s \in Slots |->
        IF run.mention[s].entity # mention[s].entity
        THEN [trail[s] EXCEPT !.entity = run.mention[s].entity, !.actor = "SYSTEM"]
        ELSE trail[s]]

CanResolve(d) ==
    ~document[d].trashed /\ document[d].status \in {"DETECTED", "RESOLVE_FAILED"}

\* complete, first half: new Entities, then value rows, then links.
InsertIdentities(d, run) ==
    /\ entity' = run.entity
    /\ alias' = run.alias
    /\ values' = values \cup PlannedValues(d)
    /\ links' = run.links

Resolve(d) ==
    LET run == ResolvedRun(d)
    IN  /\ CanResolve(d)
        /\ Cardinality(Free) >= Cardinality({s \in Live(d) : Info[s].type \in NameTypes})
        /\ Verified(d, run)
        /\ InsertIdentities(d, run)
        /\ mention' = run.mention
        /\ candidate' = run.candidate
        /\ trail' = TrailAfterResolution(run)
        /\ document' = [document EXCEPT ![d].status = "READY"]
        /\ UNCHANGED <<rules, recorded, artifact, edits>>

\* A decryption, a write or the process fails in between: nothing is kept.
ResolveFails(d) ==
    /\ CanResolve(d)
    /\ document' = [document EXCEPT ![d].status = "RESOLVE_FAILED"]
    /\ UNCHANGED <<mention, identity, candidate, trail, recorded, artifact, edits>>

-----------------------------------------------------------------------------
(* Review.                                                                 *)

\* Mutant: only the status is looked at.
MutableInTrash(d) == document[d].status # "SANITIZED"

DocumentReviewMutable(d) == ~document[d].trashed /\ document[d].status # "SANITIZED"

Edit(s) ==
    /\ edits > 0
    /\ mention[s].live /\ DocumentReviewMutable(Info[s].doc)
    /\ edits' = edits - 1

\* The Matter itself is not in the trash here.
EditMatter == edits > 0 /\ edits' = edits - 1

\* Mutant: the other open candidates stay open.
ClosedOnlyFor(s, e) ==
    [candidate EXCEPT ![s][e] = IF @ = "PENDING" THEN "ACCEPTED" ELSE @]

\* A user decision closes every open candidate of the mention.
ClosedBy(s, e) ==
    [candidate EXCEPT ![s] =
        [f \in Entities |->
            IF candidate[s][f] # "PENDING" THEN candidate[s][f]
            ELSE IF f = e THEN "ACCEPTED" ELSE "REJECTED"]]

LinkedBy(s, e) == IF mention[s].valued THEN {<<e, Value(s)>>} ELSE {}

\* Mutant: the confirmation of the former assignment stays.
KeepsReview(s, e) == [mention EXCEPT ![s].entity = e]

\* A new assignment restarts review.
Reassigned(s, e) == [mention EXCEPT ![s].entity = e, ![s].review = "UNREVIEWED"]

\* The USER event of an assignment.
UserAssigns(s, e) ==
    [trail EXCEPT ![s] = [entity |-> e, actor |-> "USER", confirmed |-> Null, rejected |-> FALSE]]

Assign(s, e) ==
    /\ Edit(s)
    /\ Active(e) /\ mention[s].entity # e
    /\ mention' = Reassigned(s, e)
    /\ links' = links \cup LinkedBy(s, e)
    /\ candidate' = ClosedBy(s, e)
    /\ trail' = UserAssigns(s, e)
    /\ UNCHANGED <<document, entity, alias, values, rules, recorded, artifact>>

UserConfirms(s) == [trail EXCEPT ![s].confirmed = mention[s].entity]

Confirm(s) ==
    /\ Edit(s)
    /\ mention[s].entity # Null /\ mention[s].review # "CONFIRMED"
    /\ mention' = [mention EXCEPT ![s].review = "CONFIRMED"]
    /\ trail' = UserConfirms(s)
    /\ UNCHANGED <<document, identity, candidate, recorded, artifact>>

\* assertAliasIsSafeForMatter: no value of any class is spelled out.
SafeForMatter(text) == \A v \in values : v[2] # text

\* Mutant: the aliases of merged Entities are free again.
UnownedByActive(text, e) ==
    \A f \in Entities \ {e} : Active(f) => text \notin Spelled(f)

\* Aliases are unique in the Matter, former ones and merged Entities included.
Unowned(text, e) == \A f \in Entities \ {e} : text \notin Spelled(f)

CreateEntityWithAssignment(s, text, type) ==
    /\ Edit(s)
    /\ Free # {} /\ Unowned(text, Null)
    /\ LET e == FirstOf(Free)
       IN  /\ entity' = [entity EXCEPT ![e] = [status |-> "ACTIVE", type |-> type, into |-> Null]]
           /\ alias' = [alias EXCEPT ![e].primary = text]
           /\ mention' = Reassigned(s, e)
           /\ links' = links \cup LinkedBy(s, e)
           /\ candidate' = ClosedBy(s, e)
           /\ trail' = UserAssigns(s, e)
    /\ UNCHANGED <<document, values, rules, recorded, artifact>>

\* The service: the alias must not be the text that it is to hide.
CreateEntity(s, text, type) ==
    /\ text # Info[s].text /\ SafeForMatter(text)
    /\ CreateEntityWithAssignment(s, text, type)

\* The new Entity has the type of the one the mention leaves.
Split(s, text) ==
    /\ mention[s].entity # Null /\ Active(mention[s].entity)
    /\ CreateEntity(s, text, entity[mention[s].entity].type)

RenameEntity(e, text) ==
    /\ EditMatter
    /\ Active(e) /\ Unowned(text, e)
    /\ alias' = [alias EXCEPT ![e] = [primary |-> text, former |-> Spelled(e) \ {text}]]
    /\ UNCHANGED <<document, mention, entity, values, links, rules, candidate, trail,
                   recorded, artifact>>

Rename(e, text) == Active(e) /\ SafeForMatter(text) /\ RenameEntity(e, text)

\* Mutant: the link goes with any of the mentions it rests on.
UnlinkedAlways(s) ==
    IF mention[s].entity # Null /\ mention[s].valued THEN {<<mention[s].entity, Value(s)>>} ELSE {}

\* The link goes with the last mention it rests on.
UnlinkedBy(s) ==
    IF /\ mention[s].entity # Null /\ mention[s].valued
       /\ ~\E t \in Slots \ {s} :
             /\ mention[t].live /\ mention[t].valued /\ Value(t) = Value(s)
             /\ mention[t].entity = mention[s].entity /\ mention[t].review # "REJECTED"
    THEN {<<mention[s].entity, Value(s)>>} ELSE {}

UserRejects(s) ==
    [trail EXCEPT ![s] = [entity |-> Null, actor |-> trail[s].actor, confirmed |-> Null,
                          rejected |-> TRUE]]

Reject(s) ==
    /\ Edit(s)
    /\ links' = links \ UnlinkedBy(s)
    /\ mention' = [mention EXCEPT ![s].entity = Null, ![s].review = "REJECTED"]
    /\ candidate' = ClosedBy(s, Null)
    /\ trail' = UserRejects(s)
    /\ UNCHANGED <<document, entity, alias, values, rules, recorded, artifact>>

Overlap(s, t) ==
    /\ s # t /\ Info[s].doc = Info[t].doc /\ Info[s].block = Info[t].block
    /\ Info[s].start < Info[t].end /\ Info[t].start < Info[s].end

\* A rejected mention leaves room for another one.
NotOverlapping(s) ==
    \A t \in Slots : mention[t].live /\ Overlap(s, t) => mention[t].review = "REJECTED"

InsertManualMention(s) ==
    /\ DocumentReviewMutable(Info[s].doc) /\ NotOverlapping(s)
    /\ mention' = [mention EXCEPT ![s].live = TRUE, ![s].valued = TRUE]
    /\ values' = values \cup {Value(s)}
    /\ UNCHANGED <<document, entity, alias, links, rules, candidate, trail, recorded, artifact>>

\* The service takes a protectable type and a text that is valid for it.
CreateManualMention(s) ==
    /\ EditMatter
    /\ Info[s].manual /\ ~mention[s].live /\ Valued(s)
    /\ InsertManualMention(s)

\* The CONSTRAINT_CREATED event.
RecordedWith(a, b, type) == recorded \cup {<<{a, b}, type>>}

AddConstraint(a, b, type) ==
    /\ EditMatter
    /\ a # b /\ Active(a) /\ Active(b)
    /\ <<{a, b}, type>> \notin rules
    /\ rules' = rules \cup {<<{a, b}, type>>}
    /\ recorded' = RecordedWith(a, b, type)
    /\ UNCHANGED <<document, mention, entity, alias, values, links, candidate, trail, artifact>>

-----------------------------------------------------------------------------
(* Merge.                                                                  *)

\* Mutant: the Documents of the moved mentions are not looked at.
NothingAffected(source) == TRUE

\* Every Document with a mention of the source is open for review.
AffectedMutable(source) ==
    \A s \in Slots : mention[s].entity = source => DocumentReviewMutable(Info[s].doc)

\* Mutant: the proposals for the source stay with it.
GhostCandidates(source, target) == candidate

\* Open proposals move to the target, or end where it has a row already.
RedirectedCandidates(source, target) ==
    [s \in Slots |->
        IF candidate[s][source] # "PENDING" THEN candidate[s]
        ELSE IF candidate[s][target] = "NONE"
        THEN [candidate[s] EXCEPT ![target] = "PENDING", ![source] = "NONE"]
        ELSE [candidate[s] EXCEPT ![source] = "REJECTED"]]

Substituted(source, target, rule) == <<(rule[1] \ {source}) \cup {target}, rule[2]>>
RulesOf(e) == {rule \in rules : e \in rule[1]}
Opposite(type) == IF type = "MUST_LINK" THEN "CANNOT_LINK" ELSE "MUST_LINK"
Carried(source, target) ==
    {Substituted(source, target, rule) : rule \in {r \in RulesOf(source) : target \notin r[1]}}

\* Mutant: the pair is looked up in the order given, not in the order stored.
ProhibitedInOrder(source, target) ==
    source < target /\ <<{source, target}, "CANNOT_LINK">> \in rules

MergeProhibited(source, target) == <<{source, target}, "CANNOT_LINK">> \in rules

\* A rule of the source contradicts one of the target, or another of its own.
Contradicts(source, target) ==
    \E rule \in Carried(source, target) :
        <<rule[1], Opposite(rule[2])>> \in rules \cup Carried(source, target)

CarriedRules(source, target) == (rules \ RulesOf(source)) \cup Carried(source, target)

CopiedLinks(source, target) ==
    links \cup {<<target, v>> : v \in {w \in values : <<source, w>> \in links}}

\* Mutant: a confirmed mention stays with the source.
UnconfirmedMoved(source, target) ==
    [s \in Slots |->
        IF mention[s].entity # source \/ mention[s].review = "CONFIRMED" THEN mention[s]
        ELSE [mention[s] EXCEPT !.entity = target, !.review = "UNREVIEWED"]]

MovedMentions(source, target) ==
    [s \in Slots |->
        IF mention[s].entity # source THEN mention[s]
        ELSE [mention[s] EXCEPT !.entity = target, !.review = "UNREVIEWED"]]

MergeEntities(source, target) ==
    /\ source # target /\ Active(source) /\ Active(target)
    /\ entity[source].type = entity[target].type
    /\ AffectedMutable(source)
    /\ ~MergeProhibited(source, target) /\ ~Contradicts(source, target)
    /\ links' = CopiedLinks(source, target)
    /\ mention' = MovedMentions(source, target)
    /\ candidate' = RedirectedCandidates(source, target)
    /\ rules' = CarriedRules(source, target)
    /\ entity' = [entity EXCEPT ![source].status = "MERGED", ![source].into = target]
    /\ UNCHANGED <<document, alias, values, trail, recorded, artifact>>

Merge(source, target) == EditMatter /\ MergeEntities(source, target)

-----------------------------------------------------------------------------
(* Sanitization and the preview of it.                                     *)

Accepted(d) == {s \in Live(d) : mention[s].review # "REJECTED"}

\* blockerReason: what the preview says stands in the way.
Blocks(s) ==
    \/ ~Protectable(Info[s].type)
    \/ ~mention[s].valued
    \/ mention[s].entity # Null
         /\ (~Active(mention[s].entity) \/ alias[mention[s].entity].primary = Null)

\* What the service requires of one mention before it replaces it.
Replaceable(s) ==
    /\ Protectable(Info[s].type)
    /\ mention[s].valued
    /\ mention[s].entity # Null =>
          Active(mention[s].entity) /\ alias[mention[s].entity].primary # Null

\* An Entity's primary alias, or the label of the value class.
AliasOf(s) ==
    IF mention[s].entity = Null THEN <<"class", Info[s].type>>
    ELSE alias[mention[s].entity].primary

Mapping(s) == [entity |-> mention[s].entity, alias |-> AliasOf(s), value |-> Value(s)]
Mappings(d) == [s \in Slots |-> IF s \in Accepted(d) THEN Mapping(s) ELSE Null]

Pseudonymizes(d) ==
    /\ \A s, t \in Accepted(d) : ~Overlap(s, t)
    /\ \A s \in Accepted(d) : AliasOf(s) \notin Malformed

\* The self-check: the text of a replaced mention is nowhere in its block.
Leaks(d) ==
    \E s \in Accepted(d), t \in SlotsOf(d) :
        /\ Info[s].block = Info[t].block
        /\ \/ t \notin Accepted(d) /\ Info[t].text = Info[s].text
              /\ \A u \in Accepted(d) : ~Overlap(t, u)
           \/ t \in Accepted(d) /\ AliasOf(t) = Info[s].text

SanitizeSucceeds(d) ==
    /\ \A s \in Accepted(d) : Replaceable(s)
    /\ Pseudonymizes(d)
    /\ ~Leaks(d)

\* What complete verifies: the mappings cover the accepted mentions and agree
\* with their assignment, alias and token as they are now.
ArtifactAccepted(d, mappings) ==
    \A s \in SlotsOf(d) :
        /\ mappings[s] # Null <=> s \in Accepted(d)
        /\ mappings[s] # Null => mappings[s] = Mapping(s) /\ Replaceable(s)

CanSanitize(d) ==
    ~document[d].trashed /\ document[d].status \in {"READY", "SANITIZE_FAILED"}

Sanitize(d) ==
    /\ CanSanitize(d) /\ SanitizeSucceeds(d)
    /\ ArtifactAccepted(d, Mappings(d))
    /\ artifact' = [artifact EXCEPT ![d] = Mappings(d)]
    /\ document' = [document EXCEPT ![d].status = "SANITIZED"]
    /\ UNCHANGED <<mention, identity, candidate, trail, recorded, edits>>

\* A predicate, a write or the process fails.
SanitizeFails(d) ==
    /\ CanSanitize(d)
    /\ document' = [document EXCEPT ![d].status = "SANITIZE_FAILED"]
    /\ UNCHANGED <<mention, identity, candidate, trail, recorded, artifact, edits>>

ToggleTrash(d) ==
    /\ document' = [document EXCEPT ![d].trashed = ~document[d].trashed]
    /\ UNCHANGED <<mention, identity, candidate, trail, recorded, artifact, edits>>

Preview(d) ==
    IF document[d].status = "SANITIZED" THEN [status |-> "AVAILABLE", blockers |-> {}]
    ELSE IF document[d].status = "DETECTED" THEN [status |-> "NOT_READY", blockers |-> {}]
    ELSE [status |-> "READY", blockers |-> {s \in Accepted(d) : Blocks(s)}]

\* findRehydrationMappings: the mapping still tells what the mention says.
Rehydratable(s, mapping) ==
    mention[s].entity = mapping.entity /\ mention[s].valued /\ Value(s) = mapping.value

\* toMentionDto: what the review list shows for a mention.
DecisionStatus(s) ==
    IF mention[s].review = "REJECTED" THEN "REJECTED"
    ELSE IF \E e \in Entities : candidate[s][e] = "PENDING" THEN "NEEDS_REVIEW"
    ELSE IF mention[s].entity = Null THEN "UNRESOLVED"
    ELSE IF trail[s].actor = "USER" THEN "USER_ASSIGNED" ELSE "AUTO_LINKED"

-----------------------------------------------------------------------------

\* ReviewOperationService: the requests of the review page.
ReviewRequest ==
    \/ \E s \in Slots :
          \/ \E e \in Entities : Assign(s, e)
          \/ Confirm(s)
          \/ Reject(s)
          \/ CreateManualMention(s)
          \/ \E text \in Texts :
                \/ \E type \in EntityTypes : CreateEntity(s, text, type)
                \/ Split(s, text)
    \/ \E e \in Entities, text \in Texts : Rename(e, text)
    \/ \E a, b \in Entities :
          \/ Merge(a, b)
          \/ \E type \in {"MUST_LINK", "CANNOT_LINK"} : AddConstraint(a, b, type)

DocumentStep ==
    \E d \in Documents :
        \/ Resolve(d)
        \/ ResolveFails(d)
        \/ Sanitize(d)
        \/ SanitizeFails(d)
        \/ ToggleTrash(d)

Next == ReviewRequest \/ DocumentStep

Spec == Init /\ [][Next]_vars

-----------------------------------------------------------------------------
(* Properties.                                                             *)

\* The rows of each table, as far as the review depends on them.
DocumentRows == [status : Statuses, trashed : BOOLEAN]

MentionRows == [live : BOOLEAN, entity : Entities \cup {Null},
                review : {"UNREVIEWED", "CONFIRMED", "REJECTED"}, valued : BOOLEAN]

EntityRows == [status : {"NONE", "ACTIVE", "MERGED"}, type : EntityTypes \cup {Null},
               into : Entities \cup {Null}]

Proposals == [Entities -> {"NONE", "PENDING", "ACCEPTED", "REJECTED"}]

\* The types of the rows, and that one alias belongs to one Entity.
TypeOK ==
    /\ document \in [Documents -> DocumentRows]
    /\ mention \in [Slots -> MentionRows]
    /\ entity \in [Entities -> EntityRows]
    /\ \A e, f \in Entities : e # f => Spelled(e) \cap Spelled(f) \subseteq {Null}
    /\ links \subseteq Entities \X values
    /\ \A s \in Slots : mention[s].valued => Value(s) \in values
    /\ candidate \in [Slots -> Proposals]
    /\ edits \in 0..MaxEdits

\* The audit log explains every assignment: the Entity of a mention is the
\* one of its latest assignment event, once the merges since are followed.
LogTellsAssignment ==
    \A s \in Slots :
        mention[s].entity = IF trail[s].entity = Null THEN Null ELSE Canonical(trail[s].entity)

\* A hard rule of the user binds for ever: however its two Entities were
\* merged since, the rule is there for those that stand for them now, and a
\* Cannot-Link pair never became one Entity (mergeEntities, constraints).
RulesFollow ==
    \A rule \in recorded : \A a, b \in rule[1] :
        a # b => IF Canonical(a) = Canonical(b) THEN rule[2] = "MUST_LINK"
                 ELSE <<{Canonical(a), Canonical(b)}, rule[2]>> \in rules

\* A merged Entity is nowhere in use, and following merges ends at an active
\* Entity of the same type, whatever the order of a chain of merges.
NoGhosts ==
    \A e \in Entities : entity[e].status = "MERGED" =>
        /\ \A s \in Slots : mention[s].entity # e /\ candidate[s][e] # "PENDING"
        /\ RulesOf(e) = {}
        /\ Active(Canonical(e)) /\ entity[Canonical(e)].type = entity[e].type

\* A confirmation is of the Entity that the mention has now ("the confirmation
\* state must always bind to the current Entity", assignMention).
ConfirmationBinds ==
    \A s \in Slots : mention[s].review = "CONFIRMED" => trail[s].confirmed = mention[s].entity

\* Later documents find the identity: the Entity of an accepted mention holds
\* its value.  Mentions rejected before their resolution are left out.
LinkForAssigned ==
    \A s \in Slots :
        /\ mention[s].entity # Null /\ mention[s].valued
        /\ mention[s].review # "REJECTED" /\ ~trail[s].rejected
        => <<mention[s].entity, Value(s)>> \in links

\* A mention in the list of open decisions has no Entity yet, so that no
\* decision of the user is shown as pending (toMentionDto).
OpenMeansUnassigned ==
    \A s \in Slots : DecisionStatus(s) = "NEEDS_REVIEW" => mention[s].entity = Null

\* What a sanitized Document says can be restored as long as it exists: each
\* accepted mention has the mapping it was replaced by, and the Entity is still
\* active and still owns that alias.
ArtifactMatches ==
    \A d \in Documents : artifact[d] # Null =>
        \A s \in SlotsOf(d) :
            /\ artifact[d][s] # Null <=> s \in Accepted(d)
            /\ artifact[d][s] # Null =>
                  /\ Rehydratable(s, artifact[d][s])
                  /\ mention[s].entity # Null =>
                        /\ Active(mention[s].entity)
                        /\ artifact[d][s].alias \in Spelled(mention[s].entity)

\* The program makes a second Entity of one name only where the identity cards
\* of the Document contradict the first ("absence of evidence is not
\* contradictory evidence"); otherwise the user decides.
NoSilentTwin ==
    [][\A s \in Slots :
          /\ mention[s].entity = Null /\ mention'[s].entity \in Free
          /\ trail'[s].actor = "SYSTEM"
          => \A e \in Entities :
                Active(e) /\ entity[e].type = Info[s].type /\ <<e, Value(s)>> \in links
                => \E t \in Live(Info[s].doc), v \in values :
                      /\ Info[t].type = "ID_CARD" /\ v[1] = "ID_CARD"
                      /\ <<e, v>> \in links /\ v \notin PlannedValues(Info[s].doc)]_vars

\* Only detection blocks: what the preview lists and what sanitization refuses
\* are the accepted mentions that were detected without a value to protect.  No
\* assignment before resolution, merge, rename, split or rejection, in this
\* Document or in another of the Matter, makes or clears a blocker.
OnlyDetectionBlocks ==
    \A d \in Documents : CanSanitize(d) =>
        /\ Preview(d).blockers = {s \in Accepted(d) : ~Valued(s)}
        /\ \A s \in Accepted(d) : Replaceable(s) <=> Valued(s)

\* Review is closed by sanitization and in the trash, by every path: neither a
\* decision about a mention nor a merge of its Entity changes it then.
ReviewClosed ==
    [][\A s \in Slots :
          LET d == document[Info[s].doc]
          IN  d.trashed \/ d.status = "SANITIZED" => mention'[s] = mention[s]]_vars

\* Code and documents disagree (see README).  The preview lists no blocker, so
\* sanitization goes through ("Blocker predicates mirror ... exactly").
EmptyPreviewMeansSanitized ==
    \A d \in Documents :
        CanSanitize(d) /\ Preview(d).blockers = {} => SanitizeSucceeds(d)

\* "Explicitly rejected false positives are omitted": a mention that the user
\* rejected counts again only after the user confirms or assigns it.
RejectionStands ==
    \A s \in Slots :
        trail[s].rejected /\ trail[s].confirmed = Null => s \notin Accepted(Info[s].doc)

\* "An Alias ... must be checked against every ProtectedValue class in the
\* Matter": no alias in use spells out a protected value.
AliasIsNoValue ==
    \A e \in Entities, v \in values : Active(e) => alias[e].primary # v[2]

=============================================================================
