-------------------------- MODULE EntityReviewProof --------------------------
(***************************************************************************)
(* Proofs about EntityReview, for any Documents, spans, Entities and       *)
(* aliases, and any number of review operations.  The last part is about   *)
(* the decision rules, for any number of candidates in any order.          *)
(***************************************************************************)
EXTENDS EntityReview, MCResolutionRules, FiniteSetTheorems,
        WellFoundedInduction, TLAPS

-----------------------------------------------------------------------------
(* Types                                                                   *)

AllNames == Texts \cup {Synthetic(e) : e \in Entities} \cup {Null}
AliasRows == [primary : AllNames, former : SUBSET AllNames]
AllValues == {Value(s) : s \in Slots}
RuleTypes == {"MUST_LINK", "CANNOT_LINK"}
Trails == [entity : Entities \cup {Null}, actor : {"SYSTEM", "USER", Null},
           confirmed : Entities \cup {Null}, rejected : BOOLEAN]

Typed ==
    /\ document \in [Documents -> DocumentRows]
    /\ mention \in [Slots -> MentionRows]
    /\ entity \in [Entities -> EntityRows]
    /\ alias \in [Entities -> AliasRows]
    /\ values \subseteq AllValues
    /\ links \subseteq Entities \X values
    /\ candidate \in [Slots -> Proposals]
    /\ trail \in [Slots -> Trails]
    /\ artifact = [d \in Documents |-> artifact[d]]

-----------------------------------------------------------------------------
(* The invariant                                                           *)

Exists(e) == entity[e].status # "NONE"

\* A row that is not shown says nothing; an Entity in use is active.
MentionsSound ==
    \A s \in Slots :
        /\ mention[s].entity # Null => mention[s].live /\ Active(mention[s].entity)
        /\ mention[s].valued => mention[s].live /\ Value(s) \in values
        /\ mention[s].review = "CONFIRMED" => mention[s].entity # Null
        /\ mention[s].review = "REJECTED" => trail[s].rejected

ProposalsActive ==
    \A s \in Slots, e \in Entities : candidate[s][e] = "PENDING" => Active(e)

\* A rule relates two Entities.
Relates(rule) ==
    \E a, b \in Entities, type \in RuleTypes : a # b /\ rule = <<{a, b}, type>>

RulesActive == \A rule \in rules : Relates(rule) /\ \A e \in rule[1] : Active(e)
RecordedExist == \A rule \in recorded : Relates(rule) /\ \A e \in rule[1] : Exists(e)

\* Following merges ends at an active Entity of the type, after no more steps
\* than there are merged Entities.
Merged == {e \in Entities : entity[e].status = "MERGED"}
Reached(e) == Iterated(Successor, e, Cardinality(Entities))[Cardinality(Merged)]
MergesEnd ==
    \A e \in Entities :
        /\ entity[e].status = "MERGED" => entity[e].into # Null
        /\ Exists(e) => Active(Reached(e)) /\ entity[Reached(e)].type = entity[e].type

\* An Entity is a person or an organization.
Classed == \A e \in Entities : Exists(e) => entity[e].type \in EntityTypes

SanitizedOnly == \A d \in Documents : artifact[d] # Null => document[d].status = "SANITIZED"

IInv ==
    /\ Typed /\ MentionsSound /\ ProposalsActive /\ RulesActive /\ RecordedExist
    /\ MergesEnd /\ Classed /\ SanitizedOnly
    /\ ConfirmationBinds /\ LinkForAssigned /\ RulesFollow /\ ArtifactMatches

-----------------------------------------------------------------------------
(* Numbers and finite sets                                                 *)

LEMMA Least ==
    ASSUME NEW T, T \subseteq Nat, T # {}
    PROVE  \E x \in T : \A y \in T : x <= y
  <1> DEFINE R == {p \in Nat \X Nat : p[1] < p[2]}
  <1>1. IsWellFoundedOn(R, Nat)
    BY NatLessThanWellFounded DEF OpToRel
  <1> HIDE DEF R
  <1>2. PICK x \in T : \A y \in T : ~(<<y, x>> \in R)
    BY <1>1, WFMin
  <1>3. ASSUME NEW y \in T PROVE x <= y
    <2>1. CASE y < x
      <3>1. <<y, x>> \in Nat \X Nat /\ <<y, x>>[1] = y /\ <<y, x>>[2] = x
        OBVIOUS
      <3>2. <<y, x>> \in R
        BY <2>1, <3>1 DEF R
      <3> QED BY <3>2, <1>2
    <2> QED BY <2>1
  <1> QED BY <1>3

LEMMA SetInduction ==
    ASSUME NEW S, 0 \in S, \A n \in Nat : n \in S => n + 1 \in S
    PROVE  Nat \subseteq S
  <1> SUFFICES ASSUME ~(Nat \subseteq S) PROVE FALSE
    OBVIOUS
  <1>1. PICK x \in Nat \ S : \A y \in Nat \ S : x <= y
    BY Least
  <1>2. x - 1 \in Nat
    BY <1>1
  <1>3. x - 1 \in S
    BY <1>1, <1>2
  <1> QED BY <1>1, <1>2, <1>3


LEMMA EntitiesFacts ==
    /\ Cardinality(Entities) \in Nat /\ Entities = 1..Cardinality(Entities)
    /\ Entities \subseteq Nat /\ Null \notin Entities /\ IsFiniteSet(Entities)
  <1>1. Cardinality(Entities) \in Nat
    BY EntitiesAssumption, FS_CardinalityType
  <1> QED BY <1>1, EntitiesAssumption

LEMMA FirstOfFacts ==
    ASSUME NEW ids, ids \subseteq Entities, ids # {}
    PROVE  FirstOf(ids) \in ids
  <1>1. \E e \in ids : \A f \in ids : e <= f
    BY Least, EntitiesFacts
  <1> QED BY <1>1 DEF FirstOf

LEMMA IteratedFacts ==
    ASSUME NEW E, NEW next \in [E -> E], NEW e \in E, NEW N \in Nat
    PROVE  /\ Iterated(next, e, N)[0] = e
           /\ \A n \in 0..N : /\ Iterated(next, e, N)[n] \in E
                              /\ n < N => Iterated(next, e, N)[n + 1] = next[Iterated(next, e, N)[n]]
  <1>0. \E h : h = [i \in 0..N |-> IF i = 0 THEN e ELSE next[h[i - 1]]]
    <2> DEFINE Step(h, i) == IF i = 0 THEN e ELSE next[h[i - 1]]
               Good(h, m) == h = [i \in 0..m |-> Step(h, i)]
               S == {m \in Nat : \E h : Good(h, m)}
    <2>1. 0 \in S
      <3>1. Good([i \in 0..0 |-> e], 0)
        OBVIOUS
      <3> QED BY <3>1
    <2>2. ASSUME NEW m \in Nat, m \in S PROVE m + 1 \in S
      <3>1. PICK h : Good(h, m)
        BY <2>2
      <3> DEFINE g == [i \in 0..(m + 1) |-> IF i = m + 1 THEN Step(h, i) ELSE h[i]]
      <3> HIDE DEF Good
      <3>2. ASSUME NEW i \in 0..(m + 1) PROVE g[i] = Step(g, i)
        <4>1. CASE i = m + 1
          <5>1. g[m] = h[m] /\ g[i] = Step(h, i)
            BY <4>1
          <5> QED BY <4>1, <5>1
        <4>2. CASE i # m + 1
          <5>1. i \in 0..m /\ g[i] = h[i]
            BY <4>2
          <5>2. h[i] = Step(h, i)
            BY <3>1, <5>1 DEF Good
          <5>3. i # 0 => g[i - 1] = h[i - 1]
            BY <5>1
          <5> QED BY <5>1, <5>2, <5>3
        <4> QED BY <4>1, <4>2
      <3>3. Good(g, m + 1)
        BY <3>2 DEF Good
      <3> QED BY <3>3
    <2> HIDE DEF S
    <2>3. Nat \subseteq S
      BY <2>1, <2>2, SetInduction
    <2> QED BY <2>3 DEF S, Good
  <1> DEFINE after[n \in 0..N] == IF n = 0 THEN e ELSE next[after[n - 1]]
  <1>1. Iterated(next, e, N) = after
    BY Zenon DEF Iterated
  <1>2. after = [n \in 0..N |-> IF n = 0 THEN e ELSE next[after[n - 1]]]
    BY <1>0, Zenon DEF after
  <1> HIDE DEF after
  <1>3. after[0] = e
    BY <1>2
  <1>4. ASSUME NEW n \in 0..N, n < N PROVE after[n + 1] = next[after[n]]
    <2> DEFINE m == n + 1
    <2>1. m \in 0..N /\ m # 0 /\ m - 1 = n
      BY <1>4
    <2> HIDE DEF m
    <2>2. after[m] = next[after[m - 1]]
      BY <1>2, <2>1
    <2> QED BY <2>1, <2>2 DEF m
  <1> DEFINE S == {n \in Nat : n <= N => after[n] \in E}
  <1>5. 0 \in S
    BY <1>3
  <1>6. ASSUME NEW n \in Nat, n \in S PROVE n + 1 \in S
    <2> SUFFICES ASSUME n + 1 <= N PROVE after[n + 1] \in E
      OBVIOUS
    <2>1. n \in 0..N /\ n < N /\ after[n] \in E
      BY <1>6
    <2> QED BY <1>4, <2>1
  <1> HIDE DEF S
  <1>7. Nat \subseteq S
    BY <1>5, <1>6, SetInduction
  <1>8. \A n \in 0..N : after[n] \in E
    BY <1>7 DEF S
  <1> QED BY <1>1, <1>3, <1>4, <1>8

\* Once an iteration stands still it stays there.
LEMMA IteratedStays ==
    ASSUME NEW E, NEW next \in [E -> E], NEW e \in E, NEW N \in Nat,
           NEW k \in 0..N, next[Iterated(next, e, N)[k]] = Iterated(next, e, N)[k]
    PROVE  \A n \in k..N : Iterated(next, e, N)[n] = Iterated(next, e, N)[k]
  <1> DEFINE it == Iterated(next, e, N)
             S == {n \in Nat : k + n <= N => it[k + n] = it[k]}
  <1>1. \A n \in 0..N : n < N => it[n + 1] = next[it[n]]
    BY IteratedFacts
  <1>2. 0 \in S
    OBVIOUS
  <1>3. ASSUME NEW n \in Nat, n \in S PROVE n + 1 \in S
    <2> SUFFICES ASSUME k + (n + 1) <= N PROVE it[k + (n + 1)] = it[k]
      OBVIOUS
    <2>1. k + n \in 0..N /\ k + n < N /\ it[k + n] = it[k] /\ (k + n) + 1 = k + (n + 1)
      BY <1>3
    <2>2. it[(k + n) + 1] = next[it[k + n]]
      BY <1>1, <2>1
    <2> QED BY <2>1, <2>2
  <1> HIDE DEF it
  <1>4. Nat \subseteq S
    <2> HIDE DEF S
    <2> QED BY <1>2, <1>3, SetInduction
  <1>5. ASSUME NEW n \in k..N PROVE it[n] = it[k]
    <2>1. n - k \in Nat /\ k + (n - k) = n
      OBVIOUS
    <2>2. n - k \in S
      BY <1>4, <2>1
    <2> QED BY <2>1, <2>2
  <1> QED BY <1>5 DEF it

\* Two iterations that agree wherever the first one comes through are the same.
LEMMA IteratedAgree ==
    ASSUME NEW E, NEW next \in [E -> E], NEW other \in [E -> E], NEW e \in E, NEW N \in Nat,
           \A n \in 0..N : other[Iterated(next, e, N)[n]] = next[Iterated(next, e, N)[n]]
    PROVE  \A n \in 0..N : Iterated(other, e, N)[n] = Iterated(next, e, N)[n]
  <1> DEFINE it == Iterated(next, e, N)
             ot == Iterated(other, e, N)
             S == {n \in Nat : n <= N => ot[n] = it[n]}
  <1>1. it[0] = e /\ \A n \in 0..N : n < N => it[n + 1] = next[it[n]]
    BY IteratedFacts
  <1>2. ot[0] = e /\ \A n \in 0..N : n < N => ot[n + 1] = other[ot[n]]
    BY IteratedFacts
  <1>3. \A n \in 0..N : other[it[n]] = next[it[n]]
    OBVIOUS
  <1> HIDE DEF it, ot
  <1>4. 0 \in S
    BY <1>1, <1>2
  <1>5. ASSUME NEW n \in Nat, n \in S PROVE n + 1 \in S
    <2> SUFFICES ASSUME n + 1 <= N PROVE ot[n + 1] = it[n + 1]
      OBVIOUS
    <2>1. n \in 0..N /\ n < N /\ ot[n] = it[n]
      BY <1>5
    <2> QED BY <1>1, <1>2, <1>3, <2>1
  <1> HIDE DEF S
  <1>6. Nat \subseteq S
    BY <1>4, <1>5, SetInduction
  <1>7. \A n \in 0..N : ot[n] = it[n]
    BY <1>6 DEF S
  <1> QED BY <1>7 DEF it, ot

\* The sequence of a finite set has its members.
LEMMA SetToSeqFacts ==
    ASSUME NEW S, IsFiniteSet(S)
    PROVE  /\ \A i \in DOMAIN SetToSeq(S) : SetToSeq(S)[i] \in S
           /\ \A x \in S : \E i \in DOMAIN SetToSeq(S) : SetToSeq(S)[i] = x
           /\ DOMAIN SetToSeq(S) = 1..Cardinality(S) /\ Cardinality(S) \in Nat
           /\ \A i, j \in DOMAIN SetToSeq(S) : SetToSeq(S)[i] = SetToSeq(S)[j] => i = j
  <1> DEFINE n == Cardinality(S)
             f == SetToSeq(S)
  <1>1. n \in Nat /\ ExistsBijection(1..n, S)
    BY FS_CardinalityType
  <1>2. PICK b : b \in Bijection(1..n, S)
    BY <1>1 DEF ExistsBijection
  <1>3. b \in [1..n -> S] /\ IsInjective(b)
    BY <1>2 DEF Bijection, Injection, IsInjective
  <1>4. f \in [1..n -> S] /\ IsInjective(f)
    BY <1>3 DEF SetToSeq
  <1> HIDE DEF f
  <1>5. f \in Injection(1..n, S)
    BY <1>4 DEF Injection, IsInjective
  <1>6. Cardinality(1..n) = n
    BY <1>1, FS_Interval
  <1>7. f \in Surjection(1..n, S)
    BY <1>5, <1>6, FS_Injection
  <1>8. \A x \in S : \E i \in 1..n : f[i] = x
    BY <1>7 DEF Surjection
  <1>9. \A i, j \in DOMAIN f : f[i] = f[j] => i = j
    BY <1>4 DEF IsInjective
  <1> QED BY <1>1, <1>4, <1>8, <1>9 DEF f

-----------------------------------------------------------------------------
(* Merges                                                                  *)

Redirected(next, source, target) ==
    [f \in Entities |-> IF f = source THEN target ELSE next[f]]

\* A new link at the end of a chain prolongs the chains that end there.
LEMMA IteratedRedirect ==
    ASSUME NEW next \in [Entities -> Entities], NEW other \in [Entities -> Entities],
           NEW source \in Entities, NEW target \in Entities, source # target,
           next[source] = source, next[target] = target,
           other = Redirected(next, source, target),
           NEW e \in Entities, NEW N \in Nat, NEW m \in Nat, m + 1 <= N,
           next[Iterated(next, e, N)[m]] = Iterated(next, e, N)[m]
    PROVE  /\ Iterated(next, e, N)[N] = Iterated(next, e, N)[m]
           /\ Iterated(other, e, N)[m + 1] =
                IF Iterated(next, e, N)[m] = source THEN target ELSE Iterated(next, e, N)[m]
           /\ Iterated(other, e, N)[N] = Iterated(other, e, N)[m + 1]
  <1> DEFINE it == Iterated(next, e, N)
             ot == Iterated(other, e, N)
             S == {n \in Nat : n <= N => ot[n] = it[n] \/ (it[n] = source /\ ot[n] = target)}
  <1>0. \A f \in Entities : other[f] = IF f = source THEN target ELSE next[f]
    BY DEF Redirected
  <1>1. it[0] = e /\ \A n \in 0..N : it[n] \in Entities /\ (n < N => it[n + 1] = next[it[n]])
    BY IteratedFacts
  <1>2. ot[0] = e /\ \A n \in 0..N : ot[n] \in Entities /\ (n < N => ot[n + 1] = other[ot[n]])
    BY IteratedFacts
  <1>3. m \in 0..N /\ m + 1 \in 0..N /\ N \in m..N /\ m + 1 \in m..N /\ N \in (m + 1)..N /\ m < N
    OBVIOUS
  <1>4. it[N] = it[m]
    BY <1>3, IteratedStays
  <1>5. ASSUME other[ot[m + 1]] = ot[m + 1] PROVE ot[N] = ot[m + 1]
    BY <1>3, <1>5, IteratedStays
  <1> HIDE DEF it, ot
  <1>6. 0 \in S
    BY <1>1, <1>2
  <1>7. ASSUME NEW n \in Nat, n \in S PROVE n + 1 \in S
    <2> SUFFICES ASSUME n + 1 <= N
                 PROVE ot[n + 1] = it[n + 1] \/ (it[n + 1] = source /\ ot[n + 1] = target)
      OBVIOUS
    <2>1. n \in 0..N /\ n < N
      OBVIOUS
    <2>2. it[n + 1] = next[it[n]] /\ ot[n + 1] = other[ot[n]] /\ it[n] \in Entities /\ ot[n] \in Entities
      BY <1>1, <1>2, <2>1
    <2>3. CASE it[n] = source
      BY <1>0, <1>7, <2>1, <2>2, <2>3
    <2>4. CASE it[n] # source
      BY <1>0, <1>7, <2>1, <2>2, <2>4
    <2> QED BY <2>3, <2>4
  <1>8. Nat \subseteq S
    <2> HIDE DEF S
    <2> QED BY <1>6, <1>7, SetInduction
  <1>9. ot[m] = it[m] \/ (it[m] = source /\ ot[m] = target)
    BY <1>3, <1>8
  <1>10. ot[m + 1] = other[ot[m]] /\ ot[m] \in Entities /\ it[m] \in Entities
    BY <1>1, <1>2, <1>3
  <1>11. ot[m + 1] = IF it[m] = source THEN target ELSE it[m]
    BY <1>0, <1>9, <1>10 DEF it
  <1>12. other[ot[m + 1]] = ot[m + 1]
    BY <1>0, <1>10, <1>11 DEF it
  <1> QED BY <1>4, <1>5, <1>11, <1>12 DEF it, ot

LEMMA MergesFacts ==
    ASSUME Typed, MergesEnd
    PROVE  /\ Successor \in [Entities -> Entities]
           /\ Cardinality(Merged) \in 0..Cardinality(Entities)
           /\ \A e \in Entities :
                /\ Reached(e) \in Entities /\ Canonical(e) \in Entities
                /\ Active(e) => Canonical(e) = e /\ Reached(e) = e
                /\ Exists(e) => /\ Canonical(e) = Reached(e)
                                /\ Successor[Reached(e)] = Reached(e)
                                /\ Active(Canonical(e))
                                /\ entity[Canonical(e)].type = entity[e].type
  <1> DEFINE N == Cardinality(Entities)
             m == Cardinality(Merged)
  <1>1. entity \in [Entities -> EntityRows] /\ N \in Nat
    BY EntitiesFacts DEF Typed
  <1>2. \A e \in Entities : entity[e].into \in Entities \cup {Null}
    BY <1>1 DEF EntityRows
  <1>3. \A e \in Entities : entity[e].status = "MERGED" => entity[e].into \in Entities
    BY <1>2 DEF MergesEnd
  <1>4. Successor \in [Entities -> Entities]
    BY <1>3 DEF Successor
  <1>5. m \in 0..N
    <2>1. Merged \in SUBSET Entities
      BY DEF Merged
    <2>2. IsFiniteSet(Merged) /\ m <= N
      BY <2>1, EntitiesFacts, FS_Subset
    <2>3. m \in Nat
      BY <2>2, FS_CardinalityType
    <2> QED BY <1>1, <2>2, <2>3
  <1>6. ASSUME NEW e \in Entities
        PROVE  /\ Reached(e) \in Entities /\ Canonical(e) \in Entities
               /\ Active(e) => Canonical(e) = e /\ Reached(e) = e
               /\ Exists(e) => /\ Canonical(e) = Reached(e)
                               /\ Successor[Reached(e)] = Reached(e)
                               /\ Active(Canonical(e))
                               /\ entity[Canonical(e)].type = entity[e].type
    <2> DEFINE it == Iterated(Successor, e, N)
    <2>1. it[0] = e /\ \A n \in 0..N : it[n] \in Entities
      BY <1>1, <1>4, IteratedFacts
    <2>2. \A k \in 0..N : Successor[it[k]] = it[k] => \A n \in k..N : it[n] = it[k]
      BY <1>1, <1>4, IteratedStays
    <2> HIDE DEF it
    <2>3. Reached(e) = it[m] /\ Canonical(e) = it[N]
      BY DEF Reached, Canonical, it
    <2>4. Reached(e) \in Entities /\ Canonical(e) \in Entities
      BY <1>1, <1>5, <2>1, <2>3
    <2>5. ASSUME NEW f \in Entities, Active(f) PROVE Successor[f] = f
      BY <2>5 DEF Successor, Active
    <2>6. ASSUME Active(e) PROVE Canonical(e) = e /\ Reached(e) = e
      <3>1. Successor[it[0]] = it[0]
        BY <2>1, <2>5, <2>6
      <3>2. \A n \in 0..N : it[n] = e
        BY <1>1, <2>1, <2>2, <3>1
      <3> QED BY <1>1, <1>5, <2>3, <3>2
    <2>7. ASSUME Exists(e)
          PROVE  /\ Canonical(e) = Reached(e)
                 /\ Successor[Reached(e)] = Reached(e)
                 /\ Active(Canonical(e))
                 /\ entity[Canonical(e)].type = entity[e].type
      <3>1. Active(Reached(e)) /\ entity[Reached(e)].type = entity[e].type
        BY <2>7 DEF MergesEnd
      <3>2. Successor[Reached(e)] = Reached(e)
        BY <2>4, <2>5, <3>1
      <3>3. it[N] = it[m]
        BY <1>1, <1>5, <2>2, <2>3, <3>2
      <3> QED BY <2>3, <3>1, <3>2, <3>3
    <2> QED BY <2>4, <2>6, <2>7
  <1> QED BY <1>4, <1>5, <1>6

\* New Entities change none of the merges.
LEMMA MergesKept ==
    ASSUME Typed, MergesEnd, entity' \in [Entities -> EntityRows],
           \A e \in Entities : \/ entity'[e] = entity[e]
                               \/ ~Exists(e) /\ entity'[e].status = "ACTIVE"
    PROVE  /\ MergesEnd'
           /\ \A e \in Entities : Canonical(e)' = Canonical(e)
           /\ \A e \in Entities : (Exists(e) => Exists(e)') /\ (Active(e) => Active(e)')
  <1>1. \A e \in Entities : (entity'[e].status = "MERGED" <=> entity[e].status = "MERGED")
                            /\ (entity'[e].status = "MERGED" => entity'[e].into = entity[e].into)
    BY DEF Exists
  <1>2. Successor' = Successor
    BY <1>1 DEF Successor
  <1>3. Merged' = Merged
    BY <1>1 DEF Merged
  <1>4. \A e \in Entities : Canonical(e)' = Canonical(e) /\ Reached(e)' = Reached(e)
    BY <1>2, <1>3 DEF Canonical, Reached
  <1>5. \A e \in Entities : (Exists(e) => Exists(e)') /\ (Active(e) => Active(e)')
    BY DEF Exists, Active
  <1>6. ASSUME NEW e \in Entities
        PROVE  /\ entity'[e].status = "MERGED" => entity'[e].into # Null
               /\ Exists(e)' => /\ entity'[Reached(e)'].status = "ACTIVE"
                                /\ entity'[Reached(e)'].type = entity'[e].type
    <2>1. Reached(e) \in Entities /\ Reached(e)' = Reached(e)
      BY <1>4, MergesFacts
    <2>2. entity'[e].status = "MERGED" => entity'[e].into # Null
      BY <1>1 DEF MergesEnd
    <2>3. CASE Exists(e)
      <3>1. Active(Reached(e)) /\ entity[Reached(e)].type = entity[e].type
        BY <2>3 DEF MergesEnd
      <3>2. entity'[e] = entity[e]
        BY <2>3
      <3>3. entity'[Reached(e)] = entity[Reached(e)]
        BY <2>1, <3>1 DEF Exists, Active
      <3> QED BY <2>1, <2>2, <3>1, <3>2, <3>3 DEF Active
    <2>4. CASE ~Exists(e) /\ Exists(e)'
      <3>1. Successor \in [Entities -> Entities] /\ Successor[e] = e
            /\ Cardinality(Merged) \in 0..Cardinality(Entities)
            /\ Cardinality(Entities) \in Nat
        BY <2>4, MergesFacts, EntitiesFacts DEF Successor, Exists
      <3> DEFINE N == Cardinality(Entities)
      <3>2. PICK next \in [Entities -> Entities] : next = Successor
        BY <3>1
      <3>3. Iterated(next, e, N)[0] = e
        BY <3>1, IteratedFacts
      <3>4. next[Iterated(next, e, N)[0]] = Iterated(next, e, N)[0] /\ 0 \in 0..N
        BY <3>1, <3>2, <3>3
      <3>5. \A n \in 0..N : Iterated(next, e, N)[n] = Iterated(next, e, N)[0]
        BY <3>1, <3>4, IteratedStays
      <3>6. Reached(e) = e
        BY <3>1, <3>2, <3>3, <3>5 DEF Reached
      <3>7. entity'[e].status = "ACTIVE"
        BY <2>4 DEF Exists
      <3> QED BY <2>1, <2>2, <3>6, <3>7
    <2> QED BY <2>2, <2>3, <2>4
  <1>7. MergesEnd'
    BY <1>6 DEF MergesEnd, Active
  <1> QED BY <1>4, <1>5, <1>7

\* After a merge the target stands for what the source stood for.
LEMMA MergesMoved ==
    ASSUME Typed, MergesEnd, NEW source \in Entities, NEW target \in Entities, source # target,
           Active(source), Active(target), entity[source].type = entity[target].type,
           entity' = [entity EXCEPT ![source].status = "MERGED", ![source].into = target]
    PROVE  /\ MergesEnd'
           /\ \A e \in Entities : Exists(e) =>
                Canonical(e)' = IF Canonical(e) = source THEN target ELSE Canonical(e)
  <1> DEFINE N == Cardinality(Entities)
             m == Cardinality(Merged)
  <1>1. entity \in [Entities -> EntityRows] /\ N \in Nat /\ m \in Nat /\ m \in 0..N
        /\ Successor \in [Entities -> Entities]
    BY EntitiesFacts, MergesFacts DEF Typed
  <1>2. /\ \A e \in Entities : e # source => entity'[e] = entity[e]
        /\ entity'[source].status = "MERGED" /\ entity'[source].into = target
        /\ entity'[source].type = entity[source].type
    BY <1>1 DEF EntityRows
  <1>3. Merged' = Merged \cup {source} /\ source \notin Merged
    BY <1>2 DEF Merged, Active
  <1>4. Cardinality(Merged)' = m + 1 /\ m + 1 <= N
    <2>1. Merged \in SUBSET Entities /\ Merged \cup {source} \in SUBSET Entities
      BY DEF Merged
    <2>2. IsFiniteSet(Merged)
      BY <2>1, EntitiesFacts, FS_Subset
    <2>3. Cardinality(Merged \cup {source}) = m + 1
      BY <1>3, <2>2, FS_AddElement
    <2>4. Cardinality(Merged \cup {source}) <= N
      BY <2>1, EntitiesFacts, FS_Subset
    <2> QED BY <1>3, <2>3, <2>4
  <1>5. \A e \in Entities : Successor'[e] = IF e = source THEN target ELSE Successor[e]
    <2> TAKE e \in Entities
    <2>1. /\ Successor[e] = IF entity[e].status = "MERGED" THEN entity[e].into ELSE e
          /\ Successor'[e] = IF entity'[e].status = "MERGED" THEN entity'[e].into ELSE e
      BY DEF Successor
    <2> HIDE DEF Successor
    <2>2. CASE e = source
      BY <1>2, <2>1, <2>2
    <2>3. CASE e # source
      BY <1>2, <2>1, <2>3
    <2> QED BY <2>2, <2>3
  <1>6. Successor' \in [Entities -> Entities]
    <2>1. Successor' = [e \in Entities |-> Successor'[e]]
      BY DEF Successor
    <2> QED BY <1>1, <1>5, <2>1
  <1>7. Successor[source] = source /\ Successor[target] = target
    BY DEF Successor, Active
  <1>8. PICK next \in [Entities -> Entities] : next = Successor
    BY <1>1
  <1>9. PICK other \in [Entities -> Entities] : other = Successor'
    BY <1>6
  <1>10. PICK k \in Nat : k = m
    BY <1>1
  <1>11. ASSUME NEW e \in Entities, Exists(e)
         PROVE  /\ Canonical(e)' = IF Canonical(e) = source THEN target ELSE Canonical(e)
                /\ Reached(e)' = Canonical(e)'
    <2>1. Canonical(e) = Reached(e) /\ Successor[Reached(e)] = Reached(e)
      BY <1>11, MergesFacts
    <2>2. /\ Reached(e) = Iterated(next, e, N)[k] /\ Canonical(e) = Iterated(next, e, N)[N]
          /\ Reached(e)' = Iterated(other, e, N)[k + 1] /\ Canonical(e)' = Iterated(other, e, N)[N]
      BY <1>4, <1>8, <1>9, <1>10 DEF Reached, Canonical
    <2>3. next[Iterated(next, e, N)[k]] = Iterated(next, e, N)[k]
      BY <1>8, <2>1, <2>2
    <2>4. /\ next[source] = source /\ next[target] = target /\ k + 1 <= N
          /\ \A f \in Entities : other[f] = IF f = source THEN target ELSE next[f]
      BY <1>4, <1>5, <1>7, <1>8, <1>9, <1>10
    <2>5. PICK j \in Nat : j = N
      BY <1>1
    <2>6. next[Iterated(next, e, j)[k]] = Iterated(next, e, j)[k] /\ k + 1 <= j
      BY <2>3, <2>4, <2>5
    <2>7. /\ Iterated(other, e, j)[k + 1] =
                IF Iterated(next, e, j)[k] = source THEN target ELSE Iterated(next, e, j)[k]
          /\ Iterated(other, e, j)[j] = Iterated(other, e, j)[k + 1]
          /\ Iterated(next, e, j)[j] = Iterated(next, e, j)[k]
      <3>1. other = Redirected(next, source, target)
        BY <1>5, <1>6, <1>8, <1>9 DEF Redirected
      <3> HIDE DEF N, m
      <3>2. next[source] = source /\ next[target] = target
        BY <2>4
      <3>3. next[Iterated(next, e, j)[k]] = Iterated(next, e, j)[k] /\ k + 1 <= j
        BY <2>6
      <3> QED BY <3>1, <3>2, <3>3, IteratedRedirect
    <2> HIDE DEF N
    <2>8. /\ Reached(e)' = Iterated(other, e, j)[k + 1] /\ Canonical(e)' = Iterated(other, e, j)[j]
          /\ Canonical(e) = Iterated(next, e, j)[k]
      BY <2>1, <2>2, <2>5
    <2>9. Reached(e)' = Canonical(e)'
      BY <2>7, <2>8
    <2> QED BY <2>7, <2>8, <2>9
  <1>12. ASSUME NEW e \in Entities
         PROVE  /\ entity'[e].status = "MERGED" => entity'[e].into # Null
                /\ Exists(e)' => /\ entity'[Reached(e)'].status = "ACTIVE"
                                 /\ entity'[Reached(e)'].type = entity'[e].type
    <2>1. entity'[e].status = "MERGED" => entity'[e].into # Null
      <3>1. CASE e = source
        BY <1>2, <3>1, EntitiesFacts
      <3>2. CASE e # source
        BY <1>2, <3>2 DEF MergesEnd
      <3> QED BY <3>1, <3>2
    <2>2. ASSUME Exists(e)'
          PROVE  /\ entity'[Reached(e)'].status = "ACTIVE"
                 /\ entity'[Reached(e)'].type = entity'[e].type
      <3>1. Exists(e)
        BY <1>2, <2>2 DEF Exists, Active
      <3>2. Reached(e)' = IF Canonical(e) = source THEN target ELSE Canonical(e)
        BY <1>11, <3>1
      <3>3. Active(Canonical(e)) /\ entity[Canonical(e)].type = entity[e].type
            /\ Canonical(e) \in Entities
        BY <3>1, MergesFacts
      <3>4. entity'[e].type = entity[e].type
        BY <1>2
      <3>5. PICK f \in Entities : f = Canonical(e)
        BY <3>3
      <3>6. CASE f = source
        <4>1. Reached(e)' = target /\ entity'[target] = entity[target]
          BY <1>2, <3>2, <3>5, <3>6
        <4> QED BY <3>3, <3>4, <3>5, <3>6, <4>1 DEF Active
      <3>7. CASE f # source
        <4>1. Reached(e)' = f /\ entity'[f] = entity[f]
          BY <1>2, <3>2, <3>5, <3>7
        <4> QED BY <3>3, <3>4, <3>5, <4>1 DEF Active
      <3> QED BY <3>6, <3>7
    <2> QED BY <2>1, <2>2
  <1>13. MergesEnd'
    BY <1>12 DEF MergesEnd, Active
  <1> QED BY <1>11, <1>13


-----------------------------------------------------------------------------
(* Decisions                                                               *)

Row(c, i) == [entity |-> c.entity, score |-> c.score, hard |-> c.hard, first |-> i]

Score == 0..400

\* One usable candidate of an Entity is the row of that Entity.
LEMMA Normalized ==
    ASSUME NEW m, NEW q, DOMAIN q \subseteq Nat,
           \A i \in DOMAIN q : q[i].score \in Score /\ q[i].hard \in HardRules,
           \A i, j \in DOMAIN q : q[i].entity = q[j].entity => i = j
    PROVE  NormalizeCandidates(m, q) = {Row(q[i], i) : i \in {j \in DOMAIN q : Usable(m, q[j])}}
  <1> DEFINE usable == {i \in DOMAIN q : Usable(m, q[i])}
             Rows(e) == {i \in usable : q[i].entity = e}
             Scores(e) == {q[i].score : i \in Rows(e)}
             Hards(e) == {q[i].hard : i \in Rows(e)}
             First(e) == CHOOSE i \in Rows(e) : \A j \in Rows(e) : i <= j
             Collapsed(e) ==
                [entity |-> e, score |-> Max(Scores(e)), hard |-> Strongest(Hards(e)),
                 first |-> First(e)]
  <1>1. ASSUME NEW i \in usable PROVE Collapsed(q[i].entity) = Row(q[i], i)
    <2>1. Rows(q[i].entity) = {i}
      OBVIOUS
    <2> HIDE DEF Rows
    <2>2. Scores(q[i].entity) = {q[i].score} /\ Hards(q[i].entity) = {q[i].hard}
      BY <2>1
    <2>3. Max({q[i].score}) = q[i].score
      <3>1. PICK n \in Score : n = q[i].score
        OBVIOUS
      <3>2. \E x \in {n} : \A y \in {n} : x >= y
        BY DEF Score
      <3>3. Max({n}) = n
        BY <3>2 DEF Max
      <3> QED BY <3>1, <3>3
    <2>4. Strongest({q[i].hard}) = q[i].hard
      BY DEF Strongest, HardRules
    <2>5. First(q[i].entity) = i
      <3>1. \E k \in Rows(q[i].entity) : \A j \in Rows(q[i].entity) : k <= j
        BY <2>1
      <3>2. First(q[i].entity) \in Rows(q[i].entity)
        BY <3>1
      <3> QED BY <2>1, <3>2
    <2> HIDE DEF Scores, Hards, First
    <2> QED BY <2>2, <2>3, <2>4, <2>5 DEF Row
  <1>2. NormalizeCandidates(m, q) = {Collapsed(q[i].entity) : i \in usable}
    BY DEF NormalizeCandidates
  <1> HIDE DEF Collapsed
  <1>3. {Collapsed(q[i].entity) : i \in usable} = {Row(q[i], i) : i \in usable}
    BY <1>1
  <1> QED BY <1>2, <1>3

\* Candidates with a score and a place in the text have a highest one.
LEMMA TopOf ==
    ASSUME NEW ranked, ranked # {},
           \A r \in ranked : r.score \in Score /\ r.first \in Nat,
           \A r, o \in ranked : r.first = o.first => r = o
    PROVE  /\ Top(ranked) \in ranked
           /\ \A r \in ranked \ {Top(ranked)} : Higher(Top(ranked), r)
  <1> DEFINE Gaps == {400 - r.score : r \in ranked}
  <1>1. Gaps \subseteq Nat /\ Gaps # {}
    BY DEF Score
  <1> HIDE DEF Gaps
  <1>2. PICK g \in Gaps : \A h \in Gaps : g <= h
    BY <1>1, Least
  <1>3. PICK best \in ranked : g = 400 - best.score
    BY <1>2 DEF Gaps
  <1>4. ASSUME NEW r \in ranked PROVE best.score >= r.score
    <2>1. 400 - r.score \in Gaps
      BY DEF Gaps
    <2>2. g <= 400 - r.score
      BY <1>2, <2>1
    <2>3. PICK x, y \in 0..400 : x = best.score /\ y = r.score
      BY DEF Score
    <2> QED BY <1>3, <2>2, <2>3
  <1> DEFINE Places == {r.first : r \in {o \in ranked : o.score = best.score}}
  <1>5. Places \subseteq Nat /\ Places # {}
    <2>1. best.first \in Places
      BY <1>3
    <2> QED BY <2>1
  <1> HIDE DEF Places
  <1>6. PICK p \in Places : \A h \in Places : p <= h
    BY <1>5, Least
  <1>7. PICK top \in ranked : top.score = best.score /\ p = top.first
    BY <1>6 DEF Places
  <1>8. ASSUME NEW r \in ranked \ {top} PROVE Higher(top, r)
    <2>1. r.first # top.first /\ top.score >= r.score
      BY <1>4, <1>7
    <2>2. CASE r.score = best.score
      <3>1. p <= r.first
        BY <1>6, <2>2 DEF Places
      <3> QED BY <1>7, <2>1, <2>2, <3>1 DEF Higher
    <2>3. CASE r.score # best.score
      <3>1. PICK x, y \in 0..400 : x = top.score /\ y = r.score
        BY DEF Score
      <3> QED BY <1>7, <2>1, <2>3, <3>1 DEF Higher
    <2> QED BY <2>2, <2>3
  <1> QED BY <1>8 DEF Top

CandidateSet(C) ==
    /\ IsFiniteSet(C)
    /\ \A c \in C : c.score \in Score /\ c.hard \in HardRules
    /\ \A c, o \in C : c.entity = o.entity => c = o

\* What is decided is about a candidate, and a new Entity is decided only
\* where every usable candidate is excluded.
LEMMA DecisionFacts ==
    ASSUME NEW m, NEW C, CandidateSet(C)
    PROVE  LET decided == ProposeResolution(m, SetToSeq(C))
           IN  /\ \A r \in decided.ranked : \E c \in C : r.entity = c.entity
               /\ decided.decision = "AUTO_LINK" => \E c \in C : decided.candidate = c.entity
               /\ decided.decision = "NEW_ENTITY" =>
                    /\ m.type \in NameTypes
                    /\ \A c \in C : Usable(m, c) => c.hard = "CANNOT_LINK"
  <1> DEFINE q == SetToSeq(C)
             ranked == NormalizeCandidates(m, q)
             must == {c \in ranked : c.hard = "MUST_LINK"}
             eligible == {c \in ranked : c.hard # "CANNOT_LINK"}
             create == MayCreateEntity(m)
             decided == ProposeResolution(m, q)
  <1>1. /\ \A i \in DOMAIN q : q[i] \in C
        /\ \A x \in C : \E i \in DOMAIN q : q[i] = x
        /\ DOMAIN q \subseteq Nat
        /\ \A i, j \in DOMAIN q : q[i] = q[j] => i = j
    BY SetToSeqFacts DEF CandidateSet
  <1>2. decided = IF must # {}
        THEN Decided(IF must = {Top(must)} THEN "AUTO_LINK" ELSE "REVIEW", Top(must).entity, ranked)
        ELSE IF eligible = {}
        THEN Decided(IF create THEN "NEW_ENTITY" ELSE "UNRESOLVED", Nobody, ranked)
        ELSE IF MayAutoLink(m, eligible)
        THEN Decided("AUTO_LINK", Top(eligible).entity, ranked)
        ELSE IF Top(eligible).score >= 65 \/ create
        THEN Decided("REVIEW", Top(eligible).entity, ranked)
        ELSE Decided("UNRESOLVED", Nobody, ranked)
    BY DEF ProposeResolution
  <1> HIDE DEF q, decided
  <1>3. ranked = {Row(q[i], i) : i \in {j \in DOMAIN q : Usable(m, q[j])}}
    <2>1. \A i \in DOMAIN q : q[i].score \in Score /\ q[i].hard \in HardRules
      BY <1>1 DEF CandidateSet
    <2>2. \A i, j \in DOMAIN q : q[i].entity = q[j].entity => i = j
      BY <1>1 DEF CandidateSet
    <2> QED BY <1>1, <2>1, <2>2, Normalized
  <1>4. \A r \in ranked : \E i \in DOMAIN q :
           /\ r.entity = q[i].entity /\ r.score = q[i].score /\ r.hard = q[i].hard /\ r.first = i
           /\ r = Row(q[i], i) /\ Usable(m, q[i])
    BY <1>3 DEF Row
  <1>5. \A i \in DOMAIN q : Usable(m, q[i]) => Row(q[i], i) \in ranked /\ Row(q[i], i).hard = q[i].hard
    BY <1>3 DEF Row
  <1> HIDE DEF ranked
  <1>6. \A r \in ranked : r.score \in Score /\ r.first \in Nat /\ \E c \in C : r.entity = c.entity
    BY <1>1, <1>4 DEF CandidateSet
  <1>7. \A r, o \in ranked : r.first = o.first => r = o
    BY <1>4
  <1>8. ASSUME NEW S, S \subseteq ranked, S # {} PROVE Top(S) \in ranked
    BY <1>6, <1>7, <1>8, TopOf
  <1>9. must \subseteq ranked /\ eligible \subseteq ranked
    OBVIOUS
  <1>10. ASSUME eligible = {}, NEW c \in C, Usable(m, c) PROVE c.hard = "CANNOT_LINK"
    <2>1. PICK i \in DOMAIN q : q[i] = c
      BY <1>1
    <2> QED BY <1>5, <1>10, <2>1
  <1> HIDE DEF must, eligible
  <1>11. decided.ranked = ranked
    BY <1>2 DEF Decided
  <1>12. decided.decision = "AUTO_LINK" => \E c \in C : decided.candidate = c.entity
    <2>1. CASE must # {}
      BY <1>2, <1>6, <1>8, <1>9, <2>1 DEF Decided
    <2>2. CASE must = {}
      BY <1>2, <1>6, <1>8, <1>9, <2>2 DEF Decided
    <2> QED BY <2>1, <2>2
  <1>13. decided.decision = "NEW_ENTITY" => eligible = {} /\ create
    BY <1>2 DEF Decided
  <1> QED BY <1>6, <1>10, <1>11, <1>12, <1>13 DEF decided, q, MayCreateEntity

-----------------------------------------------------------------------------
(* A resolution run                                                        *)

Runs == [mention : [Slots -> MentionRows], entity : [Entities -> EntityRows],
         alias : [Entities -> AliasRows], links : SUBSET (Entities \X AllValues),
         candidate : [Slots -> Proposals], resolved : [Slots -> Entities \cup {Null}]]

ActiveIn(run, e) == run.entity[e].status = "ACTIVE"
UnusedIn(run) == {e \in Entities : run.entity[e].status = "NONE"}

\* What a run plans for an Entity.
EntityPlanned(run, e) ==
    /\ \/ run.entity[e] = entity[e]
       \/ ~Exists(e) /\ ActiveIn(run, e) /\ run.entity[e].type \in NameTypes
    /\ Exists(e) => run.alias[e] = alias[e]
    /\ ActiveIn(run, e) /\ ~Exists(e) => run.alias[e].primary # Null

\* The identity cards speak against every Entity that has the name.
NoTwin(s) ==
    \A e \in Entities :
        Active(e) /\ entity[e].type = Info[s].type /\ <<e, Value(s)>> \in links
        => Conflicts(Info[s].doc, e)

\* What a run plans for a mention of d.
MentionPlanned(d, run, s) ==
    /\ run.mention[s].live = mention[s].live /\ run.mention[s].review = mention[s].review
    /\ run.mention[s] = mention[s] \/ s \in Live(d)
    /\ mention[s].entity # Null => run.mention[s].entity = mention[s].entity
    /\ mention[s].valued => run.mention[s].valued
    /\ run.mention[s].valued /\ ~mention[s].valued =>
          /\ Valued(s)
          /\ run.mention[s].entity # Null => <<run.mention[s].entity, Value(s)>> \in run.links
    /\ run.mention[s].entity # mention[s].entity =>
          /\ Valued(s) /\ run.mention[s].valued
          /\ ActiveIn(run, run.mention[s].entity)
          /\ <<run.mention[s].entity, Value(s)>> \in run.links
          /\ ~Exists(run.mention[s].entity) /\ Info[s].type \in NameTypes => NoTwin(s)
    /\ \A e \in Entities : run.candidate[s][e] = "PENDING" => ActiveIn(run, e)
    /\ run.resolved[s] # Null => ActiveIn(run, run.resolved[s])

RunOk(d, run) ==
    /\ run \in Runs
    /\ links \subseteq run.links
    /\ run.links \subseteq Entities \X (values \cup PlannedValues(d))
    /\ \A e \in Entities : EntityPlanned(run, e)
    /\ \A s \in Slots : MentionPlanned(d, run, s)

\* Enough unused ids for the names that are left.
NamesOf(todo) == {s \in todo : Info[s].type \in NameTypes}
Enough(run, todo) == Cardinality(UnusedIn(run)) >= Cardinality(NamesOf(todo))

LEMMA ScoreFacts ==
    ASSUME NEW type, NEW ev
    PROVE  ScoreCandidate(type, ev).score \in 0..200 /\ ScoreCandidate(type, ev).hard \in HardRules
  <1>1. SoftScore(type, ev) \in 0..200
    BY DEF SoftScore
  <1>2. CASE ev.cannot \/ (ev.conflicts /\ type \in NameTypes \cup {"ID_CARD"})
    BY <1>2 DEF ScoreCandidate, HardRules
  <1>3. CASE ~(ev.cannot \/ (ev.conflicts /\ type \in NameTypes \cup {"ID_CARD"}))
             /\ (ev.must \/ (type = "ID_CARD" /\ ev.shares))
    BY <1>3 DEF ScoreCandidate, HardRules
  <1>4. CASE ~(ev.cannot \/ (ev.conflicts /\ type \in NameTypes \cup {"ID_CARD"}))
             /\ ~(ev.must \/ (type = "ID_CARD" /\ ev.shares))
    <2>1. ScoreCandidate(type, ev) = [score |-> SoftScore(type, ev), hard |-> "NONE"]
      BY <1>4 DEF ScoreCandidate
    <2> QED BY <1>1, <2>1 DEF HardRules
  <1> QED BY <1>2, <1>3, <1>4

\* The candidates of a mention are active Entities, one row each; every Entity
\* that has its name is one, and only cards that contradict exclude it.
LEMMA CandidatesOf ==
    ASSUME Typed, NEW d \in Documents, NEW run, RunOk(d, run), NEW s \in Slots
    PROVE  /\ CandidateSet(Candidates(run, s))
           /\ \A c \in Candidates(run, s) :
                 c.entity \in Entities /\ ActiveIn(run, c.entity)
           /\ Info[s].type \in NameTypes =>
                 \A e \in Matched(s) : \E c \in Candidates(run, s) :
                    /\ c.entity = e /\ c.active /\ c.type = run.entity[e].type
                    /\ c.hard = "CANNOT_LINK" => Conflicts(Info[s].doc, e)
           /\ Info[s].type \in NameTypes =>
                 \A c \in Candidates(run, s) : Active(c.entity)
  <1> DEFINE type == Info[s].type
             evidence == IF type \in IdentifierTypes THEN IdentifierEvidence(s) ELSE NameEvidence(s)
             context == ContextEntities(run, s)
             labelled == ScoreCandidate(type, [NoEvidence EXCEPT !.labelled = TRUE])
             own(e) == IF e \in DOMAIN evidence THEN ScoreCandidate(type, evidence[e])
                       ELSE [score |-> 0, hard |-> "NONE"]
             D == DOMAIN evidence \cup context
             F(e) == [entity |-> e, type |-> run.entity[e].type, active |-> TRUE, hard |-> own(e).hard,
                      score |-> own(e).score + (IF e \in context THEN labelled.score ELSE 0)]
             C == {F(e) : e \in D}
  <1>1. Candidates(run, s) = C
    BY DEF Candidates
  <1>2. \A e \in Entities : Active(e) => ActiveIn(run, e)
    BY DEF RunOk, EntityPlanned, ActiveIn, Active, Exists
  <1>3. DOMAIN evidence \subseteq {e \in Entities : Active(e)}
    BY DEF IdentifierEvidence, NameEvidence, Linked, Matched
  <1>4. context \subseteq {e \in Entities : ActiveIn(run, e)}
    <2>1. \A t \in Slots : run.resolved[t] \in Entities \cup {Null}
                           /\ (run.resolved[t] # Null => ActiveIn(run, run.resolved[t]))
      BY DEF RunOk, Runs, MentionPlanned
    <2> QED BY <2>1 DEF ContextEntities, Live, SlotsOf
  <1>5. D \subseteq {e \in Entities : ActiveIn(run, e)}
    BY <1>2, <1>3, <1>4
  <1>6. \A e \in D : own(e).score \in 0..200 /\ own(e).hard \in HardRules
    <2>1. ASSUME NEW e \in D PROVE own(e).score \in 0..200 /\ own(e).hard \in HardRules
      <3>1. CASE e \in DOMAIN evidence
        <4>1. own(e) = ScoreCandidate(type, evidence[e])
          BY <3>1
        <4> HIDE DEF own, evidence, type
        <4> QED BY <4>1, ScoreFacts
      <3>2. CASE e \notin DOMAIN evidence
        <4>1. own(e).score = 0 /\ own(e).hard = "NONE"
          BY <3>2
        <4> HIDE DEF own, evidence
        <4> QED BY <4>1 DEF HardRules
      <3> QED BY <3>1, <3>2
    <2> HIDE DEF own, D
    <2> QED BY <2>1
  <1>7. labelled.score \in 0..200
    BY ScoreFacts
  <1>8. ASSUME type \in NameTypes
        PROVE  /\ context = {} /\ evidence = NameEvidence(s) /\ DOMAIN evidence = Matched(s)
               /\ \A e \in Matched(s) : own(e).hard = "CANNOT_LINK" => Conflicts(Info[s].doc, e)
    <2>1. type \notin IdentifierTypes
      BY <1>8 DEF NameTypes, IdentifierTypes
    <2>2. evidence = NameEvidence(s) /\ DOMAIN evidence = Matched(s)
      BY <2>1 DEF NameEvidence
    <2>3. context = {}
      <3>1. ASSUME NEW u \in Slots, <<s, u>> \in Ties PROVE FALSE
        <4>1. <<s, u>>[1] = s
          OBVIOUS
        <4> QED BY <2>1, <3>1, <4>1, TiesAssumption
      <3> QED BY <3>1 DEF ContextEntities, Live, SlotsOf
    <2>4. ASSUME NEW e \in Matched(s), own(e).hard = "CANNOT_LINK" PROVE Conflicts(Info[s].doc, e)
      <3>1. own(e) = ScoreCandidate(type, evidence[e])
        BY <2>2
      <3>2. evidence[e] = [NoEvidence EXCEPT !.name = TRUE,
                                             !.conflicts = Conflicts(Info[s].doc, e),
                                             !.must = Ruled("MUST_LINK", e, Matched(s))]
        BY <2>2 DEF NameEvidence
      <3> HIDE DEF evidence
      <3>3. ~evidence[e].cannot /\ (evidence[e].conflicts <=> Conflicts(Info[s].doc, e))
        BY <3>2 DEF NoEvidence
      <3>4. evidence[e].cannot \/ evidence[e].conflicts
        BY <2>4, <3>1 DEF ScoreCandidate
      <3> QED BY <3>3, <3>4
    <2> QED BY <2>2, <2>3, <2>4
  <1> HIDE DEF own, labelled, evidence, context
  <1>9. CandidateSet(C)
    <2>1. IsFiniteSet(C)
      <3>1. IsFiniteSet(D)
        BY <1>5, EntitiesFacts, FS_Subset
      <3> DEFINE f == [e \in D |-> F(e)]
      <3>2. f \in [D -> C] /\ \A c \in C : \E e \in D : f[e] = c
        OBVIOUS
      <3>3. f \in Surjection(D, C)
        BY <3>2 DEF Surjection
      <3> QED BY <3>1, <3>3, FS_Surjection
    <2>2. ASSUME NEW c \in C PROVE c.score \in Score /\ c.hard \in HardRules
      <3>1. PICK e \in D : c = F(e)
        OBVIOUS
      <3>2. PICK x \in 0..200, y \in 0..200 : x = own(e).score /\ y = labelled.score
        BY <1>6, <1>7
      <3>3. c.hard = own(e).hard /\ (c.score = x + y \/ c.score = x + 0)
        BY <3>1, <3>2
      <3> HIDE DEF C, F, D
      <3>4. x + y \in 0..400 /\ x + 0 \in 0..400
        OBVIOUS
      <3>5. own(e).hard \in HardRules
        BY <1>6
      <3> QED BY <3>3, <3>4, <3>5 DEF Score
    <2>3. ASSUME NEW c \in C, NEW o \in C, c.entity = o.entity PROVE c = o
      <3>1. PICK e \in D : c = F(e)
        OBVIOUS
      <3>2. PICK f \in D : o = F(f)
        OBVIOUS
      <3>3. c.entity = e /\ o.entity = f
        BY <3>1, <3>2
      <3> HIDE DEF F
      <3> QED BY <2>3, <3>1, <3>2, <3>3
    <2> QED BY <2>1, <2>2, <2>3 DEF CandidateSet
  <1>10. \A c \in C : c.entity \in D
    OBVIOUS
  <1>11. ASSUME NEW e \in D PROVE F(e) \in C /\ F(e).entity = e /\ F(e).active
                                 /\ F(e).type = run.entity[e].type /\ F(e).hard = own(e).hard
    OBVIOUS
  <1> HIDE DEF F, C
  <1>12. ASSUME type \in NameTypes
         PROVE  /\ \A e \in Matched(s) : \E c \in C :
                      /\ c.entity = e /\ c.active /\ c.type = run.entity[e].type
                      /\ c.hard = "CANNOT_LINK" => Conflicts(Info[s].doc, e)
                /\ \A c \in C : Active(c.entity)
    BY <1>3, <1>8, <1>10, <1>11, <1>12
  <1> QED BY <1>1, <1>5, <1>9, <1>10, <1>12

\* What is planned for the other mentions stays planned.
LEMMA OthersPlanned ==
    ASSUME NEW d, NEW run, NEW q, NEW t \in Slots, MentionPlanned(d, run, t),
           q.mention[t] = run.mention[t], q.candidate[t] = run.candidate[t],
           q.resolved[t] = run.resolved[t], run.links \subseteq q.links,
           \A e : ActiveIn(run, e) => ActiveIn(q, e)
    PROVE  MentionPlanned(d, q, t)
  BY DEF MentionPlanned

LEMMA KeptOk ==
    ASSUME Typed, NEW d \in Documents, NEW run, RunOk(d, run), NEW s \in Live(d),
           run.mention[s].entity # Null
    PROVE  RunOk(d, KeepAssigned(run, s)) /\ UnusedIn(KeepAssigned(run, s)) = UnusedIn(run)
  <1>1. s \in Slots /\ run \in Runs /\ run.mention[s] \in MentionRows
    BY DEF Live, SlotsOf, RunOk, Runs
  <1>2. PICK e \in Entities : e = run.mention[s].entity
    BY <1>1 DEF MentionRows
  <1>3. PICK valued \in BOOLEAN : valued <=> run.mention[s].valued \/ Valued(s)
    OBVIOUS
  <1>4. (run.mention[s].valued \/ Valued(s)) = valued
    <2>1. run.mention[s].valued \in BOOLEAN
      BY <1>1 DEF MentionRows
    <2> QED BY <1>3, <2>1
  <1>5. PICK M \in [Slots -> MentionRows] : M = [run.mention EXCEPT ![s].valued = valued]
    BY <1>1 DEF Runs, MentionRows
  <1>6. M[s] \in MentionRows /\ M[s].entity = e /\ (M[s].valued <=> valued)
        /\ M[s].live = run.mention[s].live /\ M[s].review = run.mention[s].review
        /\ \A t \in Slots \ {s} : M[t] = run.mention[t]
    BY <1>1, <1>2, <1>5 DEF Runs, MentionRows
  <1>7. PICK R \in [Slots -> Entities \cup {Null}] :
           R = [run.resolved EXCEPT ![s] = IF Active(e) THEN e ELSE Null]
    BY <1>1 DEF Runs
  <1>8. Valued(s) => Value(s) \in PlannedValues(d) /\ Value(s) \in AllValues
    BY <1>1 DEF PlannedValues, AllValues
  <1>9. PICK L : L = run.links \cup (IF Valued(s) THEN {<<e, Value(s)>>} ELSE {})
    OBVIOUS
  <1>10. /\ run.links \subseteq L /\ L \subseteq Entities \X AllValues
         /\ L \subseteq Entities \X (values \cup PlannedValues(d))
         /\ Valued(s) => <<e, Value(s)>> \in L
    BY <1>1, <1>8, <1>9 DEF RunOk, Runs
  <1>11. PICK q : q = [run EXCEPT !.mention = M, !.links = L, !.resolved = R]
    OBVIOUS
  <1>12. KeepAssigned(run, s) = q
    BY <1>2, <1>4, <1>5, <1>7, <1>9, <1>11 DEF KeepAssigned
  <1>13. q \in Runs /\ q.mention = M /\ q.links = L /\ q.resolved = R
         /\ q.entity = run.entity /\ q.alias = run.alias /\ q.candidate = run.candidate
    BY <1>1, <1>10, <1>11 DEF Runs
  <1>14. \A f : ActiveIn(run, f) <=> ActiveIn(q, f)
    BY <1>13 DEF ActiveIn
  <1>15. MentionPlanned(d, run, s)
    BY <1>1 DEF RunOk
  <1>16. Active(e) => ActiveIn(run, e)
    BY DEF RunOk, EntityPlanned, Active, Exists, ActiveIn
  <1>17. MentionPlanned(d, q, s)
    <2>1. /\ q.mention[s].live = mention[s].live /\ q.mention[s].review = mention[s].review
          /\ mention[s].entity # Null => q.mention[s].entity = mention[s].entity
          /\ mention[s].valued => q.mention[s].valued
      BY <1>2, <1>3, <1>6, <1>13, <1>15 DEF MentionPlanned
    <2>2. q.mention[s].valued /\ ~mention[s].valued =>
             Valued(s) /\ <<q.mention[s].entity, Value(s)>> \in q.links
      BY <1>2, <1>3, <1>6, <1>10, <1>13, <1>15 DEF MentionPlanned
    <2>3. q.mention[s].entity # mention[s].entity =>
          /\ Valued(s) /\ q.mention[s].valued
          /\ ActiveIn(q, q.mention[s].entity)
          /\ <<q.mention[s].entity, Value(s)>> \in q.links
          /\ ~Exists(q.mention[s].entity) /\ Info[s].type \in NameTypes => NoTwin(s)
      BY <1>2, <1>3, <1>6, <1>10, <1>13, <1>14, <1>15 DEF MentionPlanned
    <2>4. \A f \in Entities : q.candidate[s][f] = "PENDING" => ActiveIn(q, f)
      BY <1>13, <1>14, <1>15 DEF MentionPlanned
    <2>5. q.resolved[s] # Null => ActiveIn(q, q.resolved[s])
      BY <1>1, <1>7, <1>13, <1>14, <1>16 DEF Runs
    <2> QED BY <2>1, <2>2, <2>3, <2>4, <2>5 DEF MentionPlanned
  <1>18. ASSUME NEW t \in Slots \ {s} PROVE MentionPlanned(d, q, t)
    <2>1. MentionPlanned(d, run, t) /\ q.mention[t] = run.mention[t]
          /\ q.candidate[t] = run.candidate[t] /\ q.resolved[t] = run.resolved[t]
      BY <1>1, <1>6, <1>7, <1>13 DEF RunOk, Runs
    <2> QED BY <1>10, <1>13, <1>14, <2>1, OthersPlanned
  <1>19. \A f \in Entities : EntityPlanned(q, f)
    BY <1>13 DEF RunOk, EntityPlanned, ActiveIn
  <1>20. UnusedIn(q) = UnusedIn(run)
    BY <1>13 DEF UnusedIn
  <1>21. RunOk(d, q)
    BY <1>10, <1>13, <1>17, <1>18, <1>19 DEF RunOk
  <1> QED BY <1>12, <1>20, <1>21

\* A mention is given an active Entity.
LEMMA GivenOk ==
    ASSUME Typed, NEW d \in Documents, NEW run, RunOk(d, run), NEW s \in Live(d), Valued(s),
           run.mention[s].entity = Null, run.mention[s].valued, NEW e \in Entities, ActiveIn(run, e),
           ~Exists(e) /\ Info[s].type \in NameTypes => NoTwin(s)
    PROVE  RunOk(d, Give(run, s, e)) /\ UnusedIn(Give(run, s, e)) = UnusedIn(run)
  <1>1. s \in Slots /\ run \in Runs /\ run.mention[s] \in MentionRows
    BY DEF Live, SlotsOf, RunOk, Runs
  <1>2. PICK M \in [Slots -> MentionRows] : M = [run.mention EXCEPT ![s].entity = e]
    BY <1>1 DEF Runs, MentionRows
  <1>3. M[s].entity = e /\ (M[s].valued <=> run.mention[s].valued)
        /\ M[s].live = run.mention[s].live /\ M[s].review = run.mention[s].review
        /\ \A t \in Slots \ {s} : M[t] = run.mention[t]
    BY <1>1, <1>2 DEF Runs, MentionRows
  <1>4. PICK R \in [Slots -> Entities \cup {Null}] : R = [run.resolved EXCEPT ![s] = e]
    BY <1>1 DEF Runs
  <1>5. PICK L : L = run.links \cup {<<e, Value(s)>>}
    OBVIOUS
  <1>6. Value(s) \in PlannedValues(d) /\ Value(s) \in AllValues
    BY <1>1 DEF PlannedValues, AllValues
  <1>7. /\ run.links \subseteq L /\ L \subseteq Entities \X AllValues
        /\ L \subseteq Entities \X (values \cup PlannedValues(d)) /\ <<e, Value(s)>> \in L
    BY <1>1, <1>5, <1>6 DEF RunOk, Runs
  <1>8. PICK q : q = [run EXCEPT !.mention = M, !.links = L, !.resolved = R]
    OBVIOUS
  <1>9. Give(run, s, e) = q
    BY <1>2, <1>4, <1>5, <1>8 DEF Give
  <1>10. q \in Runs /\ q.mention = M /\ q.links = L /\ q.resolved = R
         /\ q.entity = run.entity /\ q.alias = run.alias /\ q.candidate = run.candidate
    BY <1>1, <1>7, <1>8 DEF Runs
  <1>11. \A f : ActiveIn(run, f) <=> ActiveIn(q, f)
    BY <1>10 DEF ActiveIn
  <1>12. MentionPlanned(d, run, s)
    BY <1>1 DEF RunOk
  <1>13. mention[s].entity = Null /\ e # Null
    BY <1>12, EntitiesFacts DEF MentionPlanned
  <1>14. MentionPlanned(d, q, s)
    <2>1. /\ q.mention[s].live = mention[s].live /\ q.mention[s].review = mention[s].review
          /\ mention[s].valued => q.mention[s].valued
          /\ q.mention[s].entity = e /\ q.mention[s].valued
      BY <1>3, <1>10, <1>12 DEF MentionPlanned
    <2>2. \A f \in Entities : q.candidate[s][f] = "PENDING" => ActiveIn(q, f)
      BY <1>10, <1>11, <1>12 DEF MentionPlanned
    <2>3. q.resolved[s] # Null => ActiveIn(q, q.resolved[s])
      BY <1>1, <1>4, <1>10, <1>11 DEF Runs
    <2> QED BY <1>7, <1>10, <1>11, <1>13, <2>1, <2>2, <2>3 DEF MentionPlanned
  <1>15. ASSUME NEW t \in Slots \ {s} PROVE MentionPlanned(d, q, t)
    <2>1. MentionPlanned(d, run, t) /\ q.mention[t] = run.mention[t]
          /\ q.candidate[t] = run.candidate[t] /\ q.resolved[t] = run.resolved[t]
      BY <1>1, <1>3, <1>4, <1>10 DEF RunOk, Runs
    <2> QED BY <1>7, <1>10, <1>11, <2>1, OthersPlanned
  <1>16. \A f \in Entities : EntityPlanned(q, f)
    BY <1>10 DEF RunOk, EntityPlanned, ActiveIn
  <1>17. UnusedIn(q) = UnusedIn(run)
    BY <1>10 DEF UnusedIn
  <1>18. RunOk(d, q)
    BY <1>7, <1>10, <1>14, <1>15, <1>16 DEF RunOk
  <1> QED BY <1>9, <1>17, <1>18

\* A new Entity takes an unused id.
LEMMA NewEntityOk ==
    ASSUME Typed, NEW d \in Documents, NEW run, RunOk(d, run), NEW e \in UnusedIn(run),
           NEW type \in NameTypes
    PROVE  LET q == PlanNewEntity(run, e, type)
           IN  /\ RunOk(d, q) /\ UnusedIn(q) = UnusedIn(run) \ {e} /\ ActiveIn(q, e) /\ ~Exists(e)
               /\ q.mention = run.mention /\ q.links = run.links
  <1>1. e \in Entities /\ run \in Runs /\ run.entity[e].status = "NONE" /\ type \in EntityTypes
    BY DEF UnusedIn, RunOk, NameTypes, EntityTypes
  <1>2. ~Exists(e)
    BY <1>1 DEF RunOk, EntityPlanned, ActiveIn, Exists
  <1>3. PICK row \in EntityRows : row = [status |-> "ACTIVE", type |-> type, into |-> Null]
    BY <1>1 DEF EntityRows
  <1>4. row.status = "ACTIVE" /\ row.type = type
    BY <1>3
  <1>5. PICK N \in [Entities -> EntityRows] : N = [run.entity EXCEPT ![e] = row]
    BY <1>1 DEF Runs
  <1>6. N[e] = row /\ \A f \in Entities \ {e} : N[f] = run.entity[f]
    BY <1>1, <1>5 DEF Runs
  <1>7. Synthetic(e) \in AllNames
    BY <1>1 DEF AllNames
  <1>8. PICK A \in [Entities -> AliasRows] : A = [run.alias EXCEPT ![e].primary = Synthetic(e)]
    BY <1>1, <1>7 DEF Runs, AliasRows
  <1>9. A[e].primary # Null /\ \A f \in Entities \ {e} : A[f] = run.alias[f]
    <2>1. Synthetic(e) # Null
      BY <1>1, EntitiesAssumption DEF Synthetic
    <2> QED BY <1>1, <1>8, <2>1 DEF Runs, AliasRows
  <1>10. PICK q : q = [run EXCEPT !.entity = N, !.alias = A]
    OBVIOUS
  <1>11. PlanNewEntity(run, e, type) = q
    BY <1>3, <1>5, <1>8, <1>10 DEF PlanNewEntity
  <1>12. q \in Runs /\ q.entity = N /\ q.alias = A /\ q.mention = run.mention
         /\ q.links = run.links /\ q.resolved = run.resolved /\ q.candidate = run.candidate
    BY <1>1, <1>10 DEF Runs
  <1>13. ActiveIn(q, e) /\ \A f \in Entities : ActiveIn(run, f) => ActiveIn(q, f)
    BY <1>1, <1>4, <1>6, <1>12 DEF ActiveIn
  <1>14. UnusedIn(q) = UnusedIn(run) \ {e}
    BY <1>4, <1>6, <1>12 DEF UnusedIn
  <1>15. ASSUME NEW t \in Slots PROVE MentionPlanned(d, q, t)
    <2>1. MentionPlanned(d, run, t) /\ q.mention[t] = run.mention[t]
          /\ q.candidate[t] = run.candidate[t] /\ q.resolved[t] = run.resolved[t]
      BY <1>12 DEF RunOk
    <2>2. run.mention[t].entity \in Entities \cup {Null} /\ run.resolved[t] \in Entities \cup {Null}
          /\ mention[t].entity \in Entities \cup {Null}
      BY <1>1 DEF Runs, MentionRows, Typed
    <2>3. run.mention[t].entity # mention[t].entity => run.mention[t].entity \in Entities
      BY <2>1, <2>2 DEF MentionPlanned
    <2> QED BY <1>12, <1>13, <2>1, <2>2, <2>3 DEF MentionPlanned
  <1>16. ASSUME NEW f \in Entities PROVE EntityPlanned(q, f)
    <2>1. CASE f = e
      BY <1>2, <1>4, <1>6, <1>9, <1>12, <1>13, <2>1 DEF EntityPlanned
    <2>2. CASE f # e
      BY <1>6, <1>9, <1>12, <2>2 DEF RunOk, EntityPlanned, ActiveIn
    <2> QED BY <2>1, <2>2
  <1>17. RunOk(d, q)
    BY <1>12, <1>15, <1>16 DEF RunOk
  <1> QED BY <1>2, <1>11, <1>12, <1>13, <1>14, <1>17

Rowed(run, s, rows) ==
    [run EXCEPT !.mention = [run.mention EXCEPT ![s].valued = TRUE],
                !.candidate = [run.candidate EXCEPT ![s] = rows]]

\* The value and the rows of the candidates are planned.
LEMMA RowsOk ==
    ASSUME Typed, NEW d \in Documents, NEW run, RunOk(d, run), NEW s \in Live(d), Valued(s),
           run.mention[s].entity = Null, NEW rows \in Proposals,
           \A e \in Entities : rows[e] = "PENDING" => ActiveIn(run, e), NEW q,
           q = Rowed(run, s, rows)
    PROVE  /\ RunOk(d, q) /\ q.mention[s].entity = Null /\ q.mention[s].valued
           /\ q.entity = run.entity
  <1>1. s \in Slots /\ run \in Runs /\ run.mention[s] \in MentionRows
    BY DEF Live, SlotsOf, RunOk, Runs
  <1>2. PICK M \in [Slots -> MentionRows] : M = [run.mention EXCEPT ![s].valued = TRUE]
    BY <1>1 DEF Runs, MentionRows
  <1>3. M[s].entity = Null /\ M[s].valued
        /\ M[s].live = run.mention[s].live /\ M[s].review = run.mention[s].review
        /\ \A t \in Slots \ {s} : M[t] = run.mention[t]
    BY <1>1, <1>2 DEF Runs, MentionRows
  <1>4. PICK C \in [Slots -> Proposals] : C = [run.candidate EXCEPT ![s] = rows]
    BY <1>1 DEF Runs
  <1>5. C[s] = rows /\ \A t \in Slots \ {s} : C[t] = run.candidate[t]
    BY <1>1, <1>4 DEF Runs
  <1>6. q = [run EXCEPT !.mention = M, !.candidate = C]
    BY <1>2, <1>4 DEF Rowed
  <1>7. q \in Runs /\ q.mention = M /\ q.candidate = C /\ q.entity = run.entity
        /\ q.alias = run.alias /\ q.links = run.links /\ q.resolved = run.resolved
    BY <1>1, <1>6 DEF Runs
  <1>8. \A f : ActiveIn(run, f) <=> ActiveIn(q, f)
    BY <1>7 DEF ActiveIn
  <1>9. MentionPlanned(d, run, s)
    BY <1>1 DEF RunOk
  <1>10. mention[s].entity = Null
    BY <1>9 DEF MentionPlanned
  <1>11. MentionPlanned(d, q, s)
    BY <1>3, <1>5, <1>7, <1>8, <1>9, <1>10 DEF MentionPlanned
  <1>12. ASSUME NEW t \in Slots \ {s} PROVE MentionPlanned(d, q, t)
    <2>1. MentionPlanned(d, run, t) /\ q.mention[t] = run.mention[t]
          /\ q.candidate[t] = run.candidate[t] /\ q.resolved[t] = run.resolved[t]
      BY <1>1, <1>3, <1>5, <1>7 DEF RunOk, Runs
    <2>2. run.links \subseteq q.links
      BY <1>7
    <2> QED BY <1>8, <2>1, <2>2, OthersPlanned
  <1>13. \A f \in Entities : EntityPlanned(q, f)
    BY <1>7 DEF RunOk, EntityPlanned, ActiveIn
  <1>14. RunOk(d, q)
    BY <1>7, <1>11, <1>12, <1>13 DEF RunOk
  <1> QED BY <1>3, <1>7, <1>14

LEMMA ProposedOk ==
    ASSUME Typed, NEW d \in Documents, NEW run, RunOk(d, run), NEW s \in Live(d), Valued(s),
           run.mention[s].entity = Null, Info[s].type \in NameTypes => UnusedIn(run) # {}
    PROVE  /\ RunOk(d, Propose(run, s))
           /\ \/ UnusedIn(Propose(run, s)) = UnusedIn(run)
              \/ /\ Info[s].type \in NameTypes
                 /\ \E e \in UnusedIn(run) : UnusedIn(Propose(run, s)) = UnusedIn(run) \ {e}
  <1>1. s \in Slots /\ run \in Runs /\ Info[s].doc = d
    BY DEF Live, SlotsOf, RunOk
  <1>2. PICK C : C = Candidates(run, s)
    OBVIOUS
  <1>3. /\ CandidateSet(C)
        /\ \A c \in C : c.entity \in Entities /\ ActiveIn(run, c.entity)
        /\ Info[s].type \in NameTypes =>
             /\ \A e \in Matched(s) : \E c \in C :
                  /\ c.entity = e /\ c.active /\ c.type = run.entity[e].type
                  /\ c.hard = "CANNOT_LINK" => Conflicts(Info[s].doc, e)
             /\ \A c \in C : Active(c.entity)
    BY <1>1, <1>2, CandidatesOf
  <1>4. PICK decided : decided = ProposeResolution(Info[s], SetToSeq(C))
    OBVIOUS
  <1>5. /\ \A r \in decided.ranked : \E c \in C : r.entity = c.entity
        /\ decided.decision = "AUTO_LINK" => \E c \in C : decided.candidate = c.entity
        /\ decided.decision = "NEW_ENTITY" =>
             /\ Info[s].type \in NameTypes
             /\ \A c \in C : Usable(Info[s], c) => c.hard = "CANNOT_LINK"
    BY <1>3, <1>4, DecisionFacts
  <1>6. PICK rows : rows = CandidateRows(decided)
    OBVIOUS
  <1>7. rows \in Proposals /\ \A e \in Entities : rows[e] = "PENDING" => ActiveIn(run, e)
    <2>1. \A e : RowState(decided, e) \in {"ACCEPTED", "REJECTED", "PENDING"}
      BY DEF RowState
    <2>2. rows = [e \in Entities |-> IF \E c \in decided.ranked : c.entity = e
                                     THEN RowState(decided, e) ELSE "NONE"]
      BY <1>6 DEF CandidateRows
    <2>3. rows \in Proposals
      BY <2>1, <2>2 DEF Proposals
    <2>4. ASSUME NEW e \in Entities, rows[e] = "PENDING" PROVE ActiveIn(run, e)
      <3>1. \E c \in decided.ranked : c.entity = e
        BY <2>2, <2>4
      <3> QED BY <1>3, <1>5, <3>1
    <2> QED BY <2>3, <2>4
  <1>8. PICK q : q = Rowed(run, s, rows)
    OBVIOUS
  <1>9. RunOk(d, q) /\ q.mention[s].entity = Null /\ q.mention[s].valued /\ q.entity = run.entity
    BY <1>7, <1>8, RowsOk
  <1>10. UnusedIn(q) = UnusedIn(run) /\ \A e : ActiveIn(q, e) <=> ActiveIn(run, e)
    BY <1>9 DEF UnusedIn, ActiveIn
  <1>11. PICK fresh : fresh = FirstOf(UnusedIn(run))
    OBVIOUS
  <1>12. Propose(run, s) =
            CASE decided.decision = "AUTO_LINK" -> Give(q, s, decided.candidate)
              [] decided.decision = "NEW_ENTITY" ->
                    Give(PlanNewEntity(q, fresh, Info[s].type), s, fresh)
              [] OTHER -> q
    BY <1>2, <1>4, <1>6, <1>8, <1>11 DEF Propose, UnusedIn, Rowed
  <1>13. CASE decided.decision = "AUTO_LINK"
    <2>1. PICK e \in Entities : e = decided.candidate /\ ActiveIn(q, e)
                                /\ (Info[s].type \in NameTypes => Exists(e))
      BY <1>3, <1>5, <1>10, <1>13 DEF Active, Exists
    <2>2. Propose(run, s) = Give(q, s, e)
      BY <1>12, <1>13, <2>1
    <2> QED BY <1>9, <1>10, <2>1, <2>2, GivenOk
  <1>14. CASE decided.decision = "NEW_ENTITY"
    <2>1. Info[s].type \in NameTypes /\ fresh \in UnusedIn(run) /\ fresh \in Entities
      <3>1. UnusedIn(run) \subseteq Entities
        BY DEF UnusedIn
      <3> QED BY <1>5, <1>11, <1>14, <3>1, FirstOfFacts
    <2>2. NoTwin(s)
      <3> SUFFICES ASSUME NEW e \in Entities, Active(e), entity[e].type = Info[s].type,
                          <<e, Value(s)>> \in links
                   PROVE  Conflicts(Info[s].doc, e)
        BY DEF NoTwin
      <3>1. e \in Matched(s)
        BY DEF Matched
      <3>2. PICK c \in C : /\ c.entity = e /\ c.active /\ c.type = run.entity[e].type
                           /\ c.hard = "CANNOT_LINK" => Conflicts(Info[s].doc, e)
        BY <1>3, <2>1, <3>1
      <3>3. run.entity[e] = entity[e]
        BY DEF RunOk, EntityPlanned, Active, Exists
      <3>4. Usable(Info[s], c)
        BY <3>2, <3>3 DEF Usable, Compatible
      <3> QED BY <1>5, <1>14, <3>2, <3>4
    <2>3. PICK p : p = PlanNewEntity(q, fresh, Info[s].type)
      OBVIOUS
    <2>4. /\ RunOk(d, p) /\ UnusedIn(p) = UnusedIn(q) \ {fresh} /\ ActiveIn(p, fresh)
          /\ p.mention = q.mention
      BY <1>9, <1>10, <2>1, <2>3, NewEntityOk
    <2>5. Propose(run, s) = Give(p, s, fresh)
      BY <1>12, <1>14, <2>3
    <2>6. RunOk(d, Give(p, s, fresh)) /\ UnusedIn(Give(p, s, fresh)) = UnusedIn(p)
      BY <1>9, <2>1, <2>2, <2>4, GivenOk
    <2> QED BY <1>10, <2>1, <2>4, <2>5, <2>6
  <1>15. CASE decided.decision \notin {"AUTO_LINK", "NEW_ENTITY"}
    <2>1. Propose(run, s) = q
      BY <1>12, <1>15
    <2> QED BY <1>9, <1>10, <2>1
  <1> QED BY <1>13, <1>14, <1>15

LEMMA FirstInTextIn ==
    ASSUME NEW todo, todo \subseteq Slots, todo # {}
    PROVE  FirstInText(todo) \in todo
  <1> DEFINE Numbers == {Info[s].block : s \in todo}
  <1>1. \A s \in todo : Info[s].block \in Nat /\ Info[s].start \in Nat
    BY SlotsAssumption
  <1>2. Numbers \subseteq Nat /\ Numbers # {}
    BY <1>1
  <1> HIDE DEF Numbers
  <1>3. PICK k \in Numbers : \A l \in Numbers : k <= l
    BY <1>2, Least
  <1> DEFINE Starts == {Info[s].start : s \in {t \in todo : Info[t].block = k}}
  <1>4. Starts \subseteq Nat /\ Starts # {}
    <2>1. PICK s \in todo : Info[s].block = k
      BY <1>3 DEF Numbers
    <2>2. Info[s].start \in Starts
      BY <2>1
    <2> QED BY <1>1, <2>2
  <1> HIDE DEF Starts
  <1>5. PICK p \in Starts : \A l \in Starts : p <= l
    BY <1>4, Least
  <1>6. PICK s \in todo : Info[s].block = k /\ Info[s].start = p
    BY <1>5 DEF Starts
  <1>7. ASSUME NEW t \in todo PROVE ~Earlier(t, s)
    <2>1. k <= Info[t].block /\ k \in Nat /\ Info[t].block \in Nat /\ Info[t].start \in Nat /\ p \in Nat
      BY <1>1, <1>2, <1>3, <1>4, <1>5 DEF Numbers
    <2>2. Info[t].block = k => p <= Info[t].start
      BY <1>5 DEF Starts
    <2> QED BY <1>6, <2>1, <2>2 DEF Earlier
  <1> QED BY <1>7 DEF FirstInText

LEMMA EmptyOk ==
    ASSUME Typed, ProposalsActive, NEW d \in Documents
    PROVE  RunOk(d, EmptyRun) /\ UnusedIn(EmptyRun) = Free
  <1>1. PICK run : run = EmptyRun
    OBVIOUS
  <1>2. /\ run.mention = mention /\ run.entity = entity /\ run.alias = alias /\ run.links = links
        /\ run.candidate = candidate /\ run.resolved = [s \in Slots |-> Null]
    BY <1>1 DEF EmptyRun
  <1>3. links \subseteq Entities \X AllValues
    BY DEF Typed
  <1>4. run \in Runs
    BY <1>1, <1>3 DEF EmptyRun, Runs, Typed
  <1>5. \A e \in Entities : EntityPlanned(run, e)
    BY <1>2 DEF EntityPlanned, ActiveIn, Exists
  <1>6. ASSUME NEW s \in Slots PROVE MentionPlanned(d, run, s)
    BY <1>2 DEF MentionPlanned, ProposalsActive, ActiveIn, Active
  <1>7. run.links \subseteq Entities \X (values \cup PlannedValues(d))
    BY <1>2 DEF Typed
  <1>8. RunOk(d, run)
    BY <1>2, <1>4, <1>5, <1>6, <1>7 DEF RunOk
  <1> QED BY <1>1, <1>2, <1>8 DEF UnusedIn, Free

LEMMA MentionResolved ==
    ASSUME Typed, NEW d \in Documents, NEW run, RunOk(d, run), NEW s \in Live(d),
           Info[s].type \in NameTypes => UnusedIn(run) # {}
    PROVE  /\ RunOk(d, ResolveMention(run, s))
           /\ \/ UnusedIn(ResolveMention(run, s)) = UnusedIn(run)
              \/ /\ Info[s].type \in NameTypes
                 /\ \E e \in UnusedIn(run) : UnusedIn(ResolveMention(run, s)) = UnusedIn(run) \ {e}
  <1>1. CASE run.mention[s].entity # Null
    BY <1>1, KeptOk DEF ResolveMention
  <1>2. CASE run.mention[s].entity = Null /\ Valued(s)
    BY <1>2, ProposedOk DEF ResolveMention
  <1>3. CASE run.mention[s].entity = Null /\ ~Valued(s)
    BY <1>3 DEF ResolveMention
  <1> QED BY <1>1, <1>2, <1>3

\* A mention with a value to protect gets it, and none loses it.
LEMMA ValuesPlanned ==
    ASSUME NEW run \in Runs, NEW s \in Slots, NEW q, q = ResolveMention(run, s)
    PROVE  /\ \A t \in Slots : run.mention[t].valued => q.mention[t].valued
           /\ Valued(s) => q.mention[s].valued
  <1>1. run.mention \in [Slots -> MentionRows]
    BY DEF Runs
  <1>2. CASE run.mention[s].entity # Null
    <2>1. PICK valued \in BOOLEAN : valued <=> run.mention[s].valued \/ Valued(s)
      OBVIOUS
    <2>2. (run.mention[s].valued \/ Valued(s)) = valued
      <3>1. run.mention[s].valued \in BOOLEAN
        BY <1>1 DEF MentionRows
      <3> QED BY <2>1, <3>1
    <2>3. q.mention = [run.mention EXCEPT ![s].valued = valued]
      BY <1>2, <2>2 DEF ResolveMention, KeepAssigned, Runs
    <2>4. (q.mention[s].valued <=> valued) /\ \A t \in Slots \ {s} : q.mention[t] = run.mention[t]
      BY <1>1, <2>3 DEF MentionRows
    <2> QED BY <2>1, <2>4
  <1>3. CASE run.mention[s].entity = Null /\ Valued(s)
    <2>1. PICK M : M = [run.mention EXCEPT ![s].valued = TRUE]
      OBVIOUS
    <2>2. M \in [Slots -> MentionRows] /\ M[s].valued
          /\ \A t \in Slots \ {s} : M[t] = run.mention[t]
      BY <1>1, <2>1 DEF MentionRows
    <2>3. PICK decided : decided = ProposeResolution(Info[s], SetToSeq(Candidates(run, s)))
      OBVIOUS
    <2>4. PICK C : C = [run.candidate EXCEPT ![s] = CandidateRows(decided)]
      OBVIOUS
    <2>5. PICK rows : rows = [run EXCEPT !.mention = M, !.candidate = C]
      OBVIOUS
    <2>6. rows.mention = M /\ "mention" \in DOMAIN rows
      BY <2>5 DEF Runs
    <2>7. PICK fresh : fresh = FirstOf({e \in Entities : run.entity[e].status = "NONE"})
      OBVIOUS
    <2>8. q = CASE decided.decision = "AUTO_LINK" -> Give(rows, s, decided.candidate)
                [] decided.decision = "NEW_ENTITY" ->
                      Give(PlanNewEntity(rows, fresh, Info[s].type), s, fresh)
                [] OTHER -> rows
      BY <1>3, <2>1, <2>3, <2>4, <2>5, <2>7 DEF ResolveMention, Propose
    <2>9. ASSUME NEW p, NEW e, p.mention = M, "mention" \in DOMAIN p, q = Give(p, s, e)
          PROVE  q.mention = [M EXCEPT ![s].entity = e]
      BY <2>9 DEF Give
    <2>10. PlanNewEntity(rows, fresh, Info[s].type).mention = M
           /\ "mention" \in DOMAIN PlanNewEntity(rows, fresh, Info[s].type)
      BY <2>6 DEF PlanNewEntity
    <2>11. q.mention = M \/ \E e : q.mention = [M EXCEPT ![s].entity = e]
      <3>1. CASE decided.decision = "AUTO_LINK"
        BY <2>6, <2>8, <2>9, <3>1
      <3>2. CASE decided.decision = "NEW_ENTITY"
        BY <2>8, <2>9, <2>10, <3>2
      <3>3. CASE decided.decision \notin {"AUTO_LINK", "NEW_ENTITY"}
        BY <2>6, <2>8, <3>3
      <3> QED BY <3>1, <3>2, <3>3
    <2>12. q.mention[s].valued /\ \A t \in Slots \ {s} : q.mention[t] = M[t]
      <3>1. CASE q.mention = M
        BY <2>2, <3>1
      <3>2. CASE \E e : q.mention = [M EXCEPT ![s].entity = e]
        <4>1. PICK e : q.mention = [M EXCEPT ![s].entity = e]
          BY <3>2
        <4>2. q.mention[s] = [M[s] EXCEPT !.entity = e]
              /\ \A t \in Slots \ {s} : q.mention[t] = M[t]
          BY <2>2, <4>1
        <4>3. M[s] \in MentionRows
          BY <2>2
        <4> QED BY <2>2, <4>2, <4>3 DEF MentionRows
      <3> QED BY <2>11, <3>1, <3>2
    <2> QED BY <2>2, <2>12
  <1>4. CASE run.mention[s].entity = Null /\ ~Valued(s)
    BY <1>4 DEF ResolveMention
  <1> QED BY <1>2, <1>3, <1>4

\* Each name that is left takes at most one id.
LEMMA EnoughStays ==
    ASSUME NEW run, NEW q, NEW todo, todo \subseteq Slots, NEW s \in todo, Enough(run, todo),
           \/ UnusedIn(q) = UnusedIn(run)
           \/ /\ Info[s].type \in NameTypes
              /\ \E e \in UnusedIn(run) : UnusedIn(q) = UnusedIn(run) \ {e}
    PROVE  Enough(q, todo \ {s})
  <1>1. UnusedIn(run) \in SUBSET Entities /\ NamesOf(todo) \in SUBSET Slots
    BY DEF UnusedIn, NamesOf
  <1>2. /\ IsFiniteSet(UnusedIn(run)) /\ IsFiniteSet(NamesOf(todo))
        /\ Cardinality(UnusedIn(run)) \in Nat /\ Cardinality(NamesOf(todo)) \in Nat
    BY <1>1, EntitiesFacts, SlotsAssumption, FS_Subset, FS_CardinalityType
  <1>3. CASE Info[s].type \in NameTypes
    <2>1. s \in NamesOf(todo) /\ NamesOf(todo \ {s}) = NamesOf(todo) \ {s}
      BY <1>3 DEF NamesOf
    <2>2. Cardinality(NamesOf(todo \ {s})) = Cardinality(NamesOf(todo)) - 1
      BY <1>2, <2>1, FS_RemoveElement
    <2>3. \A e \in UnusedIn(run) :
             Cardinality(UnusedIn(run) \ {e}) = Cardinality(UnusedIn(run)) - 1
      BY <1>2, FS_RemoveElement
    <2>4. Cardinality(UnusedIn(q)) >= Cardinality(UnusedIn(run)) - 1
          /\ Cardinality(UnusedIn(q)) \in Int
      BY <1>2, <2>3
    <2> QED BY <1>2, <2>2, <2>4 DEF Enough
  <1>4. CASE Info[s].type \notin NameTypes
    <2>1. NamesOf(todo \ {s}) = NamesOf(todo)
      BY <1>4 DEF NamesOf
    <2> QED BY <1>4, <2>1 DEF Enough
  <1> QED BY <1>3, <1>4

\* The whole run, mention by mention.
LEMMA ResolvedOk ==
    ASSUME Typed, ProposalsActive, NEW d \in Documents,
           Cardinality(Free) >= Cardinality(NamesOf(Live(d)))
    PROVE  /\ RunOk(d, ResolvedRun(d))
           /\ \A t \in Live(d) : Valued(t) => ResolvedRun(d).mention[t].valued
  <1>0. PICK N \in Nat : N = Cardinality(Live(d)) /\ IsFiniteSet(Live(d))
    <2>1. Live(d) \in SUBSET Slots
      BY DEF Live, SlotsOf
    <2> QED BY <2>1, SlotsAssumption, FS_Subset, FS_CardinalityType
  <1>1. PICK first : first = [run |-> EmptyRun, todo |-> Live(d)]
    OBVIOUS
  <1>2. \E h : h = [i \in 0..N |-> IF i = 0 THEN first ELSE PlanFirst(h[i - 1])]
    <2> DEFINE Step(h, i) == IF i = 0 THEN first ELSE PlanFirst(h[i - 1])
               Good(h, m) == h = [i \in 0..m |-> Step(h, i)]
               S == {m \in Nat : \E h : Good(h, m)}
    <2>1. 0 \in S
      <3>1. Good([i \in 0..0 |-> first], 0)
        OBVIOUS
      <3> QED BY <3>1
    <2>2. ASSUME NEW m \in Nat, m \in S PROVE m + 1 \in S
      <3>1. PICK h : Good(h, m)
        BY <2>2
      <3> DEFINE g == [i \in 0..(m + 1) |-> IF i = m + 1 THEN Step(h, i) ELSE h[i]]
      <3> HIDE DEF Good
      <3>2. ASSUME NEW i \in 0..(m + 1) PROVE g[i] = Step(g, i)
        <4>1. CASE i = m + 1
          <5>1. g[m] = h[m] /\ g[i] = Step(h, i)
            BY <4>1
          <5> QED BY <4>1, <5>1
        <4>2. CASE i # m + 1
          <5>1. i \in 0..m /\ g[i] = h[i]
            BY <4>2
          <5>2. h[i] = Step(h, i)
            BY <3>1, <5>1 DEF Good
          <5>3. i # 0 => g[i - 1] = h[i - 1]
            BY <5>1
          <5> QED BY <5>1, <5>2, <5>3
        <4> QED BY <4>1, <4>2
      <3>3. Good(g, m + 1)
        BY <3>2 DEF Good
      <3> QED BY <3>3
    <2> HIDE DEF S
    <2>3. Nat \subseteq S
      BY <2>1, <2>2, SetInduction
    <2> QED BY <2>3 DEF S, Good
  <1> DEFINE pass[n \in 0..N] == IF n = 0 THEN first ELSE PlanFirst(pass[n - 1])
  <1>3. ResolvedRun(d) = pass[N].run
    BY <1>0, <1>1, Zenon DEF ResolvedRun, Repeated
  <1>4. pass = [n \in 0..N |-> IF n = 0 THEN first ELSE PlanFirst(pass[n - 1])]
    BY <1>2, Zenon DEF pass
  <1> HIDE DEF pass
  <1>5. pass[0] = first
    BY <1>4
  <1>6. ASSUME NEW n \in 0..N, n < N PROVE pass[n + 1] = PlanFirst(pass[n])
    <2> DEFINE m == n + 1
    <2>1. m \in 0..N /\ m # 0 /\ m - 1 = n
      BY <1>6
    <2> HIDE DEF m
    <2>2. pass[m] = PlanFirst(pass[m - 1])
      BY <1>4, <2>1
    <2> QED BY <2>1, <2>2 DEF m
  <1> DEFINE Fine(run, todo, n) ==
                /\ todo \subseteq Live(d) /\ Cardinality(todo) = N - n
                /\ RunOk(d, run) /\ Enough(run, todo)
                /\ \A t \in Live(d) \ todo : Valued(t) => run.mention[t].valued
             S == {n \in Nat : n <= N => Fine(pass[n].run, pass[n].todo, n)}
  <1>7. 0 \in S
    <2>1. first.run = EmptyRun /\ first.todo = Live(d)
      BY <1>1
    <2>2. RunOk(d, EmptyRun) /\ Enough(EmptyRun, Live(d))
      BY EmptyOk DEF Enough
    <2> QED BY <1>0, <1>5, <2>1, <2>2
  <1>8. ASSUME NEW n \in Nat, n \in S PROVE n + 1 \in S
    <2> SUFFICES ASSUME n + 1 <= N PROVE Fine(pass[n + 1].run, pass[n + 1].todo, n + 1)
      OBVIOUS
    <2>1. PICK run, todo : run = pass[n].run /\ todo = pass[n].todo
      OBVIOUS
    <2>2. n \in 0..N /\ n < N /\ Fine(run, todo, n)
      BY <1>8, <2>1
    <2>3. IsFiniteSet(todo) /\ todo # {}
      BY <1>0, <2>2, FS_Subset, FS_EmptySet
    <2>4. PICK s \in todo : s = FirstInText(todo)
      BY <2>2, <2>3, FirstInTextIn DEF Live, SlotsOf
    <2>5. PICK q : q = ResolveMention(run, s)
      OBVIOUS
    <2>6. pass[n + 1].run = q /\ pass[n + 1].todo = todo \ {s}
      <3>1. PICK plan : plan = pass[n]
        OBVIOUS
      <3>2. pass[n + 1] = PlanFirst(plan) /\ plan.run = run /\ plan.todo = todo
        BY <1>6, <2>1, <2>2, <3>1
      <3>3. PlanFirst(plan) = [run |-> q, todo |-> todo \ {s}]
        BY <2>4, <2>5, <3>2 DEF PlanFirst
      <3> QED BY <3>2, <3>3
    <2>7. Info[s].type \in NameTypes => UnusedIn(run) # {}
      <3> SUFFICES ASSUME Info[s].type \in NameTypes, UnusedIn(run) = {} PROVE FALSE
        OBVIOUS
      <3>1. s \in NamesOf(todo) /\ NamesOf(todo) \in SUBSET todo
        BY DEF NamesOf
      <3>2. IsFiniteSet(NamesOf(todo)) /\ Cardinality(NamesOf(todo)) \in Nat
        BY <2>3, <3>1, FS_Subset, FS_CardinalityType
      <3>3. Cardinality(UnusedIn(run)) = 0
        BY FS_EmptySet
      <3>4. Cardinality(NamesOf(todo)) = 0
        BY <2>2, <3>2, <3>3 DEF Enough
      <3> QED BY <3>1, <3>2, <3>4, FS_EmptySet
    <2>8. /\ RunOk(d, q)
          /\ \/ UnusedIn(q) = UnusedIn(run)
             \/ /\ Info[s].type \in NameTypes
                /\ \E e \in UnusedIn(run) : UnusedIn(q) = UnusedIn(run) \ {e}
      BY <2>2, <2>5, <2>7, MentionResolved
    <2>9. todo \subseteq Slots
      BY <2>2 DEF Live, SlotsOf
    <2>10. Enough(q, todo \ {s})
      BY <2>2, <2>8, <2>9, EnoughStays
    <2>11. Cardinality(todo \ {s}) = N - (n + 1)
      <3>1. Cardinality(todo \ {s}) = Cardinality(todo) - 1
        BY <2>3, FS_RemoveElement
      <3>2. Cardinality(todo) = N - n
        BY <2>2
      <3> QED BY <3>1, <3>2
    <2>12. \A t \in Live(d) \ (todo \ {s}) : Valued(t) => q.mention[t].valued
      <3>1. run \in Runs /\ Live(d) \subseteq Slots
        BY <2>2 DEF RunOk, Live, SlotsOf
      <3>2. /\ \A t \in Slots : run.mention[t].valued => q.mention[t].valued
            /\ Valued(s) => q.mention[s].valued
        BY <2>5, <2>9, <3>1, ValuesPlanned
      <3> QED BY <2>2, <3>1, <3>2
    <2> QED BY <2>2, <2>6, <2>8, <2>10, <2>11, <2>12
  <1> HIDE DEF S
  <1>9. Nat \subseteq S
    BY <1>7, <1>8, SetInduction
  <1>10. Fine(pass[N].run, pass[N].todo, N)
    BY <1>9 DEF S
  <1>11. pass[N].todo = {}
    <2>1. IsFiniteSet(pass[N].todo) /\ Cardinality(pass[N].todo) = 0
      BY <1>0, <1>10, FS_Subset
    <2> QED BY <2>1, FS_EmptySet
  <1> QED BY <1>3, <1>10, <1>11

-----------------------------------------------------------------------------
(* What the steps have in common                                           *)

\* Steps that only add Entities keep what is known about identities.
LEMMA IdentitiesKept ==
    ASSUME Typed, MergesEnd, Classed, RulesActive, RecordedExist, RulesFollow,
           rules' = rules, recorded' = recorded, entity' \in [Entities -> EntityRows],
           \A e \in Entities : \/ entity'[e] = entity[e]
                               \/ /\ ~Exists(e) /\ entity'[e].status = "ACTIVE"
                                  /\ entity'[e].type \in EntityTypes
    PROVE  /\ MergesEnd' /\ Classed' /\ RulesActive' /\ RecordedExist' /\ RulesFollow'
           /\ \A e \in Entities : Active(e) => Active(e)'
  <1>1. /\ MergesEnd'
        /\ \A e \in Entities : Canonical(e)' = Canonical(e)
        /\ \A e \in Entities : (Exists(e) => Exists(e)') /\ (Active(e) => Active(e)')
    BY MergesKept
  <1>2. Classed'
    BY DEF Classed, Exists
  <1>3. RulesActive'
    <2> SUFFICES ASSUME NEW rule \in rules
                 PROVE  Relates(rule) /\ \A e \in rule[1] : Active(e)'
      BY DEF RulesActive
    <2>1. Relates(rule) /\ rule[1] \subseteq Entities /\ \A e \in rule[1] : Active(e)
      BY DEF RulesActive, Relates
    <2> QED BY <1>1, <2>1
  <1>4. RecordedExist'
    <2> SUFFICES ASSUME NEW rule \in recorded
                 PROVE  Relates(rule) /\ \A e \in rule[1] : Exists(e)'
      BY DEF RecordedExist
    <2>1. Relates(rule) /\ rule[1] \subseteq Entities /\ \A e \in rule[1] : Exists(e)
      BY DEF RecordedExist, Relates
    <2> QED BY <1>1, <2>1
  <1>5. RulesFollow'
    <2> SUFFICES ASSUME NEW rule \in recorded, NEW a \in rule[1], NEW b \in rule[1], a # b
                 PROVE  IF Canonical(a)' = Canonical(b)' THEN rule[2] = "MUST_LINK"
                        ELSE <<{Canonical(a)', Canonical(b)'}, rule[2]>> \in rules
      BY DEF RulesFollow
    <2>1. a \in Entities /\ b \in Entities
      BY DEF RecordedExist, Relates
    <2>2. IF Canonical(a) = Canonical(b) THEN rule[2] = "MUST_LINK"
          ELSE <<{Canonical(a), Canonical(b)}, rule[2]>> \in rules
      BY DEF RulesFollow
    <2> QED BY <1>1, <2>1, <2>2
  <1> QED BY <1>1, <1>2, <1>3, <1>4, <1>5

\* Artifacts stay right as long as the mentions of sanitized Documents stay, their
\* Entities stay active, and no alias is given up.
LEMMA ArtifactsKept ==
    ASSUME Typed, SanitizedOnly, ArtifactMatches, artifact' = artifact,
           \A s \in Slots : document[Info[s].doc].status = "SANITIZED" => mention'[s] = mention[s],
           \A e \in Entities :
              (\E s \in Slots : document[Info[s].doc].status = "SANITIZED" /\ mention[s].entity = e)
                 /\ Active(e)
              => Active(e)' /\ Spelled(e) \subseteq Spelled(e)'
    PROVE  ArtifactMatches'
  <1> SUFFICES ASSUME NEW d \in Documents, artifact[d] # Null, NEW s \in SlotsOf(d)
               PROVE  /\ artifact[d][s] # Null <=> s \in Accepted(d)'
                      /\ artifact[d][s] # Null =>
                            /\ Rehydratable(s, artifact[d][s])'
                            /\ mention'[s].entity # Null =>
                                  /\ entity'[mention'[s].entity].status = "ACTIVE"
                                  /\ artifact[d][s].alias \in
                                        {alias'[mention'[s].entity].primary}
                                           \cup alias'[mention'[s].entity].former
    BY DEF ArtifactMatches, SlotsOf, Active, Spelled
  <1>1. document[d].status = "SANITIZED"
    BY DEF SanitizedOnly
  <1>2. \A t \in SlotsOf(d) : mention'[t] = mention[t]
    BY <1>1 DEF SlotsOf
  <1>3. Accepted(d)' = Accepted(d)
    BY <1>2 DEF Accepted, Live, SlotsOf
  <1>4. /\ artifact[d][s] # Null <=> s \in Accepted(d)
        /\ artifact[d][s] # Null =>
              /\ Rehydratable(s, artifact[d][s])
              /\ mention[s].entity # Null =>
                    /\ Active(mention[s].entity)
                    /\ artifact[d][s].alias \in Spelled(mention[s].entity)
    BY DEF ArtifactMatches
  <1>5. Rehydratable(s, artifact[d][s]) => Rehydratable(s, artifact[d][s])'
    BY <1>2 DEF Rehydratable, Value
  <1>6. ASSUME artifact[d][s] # Null, mention[s].entity # Null
        PROVE  /\ entity'[mention[s].entity].status = "ACTIVE"
               /\ artifact[d][s].alias \in {alias'[mention[s].entity].primary}
                                              \cup alias'[mention[s].entity].former
    <2>1. PICK e \in Entities : e = mention[s].entity
      BY <1>6 DEF SlotsOf, Typed, MentionRows
    <2>2. Active(e) /\ artifact[d][s].alias \in Spelled(e)
      BY <1>4, <1>6, <2>1
    <2>3. Active(e)' /\ Spelled(e) \subseteq Spelled(e)'
      BY <1>1, <2>1, <2>2 DEF SlotsOf
    <2> QED BY <2>1, <2>2, <2>3 DEF Active, Spelled
  <1> QED BY <1>2, <1>3, <1>4, <1>5, <1>6

\* The proposals of one mention are closed.
LEMMA Closed ==
    ASSUME Typed, ProposalsActive, NEW s \in Slots, NEW e, candidate' = ClosedBy(s, e),
           \A f \in Entities : Active(f) => Active(f)'
    PROVE  candidate' \in [Slots -> Proposals] /\ ProposalsActive'
  <1> DEFINE closed == [f \in Entities |-> IF candidate[s][f] # "PENDING" THEN candidate[s][f]
                                           ELSE IF f = e THEN "ACCEPTED" ELSE "REJECTED"]
  <1>1. candidate \in [Slots -> Proposals]
    BY DEF Typed
  <1>2. closed \in Proposals /\ \A f \in Entities : closed[f] # "PENDING"
    BY <1>1 DEF Proposals
  <1>3. candidate' = [candidate EXCEPT ![s] = closed]
    BY DEF ClosedBy
  <1> HIDE DEF closed
  <1>4. candidate' \in [Slots -> Proposals]
    BY <1>1, <1>2, <1>3
  <1>5. ASSUME NEW t \in Slots, NEW f \in Entities, candidate'[t][f] = "PENDING"
        PROVE  Active(f)'
    BY <1>1, <1>2, <1>3, <1>5 DEF ProposalsActive
  <1> QED BY <1>4, <1>5 DEF ProposalsActive

\* A step that changes one mention.
LEMMA OneMention ==
    ASSUME IInv, NEW s \in Slots, NEW row \in MentionRows, NEW tr \in Trails,
           mention' = [mention EXCEPT ![s] = row], trail' = [trail EXCEPT ![s] = tr],
           values \subseteq values', \A e \in Entities : Active(e) => Active(e)',
           \A t \in Slots \ {s} :
              /\ mention[t].entity # Null /\ mention[t].valued /\ mention[t].review # "REJECTED"
              /\ <<mention[t].entity, Value(t)>> \in links
              => <<mention[t].entity, Value(t)>> \in links',
           row.entity # Null => row.live /\ entity'[row.entity].status = "ACTIVE",
           row.valued => row.live /\ Value(s) \in values',
           row.review = "CONFIRMED" => row.entity # Null /\ tr.confirmed = row.entity,
           row.review = "REJECTED" => tr.rejected,
           row.entity # Null /\ row.valued /\ row.review # "REJECTED" /\ ~tr.rejected
              => <<row.entity, Value(s)>> \in links'
    PROVE  /\ mention' \in [Slots -> MentionRows] /\ trail' \in [Slots -> Trails]
           /\ MentionsSound' /\ ConfirmationBinds' /\ LinkForAssigned'
  <1>1. mention \in [Slots -> MentionRows] /\ trail \in [Slots -> Trails]
    BY DEF IInv, Typed
  <1>2. mention' \in [Slots -> MentionRows] /\ trail' \in [Slots -> Trails]
    BY <1>1
  <1>3. mention'[s] = row /\ trail'[s] = tr
    BY <1>1
  <1>4. \A t \in Slots \ {s} : mention'[t] = mention[t] /\ trail'[t] = trail[t]
    BY <1>1
  <1>5. ASSUME NEW t \in Slots
        PROVE  /\ mention'[t].entity # Null => mention'[t].live
                                              /\ entity'[mention'[t].entity].status = "ACTIVE"
               /\ mention'[t].valued => mention'[t].live /\ Value(t) \in values'
               /\ mention'[t].review = "CONFIRMED" => mention'[t].entity # Null
               /\ mention'[t].review = "REJECTED" => trail'[t].rejected
               /\ mention'[t].review = "CONFIRMED" => trail'[t].confirmed = mention'[t].entity
               /\ /\ mention'[t].entity # Null /\ mention'[t].valued
                  /\ mention'[t].review # "REJECTED" /\ ~trail'[t].rejected
                  => <<mention'[t].entity, Value(t)>> \in links'
    <2>1. CASE t = s
      BY <1>3, <2>1
    <2>2. CASE t # s
      <3>1. mention'[t] = mention[t] /\ trail'[t] = trail[t] /\ mention[t].entity \in Entities \cup {Null}
        BY <1>1, <1>4, <2>2 DEF MentionRows
      <3>2. /\ mention[t].entity # Null => mention[t].live /\ Active(mention[t].entity)
            /\ mention[t].valued => mention[t].live /\ Value(t) \in values
            /\ mention[t].review = "CONFIRMED" => mention[t].entity # Null
            /\ mention[t].review = "REJECTED" => trail[t].rejected
        BY DEF IInv, MentionsSound
      <3>3. mention[t].review = "CONFIRMED" => trail[t].confirmed = mention[t].entity
        BY DEF IInv, ConfirmationBinds
      <3>4. /\ mention[t].entity # Null /\ mention[t].valued
            /\ mention[t].review # "REJECTED" /\ ~trail[t].rejected
            => <<mention[t].entity, Value(t)>> \in links
        BY DEF IInv, LinkForAssigned
      <3>5. mention[t].entity # Null => entity'[mention[t].entity].status = "ACTIVE"
        BY <3>1, <3>2 DEF Active
      <3> QED BY <2>2, <3>1, <3>2, <3>3, <3>4, <3>5
    <2> QED BY <2>1, <2>2
  <1>6. MentionsSound'
    BY <1>5 DEF MentionsSound, Active, Value
  <1>7. ConfirmationBinds'
    BY <1>5 DEF ConfirmationBinds
  <1>8. LinkForAssigned'
    BY <1>5 DEF LinkForAssigned, Value
  <1> QED BY <1>2, <1>6, <1>7, <1>8

LEMMA SlotTypes ==
    ASSUME Typed, NEW s \in Slots
    PROVE  /\ mention[s] \in MentionRows /\ trail[s] \in Trails /\ Info[s].doc \in Documents
           /\ Value(s) \in AllValues
  BY SlotsAssumption DEF Typed, AllValues

LEMMA AssignOk ==
    ASSUME IInv, NEW s \in Slots, NEW e \in Entities, Assign(s, e)
    PROVE  IInv'
  <1>0. Typed /\ mention[s] \in MentionRows /\ e # Null
    BY SlotTypes, EntitiesFacts DEF IInv
  <1>1. PICK row \in MentionRows : row = [mention[s] EXCEPT !.entity = e, !.review = "UNREVIEWED"]
    BY <1>0 DEF MentionRows
  <1>2. row.entity = e /\ row.review = "UNREVIEWED" /\ row.live = mention[s].live
        /\ row.valued = mention[s].valued
    BY <1>0, <1>1 DEF MentionRows
  <1>3. PICK tr \in Trails : tr = [entity |-> e, actor |-> "USER", confirmed |-> Null, rejected |-> FALSE]
    BY DEF Trails
  <1>4. mention' = [mention EXCEPT ![s] = row] /\ trail' = [trail EXCEPT ![s] = tr]
    BY <1>0, <1>1, <1>3 DEF Assign, Reassigned, UserAssigns, Typed
  <1>5. /\ UNCHANGED <<document, entity, alias, values, rules, recorded, artifact>>
        /\ links' = links \cup LinkedBy(s, e) /\ candidate' = ClosedBy(s, e)
        /\ Active(e) /\ mention[s].live /\ document[Info[s].doc].status # "SANITIZED"
    BY DEF Assign, Edit, DocumentReviewMutable
  <1>6. mention[s].valued => <<e, Value(s)>> \in links' /\ Value(s) \in values
    BY <1>5 DEF LinkedBy, IInv, MentionsSound
  <1>7. links' \subseteq Entities \X values'
    BY <1>0, <1>5, <1>6 DEF LinkedBy, Typed
  <1>8. /\ MergesEnd' /\ Classed' /\ RulesActive' /\ RecordedExist' /\ RulesFollow'
        /\ \A f \in Entities : Active(f) => Active(f)'
    BY <1>5, IdentitiesKept DEF IInv, Typed
  <1>9. /\ mention' \in [Slots -> MentionRows] /\ trail' \in [Slots -> Trails]
        /\ MentionsSound' /\ ConfirmationBinds' /\ LinkForAssigned'
    BY <1>2, <1>3, <1>4, <1>5, <1>6, <1>8, OneMention DEF Active
  <1>10. candidate' \in [Slots -> Proposals] /\ ProposalsActive'
    BY <1>5, <1>8, Closed DEF IInv
  <1>11. ArtifactMatches'
    <2>1. \A t \in Slots : document[Info[t].doc].status = "SANITIZED" => mention'[t] = mention[t]
      BY <1>0, <1>4, <1>5 DEF Typed
    <2> QED BY <1>5, <1>8, <2>1, ArtifactsKept DEF IInv, Spelled
  <1>12. Typed' /\ SanitizedOnly'
    BY <1>0, <1>5, <1>7, <1>9, <1>10 DEF Typed, SanitizedOnly, IInv
  <1> QED BY <1>8, <1>9, <1>10, <1>11, <1>12 DEF IInv

LEMMA ConfirmOk ==
    ASSUME IInv, NEW s \in Slots, Confirm(s)
    PROVE  IInv'
  <1>0. Typed /\ mention[s] \in MentionRows /\ trail[s] \in Trails
    BY SlotTypes DEF IInv
  <1>1. PICK row \in MentionRows : row = [mention[s] EXCEPT !.review = "CONFIRMED"]
    BY <1>0 DEF MentionRows
  <1>2. row.entity = mention[s].entity /\ row.review = "CONFIRMED" /\ row.live = mention[s].live
        /\ row.valued = mention[s].valued
    BY <1>0, <1>1 DEF MentionRows
  <1>3. PICK tr \in Trails : tr = [trail[s] EXCEPT !.confirmed = mention[s].entity]
    BY <1>0 DEF Trails, MentionRows
  <1>4. tr.confirmed = row.entity /\ tr.rejected = trail[s].rejected
    BY <1>0, <1>2, <1>3 DEF Trails
  <1>5. mention' = [mention EXCEPT ![s] = row] /\ trail' = [trail EXCEPT ![s] = tr]
    BY <1>0, <1>1, <1>3 DEF Confirm, UserConfirms, Typed
  <1>6. /\ UNCHANGED <<document, entity, alias, values, links, rules, candidate, recorded, artifact>>
        /\ mention[s].entity # Null /\ document[Info[s].doc].status # "SANITIZED"
    BY DEF Confirm, Edit, DocumentReviewMutable, identity
  <1>7. /\ mention[s].live /\ Active(mention[s].entity)
        /\ mention[s].valued => Value(s) \in values
        /\ mention[s].review = "REJECTED" => trail[s].rejected
        /\ /\ mention[s].valued /\ mention[s].review # "REJECTED" /\ ~trail[s].rejected
           => <<mention[s].entity, Value(s)>> \in links
    BY <1>6 DEF IInv, MentionsSound, LinkForAssigned
  <1>8. /\ MergesEnd' /\ Classed' /\ RulesActive' /\ RecordedExist' /\ RulesFollow'
        /\ \A f \in Entities : Active(f) => Active(f)'
    BY <1>6, IdentitiesKept DEF IInv, Typed
  <1>9. /\ mention' \in [Slots -> MentionRows] /\ trail' \in [Slots -> Trails]
        /\ MentionsSound' /\ ConfirmationBinds' /\ LinkForAssigned'
    BY <1>2, <1>4, <1>5, <1>6, <1>7, <1>8, OneMention DEF Active
  <1>10. candidate' \in [Slots -> Proposals] /\ ProposalsActive'
    BY <1>6, <1>8 DEF IInv, Typed, ProposalsActive
  <1>11. ArtifactMatches'
    <2>1. \A t \in Slots : document[Info[t].doc].status = "SANITIZED" => mention'[t] = mention[t]
      BY <1>0, <1>5, <1>6 DEF Typed
    <2> QED BY <1>6, <1>8, <2>1, ArtifactsKept DEF IInv, Spelled
  <1>12. Typed' /\ SanitizedOnly'
    BY <1>0, <1>6, <1>9, <1>10 DEF Typed, SanitizedOnly, IInv
  <1> QED BY <1>8, <1>9, <1>10, <1>11, <1>12 DEF IInv

LEMMA RejectOk ==
    ASSUME IInv, NEW s \in Slots, Reject(s)
    PROVE  IInv'
  <1>0. Typed /\ mention[s] \in MentionRows /\ trail[s] \in Trails
    BY SlotTypes DEF IInv
  <1>1. PICK row \in MentionRows : row = [mention[s] EXCEPT !.entity = Null, !.review = "REJECTED"]
    BY <1>0 DEF MentionRows
  <1>2. row.entity = Null /\ row.review = "REJECTED" /\ row.live = mention[s].live
        /\ row.valued = mention[s].valued
    BY <1>0, <1>1 DEF MentionRows
  <1>3. PICK tr \in Trails :
           tr = [entity |-> Null, actor |-> trail[s].actor, confirmed |-> Null, rejected |-> TRUE]
    BY <1>0 DEF Trails
  <1>4. mention' = [mention EXCEPT ![s] = row] /\ trail' = [trail EXCEPT ![s] = tr] /\ tr.rejected
    BY <1>0, <1>1, <1>3 DEF Reject, UserRejects, Typed
  <1>5. /\ UNCHANGED <<document, entity, alias, values, rules, recorded, artifact>>
        /\ links' = links \ UnlinkedBy(s) /\ candidate' = ClosedBy(s, Null)
        /\ mention[s].live /\ document[Info[s].doc].status # "SANITIZED"
    BY DEF Reject, Edit, DocumentReviewMutable
  <1>6. mention[s].valued => Value(s) \in values
    BY DEF IInv, MentionsSound
  <1>7. links' \subseteq Entities \X values'
    BY <1>0, <1>5 DEF Typed
  <1>8. /\ MergesEnd' /\ Classed' /\ RulesActive' /\ RecordedExist' /\ RulesFollow'
        /\ \A f \in Entities : Active(f) => Active(f)'
    BY <1>5, IdentitiesKept DEF IInv, Typed
  <1>9. ASSUME NEW t \in Slots \ {s}, mention[t].entity # Null, mention[t].valued,
               mention[t].review # "REJECTED", <<mention[t].entity, Value(t)>> \in links
        PROVE  <<mention[t].entity, Value(t)>> \in links'
    <2>1. mention[t].live
      BY <1>9 DEF IInv, MentionsSound
    <2>2. CASE UnlinkedBy(s) = {}
      BY <1>5, <1>9, <2>2
    <2>3. CASE UnlinkedBy(s) # {}
      <3>1. UnlinkedBy(s) = {<<mention[s].entity, Value(s)>>}
            /\ ~(Value(t) = Value(s) /\ mention[t].entity = mention[s].entity)
        BY <1>9, <2>1, <2>3 DEF UnlinkedBy
      <3> QED BY <1>5, <1>9, <3>1
    <2> QED BY <2>2, <2>3
  <1>10. /\ mention' \in [Slots -> MentionRows] /\ trail' \in [Slots -> Trails]
         /\ MentionsSound' /\ ConfirmationBinds' /\ LinkForAssigned'
    BY <1>2, <1>4, <1>5, <1>6, <1>8, <1>9, OneMention
  <1>11. candidate' \in [Slots -> Proposals] /\ ProposalsActive'
    BY <1>5, <1>8, Closed DEF IInv
  <1>12. ArtifactMatches'
    <2>1. \A t \in Slots : document[Info[t].doc].status = "SANITIZED" => mention'[t] = mention[t]
      BY <1>0, <1>4, <1>5 DEF Typed
    <2> QED BY <1>5, <1>8, <2>1, ArtifactsKept DEF IInv, Spelled
  <1>13. Typed' /\ SanitizedOnly'
    BY <1>0, <1>5, <1>7, <1>10, <1>11 DEF Typed, SanitizedOnly, IInv
  <1> QED BY <1>8, <1>10, <1>11, <1>12, <1>13 DEF IInv

LEMMA CreateOk ==
    ASSUME IInv, NEW s \in Slots, NEW text \in Texts, NEW type \in EntityTypes,
           CreateEntityWithAssignment(s, text, type)
    PROVE  IInv'
  <1>0. Typed /\ mention[s] \in MentionRows
    BY SlotTypes DEF IInv
  <1>1. PICK e \in Free : e = FirstOf(Free)
    <2>1. Free \subseteq Entities /\ Free # {}
      BY DEF Free, CreateEntityWithAssignment
    <2> QED BY <2>1, FirstOfFacts
  <1>2. e \in Entities /\ e # Null /\ entity[e].status = "NONE" /\ ~Active(e)
    BY <1>1, EntitiesFacts DEF Free, Active
  <1>3. /\ UNCHANGED <<document, values, rules, recorded, artifact>>
        /\ entity' = [entity EXCEPT ![e] = [status |-> "ACTIVE", type |-> type, into |-> Null]]
        /\ alias' = [alias EXCEPT ![e].primary = text]
        /\ mention' = Reassigned(s, e) /\ trail' = UserAssigns(s, e)
        /\ links' = links \cup LinkedBy(s, e) /\ candidate' = ClosedBy(s, e)
        /\ mention[s].live /\ document[Info[s].doc].status # "SANITIZED"
    BY <1>1 DEF CreateEntityWithAssignment, Edit, DocumentReviewMutable
  <1>4. PICK made \in EntityRows : made = [status |-> "ACTIVE", type |-> type, into |-> Null]
    BY DEF EntityRows
  <1>5. made.status = "ACTIVE" /\ made.type = type /\ entity' = [entity EXCEPT ![e] = made]
    BY <1>3, <1>4
  <1>6. entity' \in [Entities -> EntityRows] /\ entity'[e] = made
        /\ \A f \in Entities \ {e} : entity'[f] = entity[f]
    BY <1>0, <1>2, <1>5 DEF Typed
  <1>7. alias' \in [Entities -> AliasRows] /\ \A f \in Entities \ {e} : alias'[f] = alias[f]
    <2>1. text \in AllNames
      BY DEF AllNames
    <2> QED BY <1>0, <1>2, <1>3, <2>1 DEF Typed, AliasRows
  <1>8. /\ MergesEnd' /\ Classed' /\ RulesActive' /\ RecordedExist' /\ RulesFollow'
        /\ \A f \in Entities : Active(f) => Active(f)'
    BY <1>2, <1>3, <1>5, <1>6, IdentitiesKept DEF IInv, Exists
  <1>9. PICK row \in MentionRows : row = [mention[s] EXCEPT !.entity = e, !.review = "UNREVIEWED"]
    BY <1>0, <1>2 DEF MentionRows
  <1>10. row.entity = e /\ row.review = "UNREVIEWED" /\ row.live = mention[s].live
         /\ row.valued = mention[s].valued
    BY <1>0, <1>2, <1>9 DEF MentionRows
  <1>11. PICK tr \in Trails : tr = [entity |-> e, actor |-> "USER", confirmed |-> Null, rejected |-> FALSE]
    BY <1>2 DEF Trails
  <1>12. mention' = [mention EXCEPT ![s] = row] /\ trail' = [trail EXCEPT ![s] = tr]
    BY <1>0, <1>3, <1>9, <1>11 DEF Reassigned, UserAssigns, Typed
  <1>13. mention[s].valued => <<e, Value(s)>> \in links' /\ Value(s) \in values
    BY <1>3 DEF LinkedBy, IInv, MentionsSound
  <1>14. links' \subseteq Entities \X values'
    BY <1>0, <1>2, <1>3, <1>13 DEF LinkedBy, Typed
  <1>15. /\ mention' \in [Slots -> MentionRows] /\ trail' \in [Slots -> Trails]
         /\ MentionsSound' /\ ConfirmationBinds' /\ LinkForAssigned'
    <2>1. entity'[row.entity].status = "ACTIVE"
      BY <1>5, <1>6, <1>10
    <2> QED BY <1>3, <1>8, <1>10, <1>12, <1>13, <2>1, OneMention
  <1>16. candidate' \in [Slots -> Proposals] /\ ProposalsActive'
    BY <1>3, <1>8, Closed DEF IInv
  <1>17. ArtifactMatches'
    <2>1. \A t \in Slots : document[Info[t].doc].status = "SANITIZED" => mention'[t] = mention[t]
      BY <1>0, <1>3, <1>12 DEF Typed
    <2>2. \A f \in Entities : Active(f) => Active(f)' /\ Spelled(f) \subseteq Spelled(f)'
      BY <1>2, <1>7, <1>8 DEF Spelled
    <2> QED BY <1>3, <2>1, <2>2, ArtifactsKept DEF IInv
  <1>18. Typed' /\ SanitizedOnly'
    BY <1>0, <1>3, <1>6, <1>7, <1>14, <1>15, <1>16 DEF Typed, SanitizedOnly, IInv
  <1> QED BY <1>8, <1>15, <1>16, <1>17, <1>18 DEF IInv

LEMMA SplitOk ==
    ASSUME IInv, NEW s \in Slots, NEW text \in Texts, Split(s, text)
    PROVE  IInv'
  <1>1. PICK e \in Entities : e = mention[s].entity
    BY SlotTypes DEF Split, IInv, MentionRows
  <1>2. entity[e].type \in EntityTypes
    BY <1>1 DEF Split, IInv, Classed, Active, Exists
  <1>3. CreateEntityWithAssignment(s, text, entity[e].type)
    BY <1>1 DEF Split, CreateEntity
  <1>4. PICK type \in EntityTypes : type = entity[e].type
    BY <1>2
  <1> QED BY <1>3, <1>4, CreateOk

LEMMA RenameOk ==
    ASSUME IInv, NEW e \in Entities, NEW text \in Texts, RenameEntity(e, text)
    PROVE  IInv'
  <1>0. Typed
    BY DEF IInv
  <1>1. /\ UNCHANGED <<document, mention, entity, values, links, rules, candidate, trail,
                       recorded, artifact>>
        /\ alias' = [alias EXCEPT ![e] = [primary |-> text, former |-> Spelled(e) \ {text}]]
    BY DEF RenameEntity
  <1>2. Spelled(e) \subseteq AllNames /\ text \in AllNames
    BY <1>0 DEF Spelled, Typed, AliasRows, AllNames
  <1>3. PICK row \in AliasRows : row = [primary |-> text, former |-> Spelled(e) \ {text}]
    BY <1>2 DEF AliasRows
  <1>4. row.primary = text /\ row.former = Spelled(e) \ {text}
    BY <1>3
  <1>5. alias' \in [Entities -> AliasRows] /\ alias'[e] = row
        /\ \A f \in Entities \ {e} : alias'[f] = alias[f]
    BY <1>0, <1>1, <1>3 DEF Typed
  <1>6. \A f \in Entities : Spelled(f) \subseteq Spelled(f)'
    BY <1>4, <1>5 DEF Spelled
  <1>7. /\ MergesEnd' /\ Classed' /\ RulesActive' /\ RecordedExist' /\ RulesFollow'
        /\ \A f \in Entities : Active(f) => Active(f)'
    BY <1>0, <1>1, IdentitiesKept DEF IInv, Typed
  <1>8. MentionsSound' /\ ProposalsActive' /\ ConfirmationBinds' /\ LinkForAssigned' /\ SanitizedOnly'
    BY <1>1 DEF IInv, MentionsSound, ProposalsActive, ConfirmationBinds, LinkForAssigned,
                SanitizedOnly, Active, Value
  <1>9. ArtifactMatches'
    BY <1>0, <1>1, <1>6, <1>7, ArtifactsKept DEF IInv
  <1>10. Typed'
    BY <1>0, <1>1, <1>5 DEF Typed
  <1> QED BY <1>7, <1>8, <1>9, <1>10 DEF IInv

LEMMA CreateManualMentionOk ==
    ASSUME IInv, NEW s \in Slots, CreateManualMention(s)
    PROVE  IInv'
  <1>0. Typed /\ mention[s] \in MentionRows /\ trail[s] \in Trails /\ Value(s) \in AllValues
    BY SlotTypes DEF IInv
  <1>1. PICK row \in MentionRows : row = [mention[s] EXCEPT !.live = TRUE, !.valued = TRUE]
    BY <1>0 DEF MentionRows
  <1>2. row.entity = mention[s].entity /\ row.review = mention[s].review /\ row.live /\ row.valued
    BY <1>0, <1>1 DEF MentionRows
  <1>3. /\ UNCHANGED <<document, entity, alias, links, rules, candidate, trail, recorded, artifact>>
        /\ values' = values \cup {Value(s)} /\ ~mention[s].live
        /\ document[Info[s].doc].status # "SANITIZED"
    BY DEF CreateManualMention, InsertManualMention, DocumentReviewMutable
  <1>4. mention' = [mention EXCEPT ![s] = row] /\ trail' = [trail EXCEPT ![s] = trail[s]]
    BY <1>0, <1>1, <1>3 DEF CreateManualMention, InsertManualMention, Typed
  <1>5. row.entity = Null /\ row.review # "CONFIRMED"
        /\ (row.review = "REJECTED" => trail[s].rejected)
    BY <1>2, <1>3 DEF IInv, MentionsSound
  <1>6. /\ MergesEnd' /\ Classed' /\ RulesActive' /\ RecordedExist' /\ RulesFollow'
        /\ \A f \in Entities : Active(f) => Active(f)'
    BY <1>0, <1>3, IdentitiesKept DEF IInv, Typed
  <1>7. /\ mention' \in [Slots -> MentionRows] /\ trail' \in [Slots -> Trails]
        /\ MentionsSound' /\ ConfirmationBinds' /\ LinkForAssigned'
    <2>1. values \subseteq values' /\ Value(s) \in values'
      BY <1>3
    <2> QED BY <1>0, <1>2, <1>3, <1>4, <1>5, <1>6, <2>1, OneMention
  <1>8. candidate' \in [Slots -> Proposals] /\ ProposalsActive'
    BY <1>3, <1>6 DEF IInv, Typed, ProposalsActive
  <1>9. ArtifactMatches'
    <2>1. \A t \in Slots : document[Info[t].doc].status = "SANITIZED" => mention'[t] = mention[t]
      BY <1>0, <1>3, <1>4 DEF Typed
    <2> QED BY <1>3, <1>6, <2>1, ArtifactsKept DEF IInv, Spelled
  <1>10. links' \subseteq Entities \X values'
    BY <1>0, <1>3 DEF Typed
  <1>11. Typed' /\ SanitizedOnly'
    BY <1>0, <1>3, <1>7, <1>8, <1>10 DEF Typed, SanitizedOnly, IInv
  <1> QED BY <1>6, <1>7, <1>8, <1>9, <1>11 DEF IInv

LEMMA AddConstraintOk ==
    ASSUME IInv, NEW a \in Entities, NEW b \in Entities, NEW type \in RuleTypes,
           AddConstraint(a, b, type)
    PROVE  IInv'
  <1>0. Typed
    BY DEF IInv
  <1>1. PICK rule : rule = <<{a, b}, type>>
    OBVIOUS
  <1>2. /\ UNCHANGED <<document, mention, entity, alias, values, links, candidate, trail, artifact>>
        /\ a # b /\ Active(a) /\ Active(b)
        /\ rules' = rules \cup {rule} /\ recorded' = recorded \cup {rule}
    BY <1>1 DEF AddConstraint, RecordedWith
  <1>3. Relates(rule) /\ rule[1] = {a, b} /\ rule[2] = type
    BY <1>1, <1>2 DEF Relates
  <1>4. RulesActive'
    BY <1>2, <1>3 DEF IInv, RulesActive, Active
  <1>5. RecordedExist'
    BY <1>2, <1>3 DEF IInv, RecordedExist, Active, Exists
  <1>6. MergesEnd' /\ Classed' /\ \A e \in Entities : Canonical(e)' = Canonical(e)
    BY <1>0, <1>2, MergesKept DEF IInv, Typed, Classed, Exists
  <1>7. RulesFollow'
    <2> SUFFICES ASSUME NEW r \in recorded', NEW x \in r[1], NEW y \in r[1], x # y
                 PROVE  IF Canonical(x)' = Canonical(y)' THEN r[2] = "MUST_LINK"
                        ELSE <<{Canonical(x)', Canonical(y)'}, r[2]>> \in rules'
      BY DEF RulesFollow
    <2>1. CASE r \in recorded
      <3>1. x \in Entities /\ y \in Entities
        BY <2>1 DEF IInv, RecordedExist, Relates
      <3>2. IF Canonical(x) = Canonical(y) THEN r[2] = "MUST_LINK"
            ELSE <<{Canonical(x), Canonical(y)}, r[2]>> \in rules
        BY <2>1 DEF IInv, RulesFollow
      <3> QED BY <1>2, <1>6, <3>1, <3>2
    <2>2. CASE r = rule
      <3>1. x \in Entities /\ y \in Entities /\ {x, y} = {a, b} /\ Active(x) /\ Active(y)
        BY <1>2, <1>3, <2>2
      <3>2. Canonical(x) = x /\ Canonical(y) = y
        BY <1>0, <3>1, MergesFacts DEF IInv
      <3>3. <<{x, y}, r[2]>> = rule
        BY <1>1, <1>3, <2>2, <3>1
      <3> QED BY <1>2, <1>6, <3>1, <3>2, <3>3
    <2> QED BY <1>2, <2>1, <2>2
  <1>8. MentionsSound' /\ ProposalsActive' /\ ConfirmationBinds' /\ LinkForAssigned' /\ SanitizedOnly'
    BY <1>2 DEF IInv, MentionsSound, ProposalsActive, ConfirmationBinds, LinkForAssigned,
                SanitizedOnly, Active, Value
  <1>9. ArtifactMatches'
    BY <1>0, <1>2, ArtifactsKept DEF IInv, Spelled, Active
  <1>10. Typed'
    BY <1>0, <1>2 DEF Typed
  <1> QED BY <1>4, <1>5, <1>6, <1>7, <1>8, <1>9, <1>10 DEF IInv

LEMMA MergeOk ==
    ASSUME IInv, NEW source \in Entities, NEW target \in Entities, MergeEntities(source, target)
    PROVE  IInv'
  <1>0. Typed /\ source # Null /\ target # Null
    BY EntitiesFacts DEF IInv
  <1>1. /\ UNCHANGED <<document, alias, values, trail, recorded, artifact>>
        /\ source # target /\ Active(source) /\ Active(target)
        /\ entity[source].type = entity[target].type
        /\ links' = CopiedLinks(source, target) /\ mention' = MovedMentions(source, target)
        /\ candidate' = RedirectedCandidates(source, target)
        /\ rules' = CarriedRules(source, target)
        /\ entity' = [entity EXCEPT ![source].status = "MERGED", ![source].into = target]
        /\ AffectedMutable(source) /\ ~MergeProhibited(source, target)
    BY DEF MergeEntities
  <1>2. /\ MergesEnd'
        /\ \A e \in Entities : Exists(e) =>
             Canonical(e)' = IF Canonical(e) = source THEN target ELSE Canonical(e)
    BY <1>0, <1>1, MergesMoved DEF IInv
  <1>3. /\ entity' \in [Entities -> EntityRows]
        /\ \A e \in Entities \ {source} : entity'[e] = entity[e]
        /\ entity'[source].status = "MERGED" /\ entity'[source].type = entity[source].type
    <2>1. entity \in [Entities -> EntityRows] /\ entity[source] \in EntityRows
      BY <1>0 DEF Typed
    <2>2. [entity[source] EXCEPT !.status = "MERGED", !.into = target] \in EntityRows
      BY <2>1 DEF EntityRows
    <2>3. entity' = [entity EXCEPT ![source] =
                        [entity[source] EXCEPT !.status = "MERGED", !.into = target]]
      BY <1>1, <2>1 DEF EntityRows
    <2>4. entity' \in [Entities -> EntityRows]
          /\ \A e \in Entities \ {source} : entity'[e] = entity[e]
      BY <2>1, <2>2, <2>3
    <2>5. entity'[source] = [entity[source] EXCEPT !.status = "MERGED", !.into = target]
      BY <2>1, <2>3
    <2> QED BY <2>1, <2>4, <2>5 DEF EntityRows
  <1>4. /\ \A e \in Entities \ {source} : Active(e) => Active(e)'
        /\ \A e \in Entities : Exists(e) <=> Exists(e)'
        /\ Active(target)'
    BY <1>1, <1>3 DEF Active, Exists
  <1>5. Classed'
    BY <1>3, <1>4 DEF IInv, Classed, Exists
  <1>6. RulesActive'
    <2> SUFFICES ASSUME NEW rule \in rules'
                 PROVE  Relates(rule) /\ \A e \in rule[1] : Active(e)'
      BY DEF RulesActive
    <2>1. CASE rule \in rules \ RulesOf(source)
      <3>1. Relates(rule) /\ (\A e \in rule[1] : Active(e)) /\ source \notin rule[1]
        BY <2>1 DEF IInv, RulesActive, RulesOf
      <3> QED BY <1>4, <3>1 DEF Relates
    <2>2. CASE rule \in Carried(source, target)
      <3>1. PICK r \in RulesOf(source) : target \notin r[1] /\ rule = Substituted(source, target, r)
        BY <2>2 DEF Carried
      <3>2. Relates(r) /\ (\A e \in r[1] : Active(e)) /\ source \in r[1]
        BY <3>1 DEF IInv, RulesActive, RulesOf
      <3>3. PICK a \in Entities, b \in Entities, type \in RuleTypes : a # b /\ r = <<{a, b}, type>>
        BY <3>2 DEF Relates
      <3>4. r[1] = {a, b} /\ r[2] = type
        BY <3>3
      <3>5. PICK o \in Entities : o # source /\ r[1] = {source, o} /\ o # target /\ Active(o)
        BY <3>1, <3>2, <3>3, <3>4
      <3>6. (r[1] \ {source}) \cup {target} = {o, target}
        BY <3>5
      <3>7. rule = <<{o, target}, type>>
        BY <3>1, <3>4, <3>6 DEF Substituted
      <3>8. rule[1] = {o, target}
        BY <3>7
      <3> QED BY <1>4, <3>5, <3>7, <3>8 DEF Relates
    <2> QED BY <1>1, <2>1, <2>2 DEF CarriedRules
  <1>7. RecordedExist'
    <2> SUFFICES ASSUME NEW rule \in recorded
                 PROVE  Relates(rule) /\ \A e \in rule[1] : Exists(e)'
      BY <1>1 DEF RecordedExist
    <2>1. Relates(rule) /\ rule[1] \subseteq Entities /\ \A e \in rule[1] : Exists(e)
      BY DEF IInv, RecordedExist, Relates
    <2> QED BY <1>4, <2>1
  <1>8. RulesFollow'
    <2> SUFFICES ASSUME NEW rule \in recorded, NEW a \in rule[1], NEW b \in rule[1], a # b
                 PROVE  IF Canonical(a)' = Canonical(b)' THEN rule[2] = "MUST_LINK"
                        ELSE <<{Canonical(a)', Canonical(b)'}, rule[2]>> \in rules'
      BY <1>1 DEF RulesFollow
    <2>1. /\ a \in Entities /\ b \in Entities /\ Exists(a) /\ Exists(b) /\ rule[2] \in RuleTypes
      BY DEF IInv, RecordedExist, Relates
    <2>2. PICK x \in Entities, y \in Entities : x = Canonical(a) /\ y = Canonical(b)
      BY <1>0, <2>1, MergesFacts DEF IInv
    <2>3. IF x = y THEN rule[2] = "MUST_LINK" ELSE <<{x, y}, rule[2]>> \in rules
      BY <2>2 DEF IInv, RulesFollow
    <2>4. /\ Canonical(a)' = IF x = source THEN target ELSE x
          /\ Canonical(b)' = IF y = source THEN target ELSE y
      BY <1>2, <2>1, <2>2
    <2>5. CASE x = y
      BY <2>3, <2>4, <2>5
    <2>6. CASE x # y /\ x # source /\ y # source
      <3>1. <<{x, y}, rule[2]>> \notin RulesOf(source)
        BY <2>6 DEF RulesOf
      <3> QED BY <1>1, <2>3, <2>4, <2>6, <3>1 DEF CarriedRules
    <2>7. ASSUME NEW o \in Entities, o # source, <<{source, o}, rule[2]>> \in rules
          PROVE  IF o = target THEN rule[2] = "MUST_LINK" ELSE <<{target, o}, rule[2]>> \in rules'
      <3>1. CASE o = target
        <4>1. rule[2] # "CANNOT_LINK"
          BY <1>1, <2>7, <3>1 DEF MergeProhibited
        <4> QED BY <2>1, <3>1, <4>1 DEF RuleTypes
      <3>2. CASE o # target
        <4>1. PICK r : r = <<{source, o}, rule[2]>>
          OBVIOUS
        <4>2. r[1] = {source, o} /\ r[2] = rule[2] /\ r \in rules
          BY <2>7, <4>1
        <4>3. r \in RulesOf(source) /\ target \notin r[1]
          BY <1>1, <3>2, <4>2 DEF RulesOf
        <4>4. (r[1] \ {source}) \cup {target} = {target, o}
          BY <2>7, <4>2
        <4>5. Substituted(source, target, r) = <<{target, o}, rule[2]>>
          BY <4>2, <4>4 DEF Substituted
        <4>6. <<{target, o}, rule[2]>> \in Carried(source, target)
          BY <4>3, <4>5 DEF Carried
        <4> QED BY <1>1, <3>2, <4>6 DEF CarriedRules
      <3> QED BY <3>1, <3>2
    <2>8. CASE x # y /\ x = source
      BY <2>3, <2>4, <2>7, <2>8
    <2>9. CASE x # y /\ y = source
      <3>1. {x, y} = {source, x}
        BY <2>9
      <3>2. {x, target} = {target, x}
        OBVIOUS
      <3> QED BY <2>3, <2>4, <2>7, <2>9, <3>1, <3>2
    <2> QED BY <2>5, <2>6, <2>8, <2>9
  <1>9. /\ mention' \in [Slots -> MentionRows]
        /\ \A s \in Slots :
             IF mention[s].entity # source THEN mention'[s] = mention[s]
             ELSE /\ mention'[s].entity = target /\ mention'[s].review = "UNREVIEWED"
                  /\ mention'[s].live = mention[s].live /\ mention'[s].valued = mention[s].valued
    <2>1. \A s \in Slots : mention[s] \in MentionRows
      BY <1>0 DEF Typed
    <2>2. \A s \in Slots : mention'[s] = IF mention[s].entity # source THEN mention[s]
             ELSE [mention[s] EXCEPT !.entity = target, !.review = "UNREVIEWED"]
      BY <1>1 DEF MovedMentions
    <2>3. \A s \in Slots : mention'[s] \in MentionRows
      BY <2>1, <2>2 DEF MentionRows
    <2>4. mention' = [s \in Slots |-> mention'[s]]
      BY <1>1 DEF MovedMentions
    <2> QED BY <2>1, <2>2, <2>3, <2>4 DEF MentionRows
  <1>10. /\ links \subseteq links' /\ links' \subseteq Entities \X values
         /\ \A v \in values : <<source, v>> \in links => <<target, v>> \in links'
    <2>1. links' = links \cup {<<target, v>> : v \in {w \in values : <<source, w>> \in links}}
      BY <1>1 DEF CopiedLinks
    <2>2. links \subseteq Entities \X values
      BY <1>0 DEF Typed
    <2>3. \A v \in values : <<target, v>> \in Entities \X values
      OBVIOUS
    <2>4. \A l \in links' : l \in Entities \X values
      BY <2>1, <2>2, <2>3
    <2> QED BY <2>1, <2>4
  <1>11. ASSUME NEW s \in Slots
         PROVE  /\ mention'[s].entity # Null => mention'[s].live
                                               /\ entity'[mention'[s].entity].status = "ACTIVE"
                /\ mention'[s].valued => mention'[s].live /\ Value(s) \in values
                /\ mention'[s].review = "CONFIRMED" => mention'[s].entity # Null
                /\ mention'[s].review = "REJECTED" => trail[s].rejected
                /\ mention'[s].review = "CONFIRMED" => trail[s].confirmed = mention'[s].entity
                /\ /\ mention'[s].entity # Null /\ mention'[s].valued
                   /\ mention'[s].review # "REJECTED" /\ ~trail[s].rejected
                   => <<mention'[s].entity, Value(s)>> \in links'
    <2>1. /\ mention[s].entity # Null => mention[s].live /\ Active(mention[s].entity)
          /\ mention[s].valued => mention[s].live /\ Value(s) \in values
          /\ mention[s].review = "CONFIRMED" => mention[s].entity # Null
          /\ mention[s].review = "REJECTED" => trail[s].rejected
      BY DEF IInv, MentionsSound
    <2>2. mention[s].review = "CONFIRMED" => trail[s].confirmed = mention[s].entity
      BY DEF IInv, ConfirmationBinds
    <2>3. /\ mention[s].entity # Null /\ mention[s].valued
          /\ mention[s].review # "REJECTED" /\ ~trail[s].rejected
          => <<mention[s].entity, Value(s)>> \in links
      BY DEF IInv, LinkForAssigned
    <2>4. CASE mention[s].entity # source
      <3>1. mention'[s] = mention[s] /\ mention[s].entity \in Entities \cup {Null}
        BY <1>0, <1>9, <2>4, SlotTypes DEF MentionRows
      <3>2. mention[s].entity # Null => entity'[mention[s].entity].status = "ACTIVE"
        BY <1>3, <2>1, <2>4, <3>1 DEF Active
      <3> QED BY <1>10, <2>1, <2>2, <2>3, <3>1, <3>2
    <2>5. CASE mention[s].entity = source
      <3>1. /\ mention'[s].entity = target /\ mention'[s].review = "UNREVIEWED"
            /\ mention'[s].live = mention[s].live /\ mention'[s].valued = mention[s].valued
        BY <1>9, <2>5
      <3>2. entity'[target].status = "ACTIVE"
        BY <1>4 DEF Active
      <3> QED BY <1>0, <1>10, <2>1, <2>3, <2>5, <3>1, <3>2
    <2> QED BY <2>4, <2>5
  <1>12. MentionsSound'
    BY <1>1, <1>11 DEF MentionsSound, Active, Value
  <1>13. ConfirmationBinds'
    BY <1>1, <1>11 DEF ConfirmationBinds
  <1>14. LinkForAssigned'
    BY <1>1, <1>11 DEF LinkForAssigned, Value
  <1>15. candidate' \in [Slots -> Proposals] /\ ProposalsActive'
    <2>1. \A s \in Slots : candidate[s] \in Proposals
      BY <1>0 DEF Typed
    <2>2. ASSUME NEW s \in Slots
          PROVE  /\ candidate'[s] \in Proposals
                 /\ \A e \in Entities : candidate'[s][e] = "PENDING" => Active(e)'
      <3>0. \A e \in Entities : candidate[s][e] = "PENDING" => Active(e)
        BY DEF IInv, ProposalsActive
      <3>1. CASE candidate[s][source] # "PENDING"
        <4>1. candidate'[s] = candidate[s]
          BY <1>1, <3>1 DEF RedirectedCandidates
        <4> QED BY <1>4, <2>1, <3>0, <3>1, <4>1
      <3>2. CASE candidate[s][source] = "PENDING" /\ candidate[s][target] = "NONE"
        <4>1. candidate'[s] = [candidate[s] EXCEPT ![target] = "PENDING", ![source] = "NONE"]
          BY <1>1, <3>2 DEF RedirectedCandidates
        <4>2. candidate'[s] \in Proposals /\ candidate'[s][source] = "NONE"
              /\ \A e \in Entities \ {source, target} : candidate'[s][e] = candidate[s][e]
          BY <2>1, <4>1 DEF Proposals
        <4> QED BY <1>4, <3>0, <4>2
      <3>3. CASE candidate[s][source] = "PENDING" /\ candidate[s][target] # "NONE"
        <4>1. candidate'[s] = [candidate[s] EXCEPT ![source] = "REJECTED"]
          BY <1>1, <3>3 DEF RedirectedCandidates
        <4>2. candidate'[s] \in Proposals /\ candidate'[s][source] = "REJECTED"
              /\ \A e \in Entities \ {source} : candidate'[s][e] = candidate[s][e]
          BY <2>1, <4>1 DEF Proposals
        <4> QED BY <1>4, <3>0, <4>2
      <3> QED BY <3>1, <3>2, <3>3
    <2>3. candidate' = [s \in Slots |-> candidate'[s]]
      BY <1>1 DEF RedirectedCandidates
    <2> QED BY <2>2, <2>3 DEF ProposalsActive
  <1>16. ArtifactMatches'
    <2>1. \A t \in Slots : document[Info[t].doc].status = "SANITIZED" =>
             mention[t].entity # source /\ mention'[t] = mention[t]
      BY <1>1, <1>9 DEF AffectedMutable, DocumentReviewMutable
    <2>2. ASSUME NEW e \in Entities, Active(e),
                 \E s \in Slots : document[Info[s].doc].status = "SANITIZED" /\ mention[s].entity = e
          PROVE  Active(e)' /\ Spelled(e) \subseteq Spelled(e)'
      BY <1>1, <1>4, <2>1, <2>2 DEF Spelled
    <2> QED BY <1>0, <1>1, <2>1, <2>2, ArtifactsKept DEF IInv
  <1>17. Typed' /\ SanitizedOnly'
    BY <1>0, <1>1, <1>3, <1>9, <1>10, <1>15 DEF Typed, SanitizedOnly, IInv
  <1> QED BY <1>2, <1>5, <1>6, <1>7, <1>8, <1>12, <1>13, <1>14, <1>15, <1>16, <1>17 DEF IInv

\* The row of a Document changes, and maybe its artifact.
LEMMA DocumentOnly ==
    ASSUME IInv, NEW d \in Documents, NEW row \in DocumentRows,
           document' = [document EXCEPT ![d] = row],
           UNCHANGED <<mention, identity, candidate, trail, recorded>>,
           artifact' = [e \in Documents |-> artifact'[e]],
           \A e \in Documents \ {d} : artifact'[e] = artifact[e],
           artifact'[d] # Null => row.status = "SANITIZED",
           artifact'[d] # Null =>
              \A s \in SlotsOf(d) :
                 /\ artifact'[d][s] # Null <=> s \in Accepted(d)
                 /\ artifact'[d][s] # Null =>
                       /\ Rehydratable(s, artifact'[d][s])
                       /\ mention[s].entity # Null =>
                             /\ Active(mention[s].entity)
                             /\ artifact'[d][s].alias \in Spelled(mention[s].entity)
    PROVE  IInv'
  <1>0. Typed
    BY DEF IInv
  <1>1. UNCHANGED <<mention, entity, alias, values, links, rules, candidate, trail, recorded>>
    BY DEF identity
  <1>2. /\ MergesEnd' /\ Classed' /\ RulesActive' /\ RecordedExist' /\ RulesFollow'
    BY <1>0, <1>1, IdentitiesKept DEF IInv, Typed
  <1>3. MentionsSound' /\ ProposalsActive' /\ ConfirmationBinds' /\ LinkForAssigned'
    BY <1>1 DEF IInv, MentionsSound, ProposalsActive, ConfirmationBinds, LinkForAssigned,
                Active, Value
  <1>4. document' \in [Documents -> DocumentRows] /\ document'[d] = row
        /\ \A e \in Documents \ {d} : document'[e] = document[e]
    BY <1>0 DEF Typed
  <1>5. Typed'
    BY <1>0, <1>1, <1>4 DEF Typed
  <1>6. SanitizedOnly'
    BY <1>4 DEF IInv, SanitizedOnly
  <1>7. ArtifactMatches'
    <2> SUFFICES ASSUME NEW e \in Documents, artifact'[e] # Null, NEW s \in SlotsOf(e)
                 PROVE  /\ artifact'[e][s] # Null <=> s \in Accepted(e)
                        /\ artifact'[e][s] # Null =>
                             /\ Rehydratable(s, artifact'[e][s])
                             /\ mention[s].entity # Null =>
                                   /\ Active(mention[s].entity)
                                   /\ artifact'[e][s].alias \in Spelled(mention[s].entity)
      BY <1>1, SMTT(20) DEF ArtifactMatches, SlotsOf, Accepted, Live, Rehydratable, Active, Spelled, Value
    <2> QED BY DEF IInv, ArtifactMatches
  <1> QED BY <1>2, <1>3, <1>5, <1>6, <1>7 DEF IInv

LEMMA SanitizeOk ==
    ASSUME IInv, NEW d \in Documents, Sanitize(d)
    PROVE  IInv'
  <1>0. Typed
    BY DEF IInv
  <1>1. PICK row \in DocumentRows : row = [document[d] EXCEPT !.status = "SANITIZED"]
    BY <1>0 DEF Typed, DocumentRows, Statuses
  <1>2. row.status = "SANITIZED"
    BY <1>0, <1>1 DEF Typed, DocumentRows
  <1>3. document' = [document EXCEPT ![d] = row]
    BY <1>0, <1>1 DEF Sanitize, Typed
  <1>4. artifact' = [artifact EXCEPT ![d] = Mappings(d)]
        /\ UNCHANGED <<mention, identity, candidate, trail, recorded>>
        /\ ArtifactAccepted(d, Mappings(d))
    BY DEF Sanitize
  <1>5. artifact' = [e \in Documents |-> artifact'[e]] /\ artifact'[d] = Mappings(d)
        /\ \A e \in Documents \ {d} : artifact'[e] = artifact[e]
    <2>1. artifact = [e \in Documents |-> artifact[e]]
      BY <1>0 DEF Typed
    <2> HIDE DEF Mappings
    <2> QED BY <1>4, <2>1
  <1>6. ASSUME NEW s \in SlotsOf(d)
        PROVE  /\ artifact'[d][s] # Null <=> s \in Accepted(d)
               /\ artifact'[d][s] # Null =>
                     /\ Rehydratable(s, artifact'[d][s])
                     /\ mention[s].entity # Null =>
                           /\ Active(mention[s].entity)
                           /\ artifact'[d][s].alias \in Spelled(mention[s].entity)
    <2>1. /\ artifact'[d][s] # Null <=> s \in Accepted(d)
          /\ artifact'[d][s] # Null => artifact'[d][s] = Mapping(s) /\ Replaceable(s)
      BY <1>4, <1>5 DEF ArtifactAccepted
    <2>2. ASSUME artifact'[d][s] # Null
          PROVE  /\ Rehydratable(s, Mapping(s))
                 /\ mention[s].entity # Null =>
                       /\ Active(mention[s].entity)
                       /\ Mapping(s).alias \in Spelled(mention[s].entity)
      BY <2>1, <2>2 DEF Replaceable, Mapping, AliasOf, Rehydratable, Spelled
    <2> QED BY <2>1, <2>2
  <1> QED BY <1>2, <1>3, <1>4, <1>5, <1>6, DocumentOnly

LEMMA StatusOk ==
    ASSUME IInv, NEW d \in Documents, NEW row \in DocumentRows,
           document' = [document EXCEPT ![d] = row],
           UNCHANGED <<mention, identity, candidate, trail, recorded, artifact>>,
           document[d].status = "SANITIZED" => row.status = "SANITIZED"
    PROVE  IInv'
  <1>1. artifact[d] # Null => row.status = "SANITIZED"
    BY DEF IInv, SanitizedOnly
  <1>2. artifact' = artifact /\ artifact' = [e \in Documents |-> artifact'[e]]
    BY DEF IInv, Typed
  <1>3. artifact'[d] # Null =>
              \A s \in SlotsOf(d) :
                 /\ artifact'[d][s] # Null <=> s \in Accepted(d)
                 /\ artifact'[d][s] # Null =>
                       /\ Rehydratable(s, artifact'[d][s])
                       /\ mention[s].entity # Null =>
                             /\ Active(mention[s].entity)
                             /\ artifact'[d][s].alias \in Spelled(mention[s].entity)
    BY <1>2 DEF IInv, ArtifactMatches
  <1> QED BY <1>1, <1>2, <1>3, DocumentOnly

LEMMA FailsOk ==
    ASSUME IInv, NEW d \in Documents, ResolveFails(d) \/ SanitizeFails(d) \/ ToggleTrash(d)
    PROVE  IInv'
  <1>0. document \in [Documents -> DocumentRows] /\ document[d] \in DocumentRows
    BY DEF IInv, Typed
  <1>1. CASE ResolveFails(d)
    <2>1. PICK row \in DocumentRows : row = [document[d] EXCEPT !.status = "RESOLVE_FAILED"]
      BY <1>0 DEF DocumentRows, Statuses
    <2>2. document' = [document EXCEPT ![d] = row] /\ document[d].status # "SANITIZED"
          /\ UNCHANGED <<mention, identity, candidate, trail, recorded, artifact>>
      BY <1>0, <1>1, <2>1 DEF ResolveFails, CanResolve
    <2> QED BY <2>2, StatusOk
  <1>2. CASE SanitizeFails(d)
    <2>1. PICK row \in DocumentRows : row = [document[d] EXCEPT !.status = "SANITIZE_FAILED"]
      BY <1>0 DEF DocumentRows, Statuses
    <2>2. document' = [document EXCEPT ![d] = row] /\ document[d].status # "SANITIZED"
          /\ UNCHANGED <<mention, identity, candidate, trail, recorded, artifact>>
      BY <1>0, <1>2, <2>1 DEF SanitizeFails, CanSanitize
    <2> QED BY <2>2, StatusOk
  <1>3. CASE ToggleTrash(d)
    <2>1. PICK row \in DocumentRows : row = [document[d] EXCEPT !.trashed = ~document[d].trashed]
      BY <1>0 DEF DocumentRows
    <2>2. document' = [document EXCEPT ![d] = row] /\ row.status = document[d].status
          /\ UNCHANGED <<mention, identity, candidate, trail, recorded, artifact>>
      BY <1>0, <1>3, <2>1 DEF ToggleTrash, DocumentRows
    <2> QED BY <2>2, StatusOk
  <1> QED BY <1>1, <1>2, <1>3

LEMMA ResolveOk ==
    ASSUME IInv, NEW d \in Documents, Resolve(d)
    PROVE  IInv'
  <1>0. Typed
    BY DEF IInv
  <1>1. PICK run : run = ResolvedRun(d)
    OBVIOUS
  <1>2. RunOk(d, run)
    <2>1. {s \in Live(d) : Info[s].type \in NameTypes} = NamesOf(Live(d))
      BY DEF NamesOf
    <2>2. Cardinality(Free) >= Cardinality(NamesOf(Live(d)))
      BY <2>1 DEF Resolve
    <2> QED BY <1>0, <1>1, <2>2, ResolvedOk DEF IInv
  <1>3. /\ entity' = run.entity /\ alias' = run.alias
        /\ values' = values \cup PlannedValues(d) /\ links' = run.links
        /\ mention' = run.mention /\ candidate' = run.candidate
        /\ trail' = TrailAfterResolution(run)
        /\ document' = [document EXCEPT ![d].status = "READY"]
        /\ UNCHANGED <<rules, recorded, artifact>>
        /\ document[d].status # "SANITIZED"
    BY <1>1 DEF Resolve, InsertIdentities, CanResolve
  <1>4. run \in Runs /\ links \subseteq run.links
        /\ run.links \subseteq Entities \X (values \cup PlannedValues(d))
        /\ (\A e \in Entities : EntityPlanned(run, e)) /\ (\A s \in Slots : MentionPlanned(d, run, s))
    BY <1>2 DEF RunOk
  <1>5. PICK row \in DocumentRows : row = [document[d] EXCEPT !.status = "READY"]
    BY <1>0 DEF Typed, DocumentRows, Statuses
  <1>6. document' = [document EXCEPT ![d] = row]
    BY <1>0, <1>3, <1>5 DEF Typed
  <1>7. document' \in [Documents -> DocumentRows]
        /\ \A e \in Documents \ {d} : document'[e] = document[e]
    BY <1>0, <1>6 DEF Typed
  <1>8. /\ MergesEnd' /\ Classed' /\ RulesActive' /\ RecordedExist' /\ RulesFollow'
        /\ \A e \in Entities : Active(e) => Active(e)'
    <2>1. entity' \in [Entities -> EntityRows]
      BY <1>3, <1>4 DEF Runs
    <2>2. \A e \in Entities : \/ entity'[e] = entity[e]
                              \/ /\ ~Exists(e) /\ entity'[e].status = "ACTIVE"
                                 /\ entity'[e].type \in EntityTypes
      BY <1>3, <1>4 DEF EntityPlanned, ActiveIn, NameTypes, EntityTypes
    <2> QED BY <1>0, <1>3, <2>1, <2>2, IdentitiesKept DEF IInv
  <1>9. \A s \in Slots : Valued(s) /\ s \in Live(d) => Value(s) \in values'
    BY <1>3 DEF PlannedValues
  <1>10. values' \subseteq AllValues
    BY <1>0, <1>3 DEF Typed, PlannedValues, AllValues, Live, SlotsOf
  <1>11. ASSUME NEW s \in Slots
         PROVE  /\ trail'[s] \in Trails /\ trail'[s].rejected = trail[s].rejected
                /\ run.mention[s].entity = mention[s].entity => trail'[s] = trail[s]
    <2>1. trail'[s] = IF run.mention[s].entity # mention[s].entity
                      THEN [trail[s] EXCEPT !.entity = run.mention[s].entity, !.actor = "SYSTEM"]
                      ELSE trail[s]
      BY <1>3 DEF TrailAfterResolution
    <2>2. trail[s] \in Trails /\ run.mention[s].entity \in Entities \cup {Null}
      BY <1>0, <1>4 DEF Typed, Runs, MentionRows
    <2> QED BY <2>1, <2>2 DEF Trails
  <1>12. trail' \in [Slots -> Trails]
    <2>1. trail' = [s \in Slots |-> trail'[s]]
      BY <1>3 DEF TrailAfterResolution
    <2> QED BY <1>11, <2>1
  <1>13. ASSUME NEW s \in Slots
         PROVE  /\ mention'[s].entity # Null => mention'[s].live
                                               /\ entity'[mention'[s].entity].status = "ACTIVE"
                /\ mention'[s].valued => mention'[s].live /\ Value(s) \in values'
                /\ mention'[s].review = "CONFIRMED" => mention'[s].entity # Null
                /\ mention'[s].review = "REJECTED" => trail'[s].rejected
                /\ mention'[s].review = "CONFIRMED" => trail'[s].confirmed = mention'[s].entity
                /\ /\ mention'[s].entity # Null /\ mention'[s].valued
                   /\ mention'[s].review # "REJECTED" /\ ~trail'[s].rejected
                   => <<mention'[s].entity, Value(s)>> \in links'
    <2>0. mention' = run.mention /\ links' = run.links /\ values \subseteq values'
      BY <1>3
    <2>1. /\ mention[s].entity # Null => mention[s].live /\ Active(mention[s].entity)
          /\ mention[s].valued => mention[s].live /\ Value(s) \in values
          /\ mention[s].review = "CONFIRMED" => mention[s].entity # Null
          /\ mention[s].review = "REJECTED" => trail[s].rejected
      BY DEF IInv, MentionsSound
    <2>2. mention[s].review = "CONFIRMED" => trail[s].confirmed = mention[s].entity
      BY DEF IInv, ConfirmationBinds
    <2>3. /\ mention[s].entity # Null /\ mention[s].valued
          /\ mention[s].review # "REJECTED" /\ ~trail[s].rejected
          => <<mention[s].entity, Value(s)>> \in links
      BY DEF IInv, LinkForAssigned
    <2>4. MentionPlanned(d, run, s)
      BY <1>4
    <2>5. mention[s].entity # Null => mention[s].entity \in Entities
      BY <1>0, SlotTypes DEF MentionRows
    <2>6. mention[s].entity # Null => entity'[mention[s].entity].status = "ACTIVE"
      BY <1>8, <2>1, <2>5 DEF Active
    <2>7. run.mention[s] # mention[s] => s \in Live(d) /\ mention[s].live
      BY <2>4 DEF MentionPlanned, Live
    <2>8. run.mention[s].live = mention[s].live /\ run.mention[s].review = mention[s].review
      BY <2>4 DEF MentionPlanned
    <2>9. run.mention[s].entity # mention[s].entity =>
             /\ Valued(s) /\ mention[s].entity = Null
             /\ entity'[run.mention[s].entity].status = "ACTIVE"
             /\ <<run.mention[s].entity, Value(s)>> \in run.links
      BY <1>3, <2>4 DEF MentionPlanned, ActiveIn
    <2>10. run.mention[s].valued /\ ~mention[s].valued =>
             /\ Valued(s)
             /\ run.mention[s].entity # Null => <<run.mention[s].entity, Value(s)>> \in run.links
      BY <2>4 DEF MentionPlanned
    <2>11. CASE run.mention[s].entity = mention[s].entity
      <3>1. trail'[s] = trail[s]
        BY <1>11, <2>11
      <3>2. run.mention[s].valued => mention[s].live /\ Value(s) \in values'
        BY <1>9, <2>0, <2>1, <2>7, <2>10
      <3>3. /\ mention'[s].entity # Null => mention'[s].live
                                             /\ entity'[mention'[s].entity].status = "ACTIVE"
            /\ mention'[s].valued => mention'[s].live /\ Value(s) \in values'
        BY <2>0, <2>1, <2>6, <2>8, <2>11, <3>2
      <3>4. /\ mention'[s].review = "CONFIRMED" => mention'[s].entity # Null
            /\ mention'[s].review = "REJECTED" => trail'[s].rejected
            /\ mention'[s].review = "CONFIRMED" => trail'[s].confirmed = mention'[s].entity
        BY <2>0, <2>1, <2>2, <2>8, <2>11, <3>1
      <3>5. /\ mention'[s].entity # Null /\ mention'[s].valued
            /\ mention'[s].review # "REJECTED" /\ ~trail'[s].rejected
            => <<mention'[s].entity, Value(s)>> \in links'
        BY <1>4, <2>0, <2>3, <2>8, <2>10, <2>11, <3>1
      <3> QED BY <3>3, <3>4, <3>5
    <2>12. CASE run.mention[s].entity # mention[s].entity
      <3>1. s \in Live(d) /\ mention[s].live /\ Value(s) \in values'
        BY <1>9, <2>7, <2>9, <2>12
      <3>2. /\ mention'[s].entity # Null /\ mention'[s].live = mention[s].live
            /\ entity'[mention'[s].entity].status = "ACTIVE"
            /\ mention'[s].review # "CONFIRMED" /\ trail'[s].rejected = trail[s].rejected
        BY <1>11, <2>0, <2>1, <2>8, <2>9, <2>12
      <3>3. <<mention'[s].entity, Value(s)>> \in links' /\ mention'[s].review = mention[s].review
        BY <2>0, <2>8, <2>9, <2>12
      <3> QED BY <2>1, <3>1, <3>2, <3>3
    <2> QED BY <2>11, <2>12
  <1>14. MentionsSound'
    BY <1>13 DEF MentionsSound, Active, Value
  <1>15. ConfirmationBinds'
    BY <1>13 DEF ConfirmationBinds
  <1>16. LinkForAssigned'
    BY <1>13 DEF LinkForAssigned, Value
  <1>17. candidate' \in [Slots -> Proposals] /\ ProposalsActive'
    <2>1. candidate' \in [Slots -> Proposals]
      BY <1>3, <1>4 DEF Runs
    <2>2. \A s \in Slots, e \in Entities :
             run.candidate[s][e] = "PENDING" => run.entity[e].status = "ACTIVE"
      BY <1>4 DEF MentionPlanned, ActiveIn
    <2> QED BY <1>3, <2>1, <2>2 DEF ProposalsActive, Active
  <1>18. ArtifactMatches'
    <2>1. ASSUME NEW t \in Slots, document[Info[t].doc].status = "SANITIZED"
          PROVE  mention'[t] = mention[t]
      <3>1. t \notin Live(d)
        BY <1>3, <2>1 DEF Live, SlotsOf
      <3> QED BY <1>3, <1>4, <3>1 DEF MentionPlanned
    <2>2. \A e \in Entities : Active(e) => Active(e)' /\ Spelled(e) \subseteq Spelled(e)'
      BY <1>3, <1>4, <1>8 DEF EntityPlanned, Active, Exists, Spelled
    <2> QED BY <1>0, <1>3, <2>1, <2>2, ArtifactsKept DEF IInv
  <1>19. SanitizedOnly'
    BY <1>3, <1>7 DEF IInv, SanitizedOnly
  <1>20. Typed'
    BY <1>0, <1>3, <1>4, <1>7, <1>10, <1>12 DEF Typed, Runs
  <1> QED BY <1>8, <1>14, <1>15, <1>16, <1>17, <1>18, <1>19, <1>20 DEF IInv

-----------------------------------------------------------------------------
(* The theorems                                                            *)

LEMMA InitOk ==
    ASSUME Init
    PROVE  IInv
  <1>1. Typed
    <2>1. mention \in [Slots -> MentionRows]
      <3>1. \A s \in Slots : Info[s].manual \in BOOLEAN
        BY SlotsAssumption
      <3> QED BY <3>1 DEF Init, MentionRows
    <2>2. alias \in [Entities -> AliasRows]
      BY DEF Init, AliasRows, AllNames
    <2>3. candidate \in [Slots -> Proposals]
      BY DEF Init, NoRows, Proposals
    <2>4. trail \in [Slots -> Trails]
      BY DEF Init, Silent, Trails
    <2>5. document \in [Documents -> DocumentRows] /\ entity \in [Entities -> EntityRows]
      BY DEF Init, DocumentRows, Statuses, EntityRows
    <2> QED BY <2>1, <2>2, <2>3, <2>4, <2>5 DEF Init, Typed
  <1>2. MentionsSound /\ ProposalsActive /\ ConfirmationBinds /\ LinkForAssigned
    BY DEF Init, MentionsSound, ProposalsActive, ConfirmationBinds, LinkForAssigned, NoRows
  <1>3. RulesActive /\ RecordedExist /\ RulesFollow
    BY DEF Init, RulesActive, RecordedExist, RulesFollow
  <1>4. MergesEnd /\ Classed
    <2>1. \A e \in Entities : entity[e].status = "NONE"
      BY DEF Init
    <2> QED BY <2>1 DEF MergesEnd, Classed, Exists
  <1>5. SanitizedOnly /\ ArtifactMatches
    BY DEF Init, SanitizedOnly, ArtifactMatches
  <1> QED BY <1>1, <1>2, <1>3, <1>4, <1>5 DEF IInv

LEMMA StepOk ==
    ASSUME IInv, [Next]_vars
    PROVE  IInv'
  <1>1. CASE \E s \in Slots, e \in Entities : Assign(s, e)
    BY <1>1, AssignOk
  <1>2. CASE \E s \in Slots : Confirm(s)
    BY <1>2, ConfirmOk
  <1>3. CASE \E s \in Slots : Reject(s)
    BY <1>3, RejectOk
  <1>4. CASE \E s \in Slots : CreateManualMention(s)
    BY <1>4, CreateManualMentionOk
  <1>5. CASE \E s \in Slots, text \in Texts, type \in EntityTypes : CreateEntity(s, text, type)
    BY <1>5, CreateOk DEF CreateEntity
  <1>6. CASE \E s \in Slots, text \in Texts : Split(s, text)
    BY <1>6, SplitOk
  <1>7. CASE \E e \in Entities, text \in Texts : Rename(e, text)
    BY <1>7, RenameOk DEF Rename
  <1>8. CASE \E a, b \in Entities : Merge(a, b)
    BY <1>8, MergeOk DEF Merge
  <1>9. CASE \E a, b \in Entities, type \in RuleTypes : AddConstraint(a, b, type)
    BY <1>9, AddConstraintOk
  <1>10. CASE \E d \in Documents : Resolve(d)
    BY <1>10, ResolveOk
  <1>11. CASE \E d \in Documents : Sanitize(d)
    BY <1>11, SanitizeOk
  <1>12. CASE \E d \in Documents : ResolveFails(d) \/ SanitizeFails(d) \/ ToggleTrash(d)
    BY <1>12, FailsOk
  <1>13. CASE UNCHANGED vars
    <2>1. UNCHANGED <<document, mention, entity, alias, values, links, rules, candidate, trail,
                      recorded, artifact>>
      BY <1>13 DEF vars, identity
    <2>2. Typed /\ artifact' = artifact
      BY <2>1 DEF IInv
    <2>3. Typed' /\ MentionsSound' /\ ProposalsActive' /\ ConfirmationBinds' /\ LinkForAssigned'
      BY <2>1, <2>2 DEF IInv, Typed, MentionsSound, ProposalsActive, ConfirmationBinds,
                        LinkForAssigned, Active, Value
    <2>4. /\ MergesEnd' /\ Classed' /\ RulesActive' /\ RecordedExist' /\ RulesFollow'
          /\ \A e \in Entities : Active(e) => Active(e)'
      BY <2>1, <2>2, IdentitiesKept DEF IInv, Typed
    <2>5. SanitizedOnly' /\ ArtifactMatches'
      BY <2>1, <2>2, <2>4, ArtifactsKept DEF IInv, SanitizedOnly, Spelled
    <2> QED BY <2>3, <2>4, <2>5 DEF IInv
  <1> QED BY <1>1, <1>2, <1>3, <1>4, <1>5, <1>6, <1>7, <1>8, <1>9, <1>10, <1>11, <1>12, <1>13
          DEF Next, ReviewRequest, DocumentStep, RuleTypes

\* Every row of the review refers to rows that are there, in every instance: what
\* mentions, proposals and rules name is active, merges end, and artifacts are
\* those of sanitized Documents.
THEOREM Inductive == Spec => []IInv
  BY InitOk, StepOk, PTL DEF Spec

\* A hard rule of the user binds for ever, through any merges (mergeEntities).
THEOREM RulesBind == Spec => []RulesFollow
  <1>1. IInv => RulesFollow
    BY DEF IInv
  <1> QED BY <1>1, Inductive, PTL

\* A merged Entity is out of use, and the chain of its merges ends at an active
\* Entity of its type (mergedIntoEntityId).
THEOREM MergedOutOfUse == Spec => []NoGhosts
  <1>1. ASSUME IInv PROVE NoGhosts
    <2> SUFFICES ASSUME NEW e \in Entities, entity[e].status = "MERGED"
                 PROVE  /\ \A s \in Slots : mention[s].entity # e /\ candidate[s][e] # "PENDING"
                        /\ RulesOf(e) = {}
                        /\ Active(Canonical(e)) /\ entity[Canonical(e)].type = entity[e].type
      BY DEF NoGhosts
    <2>1. ~Active(e) /\ Exists(e) /\ e # Null
      BY EntitiesFacts DEF Active, Exists
    <2>2. \A s \in Slots : mention[s].entity # e /\ candidate[s][e] # "PENDING"
      BY <1>1, <2>1 DEF IInv, MentionsSound, ProposalsActive
    <2>3. RulesOf(e) = {}
      BY <1>1, <2>1 DEF IInv, RulesActive, RulesOf
    <2>4. Active(Canonical(e)) /\ entity[Canonical(e)].type = entity[e].type
      BY <1>1, <2>1, MergesFacts DEF IInv
    <2> QED BY <2>2, <2>3, <2>4
  <1> QED BY <1>1, Inductive, PTL

\* A confirmation is of the Entity that the mention has (assignMention).
THEOREM ConfirmationBound == Spec => []ConfirmationBinds
  <1>1. IInv => ConfirmationBinds
    BY DEF IInv
  <1> QED BY <1>1, Inductive, PTL

\* The Entity of an accepted mention holds its value, however the mention came to
\* it and whatever was rejected or merged besides (entity_protected_values).
THEOREM IdentityIsFound == Spec => []LinkForAssigned
  <1>1. IInv => LinkForAssigned
    BY DEF IInv
  <1> QED BY <1>1, Inductive, PTL

\* What a sanitized Document says can be restored (findRehydrationMappings).
THEOREM Restorable == Spec => []ArtifactMatches
  <1>1. IInv => ArtifactMatches
    BY DEF IInv
  <1> QED BY <1>1, Inductive, PTL

\* What sanitization will need of a mention: an active Entity has a primary alias,
\* and from resolution on exactly what could be protected has its value.
Prepared ==
    /\ \A e \in Entities : Active(e) => alias[e].primary # Null
    /\ \A s \in Slots : mention[s].valued => Valued(s)
    /\ \A s \in Slots :
          /\ mention[s].live /\ Valued(s)
          /\ document[Info[s].doc].status \notin {"DETECTED", "RESOLVE_FAILED"}
          => mention[s].valued

LEMMA PreparedInit ==
    ASSUME Init
    PROVE  Prepared
  <1>1. \A s \in Slots : Info[s].doc \in Documents
    BY SlotsAssumption
  <1>2. \A s \in Slots : document[Info[s].doc].status = "DETECTED" /\ ~mention[s].valued
    BY <1>1 DEF Init
  <1>3. \A e \in Entities : ~Active(e)
    BY DEF Init, Active
  <1> QED BY <1>2, <1>3 DEF Prepared

\* Steps that leave the values of the mentions alone.
LEMMA PreparedKept ==
    ASSUME Prepared,
           \A e \in Entities : Active(e)' => \/ Active(e) /\ alias'[e] = alias[e]
                                           \/ alias'[e].primary # Null,
           \A s \in Slots : /\ mention'[s].live <=> mention[s].live
                            /\ mention'[s].valued <=> mention[s].valued,
           \A d \in Documents : document[d].status \in {"DETECTED", "RESOLVE_FAILED"} =>
                                   document'[d].status \in {"DETECTED", "RESOLVE_FAILED"}
    PROVE  Prepared'
  <1>1. \A s \in Slots : Info[s].doc \in Documents
    BY SlotsAssumption
  <1>2. \A e \in Entities : Active(e)' => alias'[e].primary # Null
    BY DEF Prepared
  <1>3. \A s \in Slots : mention'[s].valued => Valued(s)
    BY DEF Prepared
  <1>4. \A s \in Slots :
          /\ mention'[s].live /\ Valued(s)
          /\ document'[Info[s].doc].status \notin {"DETECTED", "RESOLVE_FAILED"}
          => mention'[s].valued
    BY <1>1 DEF Prepared
  <1> QED BY <1>2, <1>3, <1>4 DEF Prepared, Valued

LEMMA PreparedResolve ==
    ASSUME IInv, Prepared, NEW d \in Documents, Resolve(d)
    PROVE  Prepared'
  <1>0. Typed
    BY DEF IInv
  <1>1. PICK run : run = ResolvedRun(d)
    OBVIOUS
  <1>2. RunOk(d, run) /\ \A s \in Live(d) : Valued(s) => run.mention[s].valued
    <2>1. {s \in Live(d) : Info[s].type \in NameTypes} = NamesOf(Live(d))
      BY DEF NamesOf
    <2>2. Cardinality(Free) >= Cardinality(NamesOf(Live(d)))
      BY <2>1 DEF Resolve
    <2> QED BY <1>0, <1>1, <2>2, ResolvedOk DEF IInv
  <1>3. /\ entity' = run.entity /\ alias' = run.alias /\ mention' = run.mention
        /\ document' = [document EXCEPT ![d].status = "READY"]
    BY <1>1 DEF Resolve, InsertIdentities
  <1>4. \A e \in Entities : Active(e)' => alias'[e].primary # Null
    BY <1>2, <1>3 DEF RunOk, EntityPlanned, ActiveIn, Active, Exists, Prepared
  <1>5. ASSUME NEW s \in Slots
        PROVE  /\ mention'[s].valued => Valued(s)
               /\ /\ mention'[s].live /\ Valued(s)
                  /\ document'[Info[s].doc].status \notin {"DETECTED", "RESOLVE_FAILED"}
                  => mention'[s].valued
    <2>1. MentionPlanned(d, run, s)
      BY <1>2 DEF RunOk
    <2>2. mention'[s].valued => Valued(s)
      BY <1>3, <2>1 DEF MentionPlanned, Prepared
    <2>3. CASE Info[s].doc = d
      <3>1. mention'[s].live = mention[s].live
        BY <1>3, <2>1 DEF MentionPlanned
      <3>2. mention'[s].live => s \in Live(d)
        BY <2>3, <3>1 DEF Live, SlotsOf
      <3> QED BY <1>2, <1>3, <2>2, <3>2
    <2>4. CASE Info[s].doc # d
      <3>1. document'[Info[s].doc] = document[Info[s].doc]
        BY <1>0, <1>3, <2>4, SlotsAssumption DEF Typed
      <3>2. s \notin Live(d)
        BY <2>4 DEF Live, SlotsOf
      <3>3. mention'[s] = mention[s]
        BY <1>3, <2>1, <3>2 DEF MentionPlanned
      <3> QED BY <2>2, <3>1, <3>3 DEF Prepared
    <2> QED BY <2>2, <2>3, <2>4
  <1> QED BY <1>4, <1>5 DEF Prepared, Valued

LEMMA PreparedStep ==
    ASSUME IInv, Prepared, [Next]_vars
    PROVE  Prepared'
  <1>0. mention \in [Slots -> MentionRows] /\ entity \in [Entities -> EntityRows]
        /\ alias \in [Entities -> AliasRows] /\ document \in [Documents -> DocumentRows]
    BY DEF IInv, Typed
  <1>1. ASSUME UNCHANGED <<entity, alias, document>>, NEW s \in Slots, NEW e, NEW review,
               mention' = [mention EXCEPT ![s].entity = e, ![s].review = review]
        PROVE  Prepared'
    <2>1. \A t \in Slots : /\ mention'[t].live <=> mention[t].live
                           /\ mention'[t].valued <=> mention[t].valued
      BY <1>0, <1>1 DEF MentionRows
    <2> QED BY <1>1, <2>1, PreparedKept DEF Active
  <1>2. CASE \E s \in Slots, e \in Entities : Assign(s, e)
    BY <1>1, <1>2 DEF Assign, Reassigned
  <1>3. CASE \E s \in Slots : Reject(s)
    BY <1>1, <1>3 DEF Reject
  <1>4. CASE \E s \in Slots : Confirm(s)
    <2>1. UNCHANGED <<entity, alias, document>>
      BY <1>4 DEF Confirm, identity
    <2>2. \A t \in Slots : /\ mention'[t].live <=> mention[t].live
                           /\ mention'[t].valued <=> mention[t].valued
      BY <1>0, <1>4 DEF Confirm, MentionRows
    <2> QED BY <2>1, <2>2, PreparedKept DEF Active
  <1>5. CASE \E s \in Slots : CreateManualMention(s)
    <2>1. PICK s \in Slots : Valued(s) /\ mention' = [mention EXCEPT ![s].live = TRUE, ![s].valued = TRUE]
                             /\ UNCHANGED <<entity, alias, document>>
      BY <1>5 DEF CreateManualMention, InsertManualMention
    <2>2. mention'[s].valued /\ \A t \in Slots \ {s} : mention'[t] = mention[t]
      BY <1>0, <2>1 DEF MentionRows
    <2> QED BY <2>1, <2>2 DEF Prepared, Active, Valued
  <1>6. ASSUME NEW s \in Slots, NEW text \in Texts, NEW type, CreateEntityWithAssignment(s, text, type)
        PROVE  Prepared'
    <2>1. PICK e \in Entities :
             /\ entity' = [entity EXCEPT ![e] = [status |-> "ACTIVE", type |-> type, into |-> Null]]
             /\ alias' = [alias EXCEPT ![e].primary = text] /\ mention' = Reassigned(s, e)
             /\ document' = document
      <3>1. FirstOf(Free) \in Entities
        <4>1. Free \subseteq Entities /\ Free # {}
          BY <1>6 DEF Free, CreateEntityWithAssignment
        <4> QED BY <4>1, FirstOfFacts
      <3> QED BY <1>6, <3>1 DEF CreateEntityWithAssignment
    <2>2. alias'[e].primary # Null
      BY <1>0, <2>1, EntitiesAssumption DEF AliasRows
    <2>3. \A f \in Entities \ {e} : entity'[f] = entity[f] /\ alias'[f] = alias[f]
      BY <1>0, <2>1
    <2>4. \A t \in Slots : /\ mention'[t].live <=> mention[t].live
                           /\ mention'[t].valued <=> mention[t].valued
      BY <1>0, <2>1 DEF Reassigned, MentionRows
    <2>5. \A f \in Entities : Active(f)' => \/ Active(f) /\ alias'[f] = alias[f]
                                            \/ alias'[f].primary # Null
      BY <2>2, <2>3 DEF Active
    <2> QED BY <2>1, <2>4, <2>5, PreparedKept
  <1>7. CASE \E s \in Slots, text \in Texts :
                Split(s, text) \/ \E type \in EntityTypes : CreateEntity(s, text, type)
    BY <1>6, <1>7 DEF Split, CreateEntity
  <1>8. CASE \E e \in Entities, text \in Texts : Rename(e, text)
    <2>1. PICK e \in Entities, text \in Texts :
             alias' = [alias EXCEPT ![e] = [primary |-> text, former |-> Spelled(e) \ {text}]]
             /\ UNCHANGED <<entity, mention, document>>
      BY <1>8 DEF Rename, RenameEntity
    <2>2. alias'[e].primary # Null /\ \A f \in Entities \ {e} : alias'[f] = alias[f]
      BY <1>0, <2>1, EntitiesAssumption
    <2> QED BY <2>1, <2>2, PreparedKept DEF Active
  <1>9. CASE \E a, b \in Entities : Merge(a, b)
    <2>1. PICK a \in Entities, b \in Entities :
             /\ mention' = MovedMentions(a, b) /\ UNCHANGED <<alias, document>>
             /\ entity' = [entity EXCEPT ![a].status = "MERGED", ![a].into = b]
      BY <1>9 DEF Merge, MergeEntities
    <2>2. \A f \in Entities : Active(f)' => Active(f)
      BY <1>0, <2>1 DEF Active, EntityRows
    <2>3. \A t \in Slots : /\ mention'[t].live <=> mention[t].live
                           /\ mention'[t].valued <=> mention[t].valued
      BY <1>0, <2>1 DEF MovedMentions, MentionRows
    <2> QED BY <2>1, <2>2, <2>3, PreparedKept
  <1>10. CASE \E a, b \in Entities, type \in RuleTypes : AddConstraint(a, b, type)
    <2>1. UNCHANGED <<entity, alias, mention, document>>
      BY <1>10 DEF AddConstraint
    <2> QED BY <2>1, PreparedKept DEF Active
  <1>11. CASE \E d \in Documents : Resolve(d)
    BY <1>11, PreparedResolve
  <1>12. CASE \E d \in Documents : Sanitize(d) \/ ResolveFails(d) \/ SanitizeFails(d) \/ ToggleTrash(d)
    <2>1. PICK d \in Documents : Sanitize(d) \/ ResolveFails(d) \/ SanitizeFails(d) \/ ToggleTrash(d)
      BY <1>12
    <2>2. UNCHANGED <<entity, alias, mention>>
      BY <2>1 DEF Sanitize, ResolveFails, SanitizeFails, ToggleTrash, identity
    <2>3. \A f \in Documents : document[f].status \in {"DETECTED", "RESOLVE_FAILED"} =>
                               document'[f].status \in {"DETECTED", "RESOLVE_FAILED"}
      BY <1>0, <2>1 DEF Sanitize, ResolveFails, SanitizeFails, ToggleTrash, CanSanitize,
                        DocumentRows
    <2> QED BY <2>2, <2>3, PreparedKept DEF Active
  <1>13. CASE UNCHANGED vars
    <2>1. UNCHANGED <<entity, alias, mention, document>>
      BY <1>13 DEF vars, identity
    <2> QED BY <2>1, PreparedKept DEF Active
  <1> QED BY <1>2, <1>3, <1>4, <1>5, <1>7, <1>8, <1>9, <1>10, <1>11, <1>12, <1>13
          DEF Next, ReviewRequest, DocumentStep, RuleTypes

\* Once a Document is resolved, only what was detected without a value to protect
\* blocks its sanitization, and always does, in the preview as in the service
\* (blockerReason, sanitize), whatever the review of the Matter did.
THEOREM OnlyDetected == Spec => []OnlyDetectionBlocks
  <1>1. Init => Prepared
    BY PreparedInit
  <1>2. IInv /\ Prepared /\ [Next]_vars => Prepared'
    BY PreparedStep
  <1>3. ASSUME IInv, Prepared PROVE OnlyDetectionBlocks
    <2> SUFFICES ASSUME NEW d \in Documents, CanSanitize(d)
                 PROVE  /\ Preview(d).blockers = {s \in Accepted(d) : ~Valued(s)}
                        /\ \A s \in Accepted(d) : Replaceable(s) <=> Valued(s)
      BY DEF OnlyDetectionBlocks
    <2>1. ASSUME NEW s \in Accepted(d)
          PROVE  (Replaceable(s) <=> Valued(s)) /\ (Blocks(s) <=> ~Valued(s))
      <3>1. s \in Slots /\ mention[s].live /\ Info[s].doc = d
        BY DEF Accepted, Live, SlotsOf
      <3>2. mention[s].valued <=> Valued(s)
        BY <1>3, <3>1 DEF Prepared, CanSanitize
      <3>3. mention[s].entity # Null =>
              Active(mention[s].entity) /\ alias[mention[s].entity].primary # Null
        BY <1>3, <3>1, SlotTypes DEF IInv, MentionsSound, Prepared, MentionRows
      <3>4. Valued(s) => Protectable(Info[s].type)
        BY DEF Valued
      <3> QED BY <3>2, <3>3, <3>4 DEF Replaceable, Blocks
    <2>2. Preview(d).blockers = {s \in Accepted(d) : Blocks(s)}
      BY DEF Preview, CanSanitize
    <2> QED BY <2>1, <2>2
  <1> QED BY <1>1, <1>2, <1>3, Inductive, PTL DEF Spec

SilentTwin(s) ==
    /\ mention[s].entity = Null /\ mention'[s].entity \in Free /\ trail'[s].actor = "SYSTEM"
    /\ ~\A e \in Entities :
          Active(e) /\ entity[e].type = Info[s].type /\ <<e, Value(s)>> \in links
          => \E t \in Live(Info[s].doc), v \in values :
                /\ Info[t].type = "ID_CARD" /\ v[1] = "ID_CARD"
                /\ <<e, v>> \in links /\ v \notin PlannedValues(Info[s].doc)

LEMMA ResolveMakesNoTwin ==
    ASSUME IInv, NEW d \in Documents, Resolve(d), NEW s \in Slots
    PROVE  ~SilentTwin(s)
  <1> SUFFICES ASSUME mention[s].entity = Null, mention'[s].entity \in Free,
                      NEW e \in Entities, Active(e), entity[e].type = Info[s].type,
                      <<e, Value(s)>> \in links
               PROVE  \E t \in Live(Info[s].doc), v \in values :
                         /\ Info[t].type = "ID_CARD" /\ v[1] = "ID_CARD"
                         /\ <<e, v>> \in links /\ v \notin PlannedValues(Info[s].doc)
    BY DEF SilentTwin
  <1>0. Typed
    BY DEF IInv
  <1>1. PICK run : run = ResolvedRun(d) /\ mention' = run.mention
    BY DEF Resolve
  <1>2. RunOk(d, run)
    <2>1. {t \in Live(d) : Info[t].type \in NameTypes} = NamesOf(Live(d))
      BY DEF NamesOf
    <2>2. Cardinality(Free) >= Cardinality(NamesOf(Live(d)))
      BY <2>1 DEF Resolve
    <2> QED BY <1>0, <1>1, <2>2, ResolvedOk DEF IInv
  <1>3. Info[s].type \in NameTypes
    BY DEF IInv, Classed, Active, Exists, NameTypes, EntityTypes
  <1>4. run.mention[s].entity # mention[s].entity /\ ~Exists(run.mention[s].entity)
    BY <1>1, EntitiesFacts DEF Free, Exists
  <1>5. Conflicts(Info[s].doc, e)
    BY <1>2, <1>3, <1>4 DEF RunOk, MentionPlanned, NoTwin
  <1>6. \E t \in Live(Info[s].doc) : Info[t].type = "ID_CARD"
    <2>1. PICK v \in PlannedValues(Info[s].doc) : v[1] = "ID_CARD"
      BY <1>5 DEF Conflicts
    <2>2. PICK t \in Live(Info[s].doc) : v = Value(t)
      BY DEF PlannedValues
    <2> QED BY <2>1, <2>2 DEF Value
  <1>7. PICK v : v[1] = "ID_CARD" /\ <<e, v>> \in links /\ v \notin PlannedValues(Info[s].doc)
    BY <1>5 DEF Conflicts
  <1>8. v \in values
    BY <1>0, <1>7 DEF Typed
  <1> QED BY <1>6, <1>7, <1>8

\* A second Entity of one name is made only against contradicting cards (proposeResolution).
THEOREM TwinNeedsCards == Spec => NoSilentTwin
  <1>1. ASSUME IInv, [Next]_vars, NEW s \in Slots PROVE ~SilentTwin(s)
    <2> SUFFICES ASSUME mention[s].entity = Null, mention'[s].entity \in Free,
                        trail'[s].actor = "SYSTEM"
                 PROVE  ~SilentTwin(s)
      BY DEF SilentTwin
    <2>0. /\ mention \in [Slots -> MentionRows] /\ trail \in [Slots -> Trails]
          /\ mention'[s].entity # Null /\ mention'[s] # mention[s]
          /\ ~Active(mention'[s].entity)
      BY <1>1, EntitiesFacts DEF IInv, Typed, Free, Active
    <2>1. CASE \E d \in Documents : Resolve(d)
      BY <1>1, <2>1, ResolveMakesNoTwin
    <2>2. CASE UNCHANGED mention
      BY <2>0, <2>2
    <2>3. ASSUME NEW t \in Slots, NEW e \in Entities, mention' = Reassigned(t, e),
                 trail' = UserAssigns(t, e)
          PROVE  FALSE
      BY <2>0, <2>3 DEF Reassigned, UserAssigns
    <2>4. CASE \E t \in Slots : Reject(t)
      BY <2>0, <2>4 DEF Reject
    <2>5. CASE \E t \in Slots : Confirm(t)
      BY <2>0, <2>5 DEF Confirm, MentionRows
    <2>6. CASE \E t \in Slots : CreateManualMention(t)
      BY <2>0, <2>6 DEF CreateManualMention, InsertManualMention, MentionRows
    <2>7. CASE \E a, b \in Entities : Merge(a, b)
      <3>1. PICK a \in Entities, b \in Entities : mention' = MovedMentions(a, b)
        BY <2>7 DEF Merge, MergeEntities
      <3>2. mention[s].entity # a
        BY <3>1, EntitiesFacts
      <3>3. mention'[s] = mention[s]
        BY <3>1, <3>2 DEF MovedMentions
      <3> QED BY <2>0, <3>3
    <2>8. CASE \E t \in Slots, e \in Entities : Assign(t, e)
      BY <2>3, <2>8 DEF Assign
    <2>9. ASSUME NEW t \in Slots, NEW text, NEW type, CreateEntityWithAssignment(t, text, type)
          PROVE  FALSE
      <3>1. FirstOf(Free) \in Entities
        <4>1. Free \subseteq Entities /\ Free # {}
          BY <2>9 DEF Free, CreateEntityWithAssignment
        <4> QED BY <4>1, FirstOfFacts
      <3> QED BY <2>3, <2>9, <3>1 DEF CreateEntityWithAssignment
    <2>10. CASE \E t \in Slots, text \in Texts : Split(t, text) \/ \E type \in EntityTypes : CreateEntity(t, text, type)
      BY <2>9, <2>10 DEF Split, CreateEntity
    <2>11. CASE \E e \in Entities, text \in Texts : Rename(e, text)
      BY <2>2, <2>11 DEF Rename, RenameEntity
    <2>12. CASE \E a, b \in Entities, type \in RuleTypes : AddConstraint(a, b, type)
      BY <2>2, <2>12 DEF AddConstraint
    <2>13. CASE \E d \in Documents : Sanitize(d) \/ ResolveFails(d) \/ SanitizeFails(d) \/ ToggleTrash(d)
      BY <2>2, <2>13 DEF Sanitize, ResolveFails, SanitizeFails, ToggleTrash
    <2>14. CASE UNCHANGED vars
      BY <2>2, <2>14 DEF vars
    <2> QED BY <1>1, <2>1, <2>4, <2>5, <2>6, <2>7, <2>8, <2>10, <2>11, <2>12, <2>13, <2>14
            DEF Next, ReviewRequest, DocumentStep, RuleTypes
  <1>2. ASSUME IInv, [Next]_vars
        PROVE  [\A s \in Slots : ~SilentTwin(s)]_vars
    BY <1>1, <1>2
  <1>3. [\A s \in Slots : ~SilentTwin(s)]_vars =>
        [\A s \in Slots :
          /\ mention[s].entity = Null /\ mention'[s].entity \in Free
          /\ trail'[s].actor = "SYSTEM"
          => \A e \in Entities :
                Active(e) /\ entity[e].type = Info[s].type /\ <<e, Value(s)>> \in links
                => \E t \in Live(Info[s].doc), v \in values :
                      /\ Info[t].type = "ID_CARD" /\ v[1] = "ID_CARD"
                      /\ <<e, v>> \in links /\ v \notin PlannedValues(Info[s].doc)]_vars
    BY DEF SilentTwin
  <1> QED BY <1>2, <1>3, Inductive, PTL DEF Spec, NoSilentTwin

\* An Entity that was not merged stands for itself.
LEMMA Unmerged ==
    ASSUME Typed, MergesEnd, NEW e \in Entities, entity[e].status # "MERGED"
    PROVE  Canonical(e) = e
  <1> DEFINE N == Cardinality(Entities)
  <1>1. N \in Nat
    BY EntitiesFacts
  <1>2. PICK next \in [Entities -> Entities] : next = Successor
    BY MergesFacts
  <1>3. next[e] = e
    BY <1>2 DEF Successor
  <1>4. Iterated(next, e, N)[0] = e
    BY <1>1, IteratedFacts
  <1>5. next[Iterated(next, e, N)[0]] = Iterated(next, e, N)[0] /\ 0 \in 0..N /\ N \in 0..N
    BY <1>1, <1>3, <1>4
  <1>6. \A n \in 0..N : Iterated(next, e, N)[n] = Iterated(next, e, N)[0]
    BY <1>1, <1>5, IteratedStays
  <1> QED BY <1>2, <1>4, <1>5, <1>6 DEF Canonical

\* The log names Entities that exist.
LogTold ==
    /\ LogTellsAssignment
    /\ \A s \in Slots : trail[s].entity # Null => trail[s].entity \in Entities /\ Exists(trail[s].entity)

LogRight(s) == mention[s].entity = IF trail[s].entity = Null THEN Null ELSE Canonical(trail[s].entity)

\* A step that is no merge logs the Entity it gives to a mention.
LEMMA LogKept ==
    ASSUME IInv, LogTold, IInv',
           \A e \in Entities : \/ entity'[e] = entity[e]
                               \/ ~Exists(e) /\ entity'[e].status = "ACTIVE",
           \A s \in Slots : \/ trail'[s].entity = trail[s].entity /\ mention'[s].entity = mention[s].entity
                            \/ trail'[s].entity = mention'[s].entity
    PROVE  LogTold'
  <1>1. /\ \A e \in Entities : Canonical(e)' = Canonical(e)
        /\ \A e \in Entities : (Exists(e) => Exists(e)') /\ (Active(e) => Active(e)')
    BY MergesKept DEF IInv, Typed
  <1>2. ASSUME NEW s \in Slots
        PROVE  /\ LogRight(s)'
               /\ trail'[s].entity # Null =>
                    trail'[s].entity \in Entities /\ entity'[trail'[s].entity].status # "NONE"
    <2>1. PICK e : e = trail'[s].entity
      OBVIOUS
    <2>2. PICK f : f = mention'[s].entity
      OBVIOUS
    <2>3. CASE e = trail[s].entity /\ f = mention[s].entity
      <3>1. f = IF e = Null THEN Null ELSE Canonical(e)
        BY <2>3 DEF LogTold, LogTellsAssignment
      <3>2. e # Null => e \in Entities /\ Exists(e)
        BY <2>3 DEF LogTold
      <3>3. e # Null => Canonical(e)' = Canonical(e) /\ Exists(e)'
        BY <1>1, <3>2
      <3> QED BY <2>1, <2>2, <3>1, <3>2, <3>3 DEF Exists, LogRight, Canonical
    <2>4. CASE e = f
      <3>1. e # Null => e \in Entities /\ entity'[e].status = "ACTIVE"
        BY <2>2, <2>4 DEF IInv, Typed, MentionRows, MentionsSound, Active
      <3>2. ASSUME e # Null PROVE Canonical(e)' = e
        <4>1. e \in Entities /\ entity[e].status # "MERGED"
          BY <3>1, <3>2 DEF Exists
        <4>2. Canonical(e) = e
          BY <4>1, Unmerged DEF IInv
        <4> QED BY <1>1, <4>1, <4>2
      <3> QED BY <2>1, <2>2, <2>4, <3>1, <3>2 DEF LogRight, Canonical
    <2>5. (e = trail[s].entity /\ f = mention[s].entity) \/ e = f
      BY <2>1, <2>2
    <2> QED BY <2>3, <2>4, <2>5
  <1> QED BY <1>2 DEF LogTold, LogTellsAssignment, LogRight, Exists, Canonical

LEMMA LogStep ==
    ASSUME IInv, LogTold, [Next]_vars
    PROVE  LogTold'
  <1>0. IInv' /\ Typed /\ mention \in [Slots -> MentionRows] /\ trail \in [Slots -> Trails]
    BY StepOk DEF IInv, Typed
  <1>1. ASSUME entity' = entity,
               \A s \in Slots :
                  \/ trail'[s].entity = trail[s].entity /\ mention'[s].entity = mention[s].entity
                  \/ trail'[s].entity = mention'[s].entity
        PROVE  LogTold'
    BY <1>0, <1>1, LogKept
  <1>2. ASSUME NEW s \in Slots, NEW e, mention' = Reassigned(s, e), trail' = UserAssigns(s, e)
        PROVE  \A t \in Slots :
                  \/ trail'[t].entity = trail[t].entity /\ mention'[t].entity = mention[t].entity
                  \/ trail'[t].entity = mention'[t].entity
    <2> SUFFICES ASSUME NEW t \in Slots
                 PROVE  \/ trail'[t].entity = trail[t].entity /\ mention'[t].entity = mention[t].entity
                        \/ trail'[t].entity = mention'[t].entity
      OBVIOUS
    <2>1. CASE t = s
      <3>1. trail'[s].entity = e
        BY <1>0, <1>2 DEF UserAssigns
      <3>2. mention'[s].entity = e
        BY <1>0, <1>2 DEF Reassigned, MentionRows
      <3> QED BY <2>1, <3>1, <3>2
    <2>2. CASE t # s
      BY <1>0, <1>2, <2>2 DEF UserAssigns, Reassigned
    <2> QED BY <2>1, <2>2
  <1>3. CASE \E s \in Slots, e \in Entities : Assign(s, e)
    <2>1. PICK s \in Slots, e \in Entities : Assign(s, e)
      BY <1>3
    <2> QED BY <1>1, <1>2, <2>1 DEF Assign
  <1>4. ASSUME NEW s \in Slots, NEW text, NEW type, CreateEntityWithAssignment(s, text, type)
        PROVE  LogTold'
    <2>1. PICK e \in Free : e = FirstOf(Free)
      BY <1>4, FirstOfFacts DEF CreateEntityWithAssignment, Free
    <2>2. entity' = [entity EXCEPT ![e] = [status |-> "ACTIVE", type |-> type, into |-> Null]]
          /\ mention' = Reassigned(s, e) /\ trail' = UserAssigns(s, e)
      BY <1>4, <2>1 DEF CreateEntityWithAssignment
    <2>3. \A f \in Entities : \/ entity'[f] = entity[f]
                              \/ ~Exists(f) /\ entity'[f].status = "ACTIVE"
      BY <1>0, <2>1, <2>2 DEF Typed, Free, Exists
    <2> QED BY <1>0, <1>2, <2>2, <2>3, LogKept
  <1>5. CASE \E s \in Slots : Reject(s)
    <2>1. PICK s \in Slots : Reject(s)
      BY <1>5
    <2>2. trail'[s].entity = Null /\ mention'[s].entity = Null /\ entity' = entity
      BY <1>0, <2>1 DEF Reject, UserRejects, MentionRows
    <2>3. \A t \in Slots \ {s} : trail'[t] = trail[t] /\ mention'[t] = mention[t]
      BY <1>0, <2>1 DEF Reject, UserRejects
    <2> QED BY <1>1, <2>2, <2>3
  <1>6. CASE \E s \in Slots : Confirm(s) \/ CreateManualMention(s)
    <2>1. PICK s \in Slots : Confirm(s) \/ CreateManualMention(s)
      BY <1>6
    <2>2. entity' = entity
      BY <2>1 DEF Confirm, CreateManualMention, InsertManualMention, identity
    <2>3. trail'[s].entity = trail[s].entity
      BY <1>0, <2>1 DEF Confirm, UserConfirms, CreateManualMention, InsertManualMention, Trails
    <2>4. mention'[s].entity = mention[s].entity
      BY <1>0, <2>1 DEF Confirm, CreateManualMention, InsertManualMention, MentionRows
    <2>5. \A t \in Slots \ {s} : trail'[t] = trail[t] /\ mention'[t] = mention[t]
      BY <1>0, <2>1 DEF Confirm, UserConfirms, CreateManualMention, InsertManualMention
    <2> QED BY <1>1, <2>2, <2>3, <2>4, <2>5
  <1>7. CASE UNCHANGED <<mention, trail, entity>>
    BY <1>1, <1>7
  <1>8. CASE \E d \in Documents : Resolve(d)
    <2>1. PICK d \in Documents : Resolve(d)
      BY <1>8
    <2>2. PICK run : run = ResolvedRun(d)
      OBVIOUS
    <2>3. RunOk(d, run)
      <3>1. {s \in Live(d) : Info[s].type \in NameTypes} = NamesOf(Live(d))
        BY DEF NamesOf
      <3>2. Cardinality(Free) >= Cardinality(NamesOf(Live(d)))
        BY <2>1, <3>1 DEF Resolve
      <3> QED BY <2>2, <3>2, ResolvedOk DEF IInv
    <2>4. entity' = run.entity /\ mention' = run.mention /\ trail' = TrailAfterResolution(run)
      BY <2>1, <2>2 DEF Resolve, InsertIdentities
    <2>5. \A e \in Entities : \/ entity'[e] = entity[e]
                              \/ ~Exists(e) /\ entity'[e].status = "ACTIVE"
      BY <2>3, <2>4 DEF RunOk, EntityPlanned, ActiveIn
    <2>6. ASSUME NEW s \in Slots
          PROVE  \/ trail'[s].entity = trail[s].entity /\ mention'[s].entity = mention[s].entity
                 \/ trail'[s].entity = mention'[s].entity
      <3>1. trail'[s] = IF run.mention[s].entity # mention[s].entity
                        THEN [trail[s] EXCEPT !.entity = run.mention[s].entity, !.actor = "SYSTEM"]
                        ELSE trail[s]
        BY <2>4 DEF TrailAfterResolution
      <3> QED BY <1>0, <2>4, <3>1 DEF Trails
    <2> QED BY <1>0, <2>5, <2>6, LogKept
  <1>9. CASE \E a, b \in Entities : Merge(a, b)
    <2>1. PICK a \in Entities, b \in Entities : MergeEntities(a, b)
      BY <1>9 DEF Merge
    <2>2. /\ a # b /\ Active(a) /\ Active(b) /\ entity[a].type = entity[b].type
          /\ entity' = [entity EXCEPT ![a].status = "MERGED", ![a].into = b]
          /\ mention' = MovedMentions(a, b) /\ trail' = trail /\ a # Null
      BY <2>1, EntitiesFacts DEF MergeEntities
    <2>3. \A e \in Entities : Exists(e) =>
             Canonical(e)' = IF Canonical(e) = a THEN b ELSE Canonical(e)
      BY <2>2, MergesMoved DEF IInv
    <2>4. ASSUME NEW e \in Entities, Exists(e) PROVE entity'[e].status # "NONE"
      BY <1>0, <2>2, <2>4 DEF Typed, EntityRows, Exists
    <2>5. ASSUME NEW s \in Slots
          PROVE  /\ LogRight(s)'
                 /\ trail'[s].entity # Null =>
                      trail'[s].entity \in Entities /\ entity'[trail'[s].entity].status # "NONE"
      <3>1. PICK e : e = trail[s].entity
        OBVIOUS
      <3>2. mention[s].entity = (IF e = Null THEN Null ELSE Canonical(e))
            /\ (e # Null => e \in Entities /\ Exists(e))
        BY <3>1 DEF LogTold, LogTellsAssignment
      <3>3. mention'[s].entity = IF mention[s].entity = a THEN b ELSE mention[s].entity
        BY <1>0, <2>2 DEF MovedMentions, MentionRows
      <3>4. trail'[s].entity = e
        BY <2>2, <3>1
      <3>5. e # Null => Canonical(e)' = IF Canonical(e) = a THEN b ELSE Canonical(e)
        BY <2>3, <3>2
      <3>6. mention'[s].entity = IF e = Null THEN Null ELSE Canonical(e)'
        BY <2>2, <3>2, <3>3, <3>5
      <3>7. e # Null => e \in Entities /\ entity'[e].status # "NONE"
        BY <2>4, <3>2
      <3> QED BY <3>4, <3>6, <3>7 DEF LogRight, Canonical
    <2> QED BY <2>5 DEF LogTold, LogTellsAssignment, LogRight, Exists, Canonical
  <1>10. CASE \E s \in Slots, text \in Texts : Split(s, text) \/ \E type \in EntityTypes : CreateEntity(s, text, type)
    BY <1>4, <1>10 DEF Split, CreateEntity
  <1>11. CASE \E e \in Entities, text \in Texts : Rename(e, text)
    BY <1>7, <1>11 DEF Rename, RenameEntity
  <1>12. CASE \E a, b \in Entities, type \in RuleTypes : AddConstraint(a, b, type)
    BY <1>7, <1>12 DEF AddConstraint
  <1>13. CASE \E d \in Documents : Sanitize(d) \/ ResolveFails(d) \/ SanitizeFails(d) \/ ToggleTrash(d)
    BY <1>7, <1>13 DEF Sanitize, ResolveFails, SanitizeFails, ToggleTrash, identity
  <1>14. CASE UNCHANGED vars
    BY <1>7, <1>14 DEF vars, identity
  <1> QED BY <1>3, <1>5, <1>6, <1>8, <1>9, <1>10, <1>11, <1>12, <1>13, <1>14
          DEF Next, ReviewRequest, DocumentStep, RuleTypes

\* The audit log explains every assignment: follow the merges from the Entity of
\* the last assignment event (the events of assignMention, resolve and reject).
THEOREM LogExplains == Spec => []LogTellsAssignment
  <1>1. ASSUME Init PROVE LogTold
    BY <1>1 DEF Init, LogTold, LogTellsAssignment, Silent
  <1>2. LogTold => LogTellsAssignment
    BY DEF LogTold
  <1>3. Spec => []LogTold
    <2>1. IInv /\ LogTold /\ [Next]_vars => LogTold'
      BY LogStep
    <2> QED BY <1>1, <2>1, Inductive, PTL DEF Spec
  <1> QED BY <1>2, <1>3, PTL

\* No path changes a mention of a Document that is sanitized or in the trash
\* (assertDocumentReviewMutable and the guards of complete and merge).
THEOREM ClosedStays == Spec => ReviewClosed
  <1>1. ASSUME IInv, [Next]_vars, NEW s \in Slots,
               document[Info[s].doc].trashed \/ document[Info[s].doc].status = "SANITIZED"
        PROVE  mention'[s] = mention[s]
    <2>0. mention \in [Slots -> MentionRows] /\ ~DocumentReviewMutable(Info[s].doc)
          /\ ~CanResolve(Info[s].doc)
      BY <1>1 DEF IInv, Typed, DocumentReviewMutable, CanResolve
    <2>1. ASSUME NEW t \in Slots, DocumentReviewMutable(Info[t].doc) PROVE t # s
      BY <2>0, <2>1
    <2>2. CASE \E t \in Slots, e \in Entities : Assign(t, e)
      BY <2>0, <2>1, <2>2 DEF Assign, Edit, Reassigned
    <2>3. CASE \E t \in Slots : Confirm(t) \/ Reject(t)
      BY <2>0, <2>1, <2>3 DEF Confirm, Reject, Edit
    <2>4. CASE \E t \in Slots : CreateManualMention(t)
      BY <2>0, <2>1, <2>4 DEF CreateManualMention, InsertManualMention
    <2>5. ASSUME NEW t \in Slots, NEW text, NEW type, CreateEntityWithAssignment(t, text, type)
          PROVE  mention'[s] = mention[s]
      BY <2>0, <2>1, <2>5 DEF CreateEntityWithAssignment, Edit, Reassigned
    <2>6. CASE \E t \in Slots, text \in Texts : Split(t, text) \/ \E type \in EntityTypes : CreateEntity(t, text, type)
      BY <2>5, <2>6 DEF Split, CreateEntity
    <2>7. CASE \E a, b \in Entities : Merge(a, b)
      BY <2>0, <2>7 DEF Merge, MergeEntities, MovedMentions, AffectedMutable
    <2>8. CASE \E d \in Documents : Resolve(d)
      <3>1. PICK d \in Documents : Resolve(d)
        BY <2>8
      <3>2. RunOk(d, ResolvedRun(d))
        <4>1. {t \in Live(d) : Info[t].type \in NameTypes} = NamesOf(Live(d))
          BY DEF NamesOf
        <4>2. Cardinality(Free) >= Cardinality(NamesOf(Live(d)))
          BY <3>1, <4>1 DEF Resolve
        <4> QED BY <1>1, <4>2, ResolvedOk DEF IInv
      <3>3. MentionPlanned(d, ResolvedRun(d), s) /\ mention' = ResolvedRun(d).mention
            /\ CanResolve(d)
        BY <3>1, <3>2 DEF RunOk, Resolve
      <3>4. s \notin Live(d)
        BY <2>0, <3>3 DEF Live, SlotsOf
      <3> QED BY <3>3, <3>4 DEF MentionPlanned
    <2>9. CASE UNCHANGED mention
      BY <2>9
    <2>10. CASE \E e \in Entities, text \in Texts : Rename(e, text)
      BY <2>9, <2>10 DEF Rename, RenameEntity
    <2>11. CASE \E a, b \in Entities, type \in RuleTypes : AddConstraint(a, b, type)
      BY <2>9, <2>11 DEF AddConstraint
    <2>12. CASE \E d \in Documents : Sanitize(d) \/ ResolveFails(d) \/ SanitizeFails(d) \/ ToggleTrash(d)
      BY <2>9, <2>12 DEF Sanitize, ResolveFails, SanitizeFails, ToggleTrash
    <2>13. CASE UNCHANGED vars
      BY <2>9, <2>13 DEF vars
    <2> QED BY <1>1, <2>2, <2>3, <2>4, <2>6, <2>7, <2>8, <2>10, <2>11, <2>12, <2>13
            DEF Next, ReviewRequest, DocumentStep, RuleTypes
  <1>2. IInv /\ [Next]_vars =>
          [\A s \in Slots :
             document[Info[s].doc].trashed \/ document[Info[s].doc].status = "SANITIZED"
             => mention'[s] = mention[s]]_vars
    BY <1>1
  <1>3. [\A s \in Slots :
             document[Info[s].doc].trashed \/ document[Info[s].doc].status = "SANITIZED"
             => mention'[s] = mention[s]]_vars =>
        [\A s \in Slots :
          LET d == document[Info[s].doc]
          IN  d.trashed \/ d.status = "SANITIZED" => mention'[s] = mention[s]]_vars
    OBVIOUS
  <1> QED BY <1>2, <1>3, Inductive, PTL DEF Spec, ReviewClosed

-----------------------------------------------------------------------------
(* The decision rules                                                      *)

\* What one row says of the candidates it stands for.
Usables(m, cs) == {i \in DOMAIN cs : Usable(m, cs[i])}

ProposedRows ==
    [entity : Parties, type : EntityTypes, active : BOOLEAN, ev : Evidence,
     score : Score, hard : HardRules]

\* One row for every Entity proposed: its highest score, and its strongest rule.
Sums(R, m, cs) ==
    /\ \A r \in R : r.score \in Score /\ r.hard \in HardRules /\ r.first \in Nat
    /\ \A r, o \in R : r.entity = o.entity \/ r.first = o.first => r = o
    /\ \A i \in Usables(m, cs) : \E r \in R : r.entity = cs[i].entity
    /\ \A r \in R : \E i \in Usables(m, cs) : cs[i].entity = r.entity /\ cs[i].score = r.score
    /\ \A r \in R, i \in Usables(m, cs) : cs[i].entity = r.entity => cs[i].score <= r.score
    /\ \A r \in R : r.hard = "CANNOT_LINK" <=>
          \E i \in Usables(m, cs) : cs[i].entity = r.entity /\ cs[i].hard = "CANNOT_LINK"
    /\ \A r \in R : r.hard = "MUST_LINK" <=>
          /\ \E i \in Usables(m, cs) : cs[i].entity = r.entity /\ cs[i].hard = "MUST_LINK"
          /\ ~\E i \in Usables(m, cs) : cs[i].entity = r.entity /\ cs[i].hard = "CANNOT_LINK"

LEMMA MaxOf ==
    ASSUME NEW T, T \subseteq Score, T # {}
    PROVE  Max(T) \in T /\ \A x \in T : x <= Max(T)
  <1> DEFINE Gaps == {400 - x : x \in T}
  <1>1. Gaps \subseteq Nat /\ Gaps # {}
    <2>1. ASSUME NEW x \in T PROVE 400 - x \in Nat
      <3>1. x \in 0..400
        BY DEF Score
      <3> QED BY <3>1
    <2> QED BY <2>1
  <1>2. PICK g \in Gaps : \A h \in Gaps : g <= h
    <2> HIDE DEF Gaps
    <2> QED BY <1>1, Least
  <1>3. PICK x \in T : g = 400 - x
    BY <1>2
  <1>4. \A y \in T : x >= y
    <2> TAKE y \in T
    <2>1. g <= 400 - y /\ x \in Int /\ y \in Int
      BY <1>2 DEF Score
    <2> QED BY <1>3, <2>1
  <1>5. \E z \in T : \A y \in T : z >= y
    BY <1>4
  <1>6. Max(T) \in T /\ \A y \in T : Max(T) >= y
    BY <1>5 DEF Max
  <1>7. ASSUME NEW y \in T PROVE y <= Max(T)
    <2>1. PICK n \in T : n = Max(T)
      BY <1>6
    <2>2. n >= y /\ n \in Int /\ y \in Int
      BY <1>6, <2>1 DEF Score
    <2> QED BY <2>1, <2>2
  <1> QED BY <1>6, <1>7

LEMMA RowsSum ==
    ASSUME NEW m, NEW cs \in Seq(ProposedRows)
    PROVE  Sums(NormalizeCandidates(m, cs), m, cs)
  <1> DEFINE usable == Usables(m, cs)
             Rows(e) == {i \in usable : cs[i].entity = e}
             Scores(e) == {cs[i].score : i \in Rows(e)}
             Hards(e) == {cs[i].hard : i \in Rows(e)}
             First(e) == CHOOSE i \in Rows(e) : \A j \in Rows(e) : i <= j
             Collapsed(e) ==
                [entity |-> e, score |-> Max(Scores(e)), hard |-> Strongest(Hards(e)),
                 first |-> First(e)]
             R == NormalizeCandidates(m, cs)
  <1>1. R = {Collapsed(cs[i].entity) : i \in usable}
    BY DEF NormalizeCandidates, Usables
  <1>2. \A i \in usable : i \in Nat /\ cs[i] \in ProposedRows
    BY DEF Usables
  <1>3. \A i \in usable : cs[i].score \in Score /\ cs[i].hard \in HardRules
    BY <1>2 DEF ProposedRows
  <1> HIDE DEF usable, R
  <1>4. ASSUME NEW k \in usable
        PROVE  LET e == cs[k].entity
               IN  /\ First(e) \in Rows(e)
                   /\ Max(Scores(e)) \in Scores(e) /\ \A x \in Scores(e) : x <= Max(Scores(e))
                   /\ Hards(e) \subseteq HardRules /\ Hards(e) # {}
    <2> DEFINE e == cs[k].entity
    <2>1. k \in Rows(e) /\ Rows(e) \subseteq Nat
      BY <1>2
    <2>2. \E i \in Rows(e) : \A j \in Rows(e) : i <= j
      <3> HIDE DEF Rows, e
      <3> QED BY <2>1, Least
    <2>3. First(e) \in Rows(e)
      <3> HIDE DEF Rows, e
      <3> QED BY <2>2
    <2>4. Scores(e) \subseteq Score /\ Scores(e) # {} /\ Hards(e) \subseteq HardRules /\ Hards(e) # {}
      BY <1>3, <2>1
    <2>5. Max(Scores(e)) \in Scores(e) /\ \A x \in Scores(e) : x <= Max(Scores(e))
      <3> HIDE DEF Scores, e
      <3> QED BY <2>4, MaxOf
    <2> QED BY <2>3, <2>4, <2>5
  <1> HIDE DEF First
  <1>5. ASSUME NEW k \in usable, NEW r, r = Collapsed(cs[k].entity)
        PROVE  LET e == cs[k].entity
               IN  /\ r.entity = e /\ r.first \in Rows(e)
                   /\ r.score \in Scores(e) /\ \A x \in Scores(e) : x <= r.score
                   /\ r.hard \in HardRules
                   /\ r.hard = "CANNOT_LINK" <=> "CANNOT_LINK" \in Hards(e)
                   /\ r.hard = "MUST_LINK" <=> "MUST_LINK" \in Hards(e) /\ "CANNOT_LINK" \notin Hards(e)
    <2>1. /\ r.entity = cs[k].entity /\ r.first = First(cs[k].entity)
          /\ r.score = Max(Scores(cs[k].entity)) /\ r.hard = Strongest(Hards(cs[k].entity))
      BY <1>5
    <2> HIDE DEF Scores, Rows, Hards
    <2>2. /\ r.hard \in HardRules
          /\ r.hard = "CANNOT_LINK" <=> "CANNOT_LINK" \in Hards(cs[k].entity)
          /\ r.hard = "MUST_LINK" <=>
                "MUST_LINK" \in Hards(cs[k].entity) /\ "CANNOT_LINK" \notin Hards(cs[k].entity)
      BY <2>1 DEF Strongest, HardRules
    <2> QED BY <1>4, <2>1, <2>2
  <1>6. ASSUME NEW r \in R
        PROVE  /\ r.score \in Score /\ r.hard \in HardRules /\ r.first \in Nat
               /\ r.first \in usable /\ cs[r.first].entity = r.entity
               /\ r = Collapsed(r.entity)
               /\ \E i \in usable : cs[i].entity = r.entity /\ cs[i].score = r.score
               /\ \A i \in usable : cs[i].entity = r.entity => cs[i].score <= r.score
               /\ r.hard = "CANNOT_LINK" <=>
                     \E i \in usable : cs[i].entity = r.entity /\ cs[i].hard = "CANNOT_LINK"
               /\ r.hard = "MUST_LINK" <=>
                     /\ \E i \in usable : cs[i].entity = r.entity /\ cs[i].hard = "MUST_LINK"
                     /\ ~\E i \in usable : cs[i].entity = r.entity /\ cs[i].hard = "CANNOT_LINK"
    <2>1. PICK k \in usable : r = Collapsed(cs[k].entity)
      BY <1>1
    <2>0. r.entity = cs[k].entity
      BY <2>1
    <2> HIDE DEF Collapsed, Rows, Scores, Hards
    <2>2. /\ r.first \in Rows(r.entity)
          /\ r.score \in Scores(r.entity) /\ \A x \in Scores(r.entity) : x <= r.score
          /\ r.hard \in HardRules
          /\ r.hard = "CANNOT_LINK" <=> "CANNOT_LINK" \in Hards(r.entity)
          /\ r.hard = "MUST_LINK" <=>
                "MUST_LINK" \in Hards(r.entity) /\ "CANNOT_LINK" \notin Hards(r.entity)
      BY <1>5, <2>0, <2>1
    <2> USE DEF Rows, Scores, Hards
    <2>3. r.first \in usable /\ cs[r.first].entity = r.entity
      BY <2>2
    <2>4. \E i \in usable : cs[i].entity = r.entity /\ cs[i].score = r.score
      BY <2>2
    <2>5. \A i \in usable : cs[i].entity = r.entity => cs[i].score <= r.score
      BY <2>2
    <2>6. \A h : h \in Hards(r.entity) <=> \E i \in usable : cs[i].entity = r.entity /\ cs[i].hard = h
      OBVIOUS
    <2>7. r.score \in Score /\ r.first \in Nat
      BY <1>2, <1>3, <2>3, <2>4
    <2> HIDE DEF Hards, Rows, Scores
    <2>8. r = Collapsed(r.entity)
      BY <2>0, <2>1
    <2>9. /\ r.hard = "CANNOT_LINK" <=>
                \E i \in usable : cs[i].entity = r.entity /\ cs[i].hard = "CANNOT_LINK"
          /\ r.hard = "MUST_LINK" <=>
                /\ \E i \in usable : cs[i].entity = r.entity /\ cs[i].hard = "MUST_LINK"
                /\ ~\E i \in usable : cs[i].entity = r.entity /\ cs[i].hard = "CANNOT_LINK"
      BY <2>2, <2>6
    <2> QED BY <2>2, <2>3, <2>4, <2>5, <2>7, <2>8, <2>9
  <1> HIDE DEF Collapsed
  <1>7. \A r, o \in R : r.entity = o.entity \/ r.first = o.first => r = o
    BY <1>6
  <1>8. ASSUME NEW i \in usable PROVE \E r \in R : r.entity = cs[i].entity
    <2>1. Collapsed(cs[i].entity) \in R
      BY <1>1
    <2>2. Collapsed(cs[i].entity).entity = cs[i].entity
      BY <1>5
    <2> QED BY <2>1, <2>2
  <1> QED BY <1>6, <1>7, <1>8 DEF Sums, usable, R

\* The row that is linked: the only Must-Link, or a row that no other eligible
\* row comes near.
Wins(m, R, r) ==
    /\ r \in R
    /\ \/ {c \in R : c.hard = "MUST_LINK"} = {r}
       \/ /\ \A c \in R : c.hard # "MUST_LINK"
          /\ r.hard # "CANNOT_LINK" /\ m.type # "PERSON" /\ r.score >= 90
          /\ \A o \in R \ {r} : o.hard # "CANNOT_LINK" => r.score - o.score >= 15

Reviewed(m, R) ==
    \/ \E c \in R : c.hard = "MUST_LINK"
    \/ \E c \in R : c.hard # "CANNOT_LINK" /\ (c.score >= 65 \/ MayCreateEntity(m))

\* The decision, from the rows alone.
DecisionOf(m, R) ==
    IF \E r \in R : Wins(m, R, r) THEN "AUTO_LINK"
    ELSE IF Reviewed(m, R) THEN "REVIEW"
    ELSE IF MayCreateEntity(m) /\ \A c \in R : c.hard = "CANNOT_LINK" THEN "NEW_ENTITY"
    ELSE "UNRESOLVED"

RowSet(R) ==
    /\ \A r \in R : r.score \in Score /\ r.hard \in HardRules /\ r.first \in Nat
    /\ \A r, o \in R : r.entity = o.entity \/ r.first = o.first => r = o

\* The strongest row leads by the margin exactly when it comes before all
\* others by that much.
LEMMA AutoLinks ==
    ASSUME NEW m, NEW E, RowSet(E), E # {}
    PROVE  /\ Top(E) \in E
           /\ MayAutoLink(m, E) <=>
                 /\ m.type # "PERSON" /\ Top(E).score >= 90
                 /\ \A o \in E \ {Top(E)} : Top(E).score - o.score >= 15
           /\ \A r \in E : (r.score >= 90 /\ \A o \in E \ {r} : r.score - o.score >= 15) => r = Top(E)
           /\ Top(E).score >= 65 <=> \E r \in E : r.score >= 65
  <1> DEFINE others == E \ {Top(E)}
  <1>1. Top(E) \in E /\ \A r \in others : Higher(Top(E), r)
    BY TopOf DEF RowSet
  <1>2. PICK top \in E : top = Top(E)
    BY <1>1
  <1>3. \A r \in E : r.score \in Int /\ r.score >= 0
    BY DEF RowSet, Score
  <1>4. \A r \in others : top.score >= r.score
    BY <1>1, <1>2, <1>3 DEF Higher
  <1>5. (top.score >= 90 /\ Margin(E) >= 15) <=>
            top.score >= 90 /\ \A o \in others : top.score - o.score >= 15
    <2>1. CASE others = {}
      <3>1. Margin(E) = top.score - 0
        BY <1>2, <2>1 DEF Margin
      <3> QED BY <1>3, <2>1, <3>1
    <2>2. CASE others # {}
      <3>1. Top(others) \in others /\ \A r \in others \ {Top(others)} : Higher(Top(others), r)
        <4>1. RowSet(others)
          BY DEF RowSet
        <4> HIDE DEF others
        <4> QED BY <2>2, <4>1, TopOf DEF RowSet
      <3>2. PICK second \in others : second = Top(others)
        BY <3>1
      <3>3. Margin(E) = top.score - second.score
        BY <1>2, <2>2, <3>2 DEF Margin
      <3>4. \A r \in others : second.score >= r.score
        BY <1>3, <3>1, <3>2 DEF Higher
      <3> HIDE DEF others
      <3>5. \A r \in others : r \in E
        BY DEF others
      <3> QED BY <1>3, <3>2, <3>3, <3>4, <3>5
    <2> QED BY <2>1, <2>2
  <1>6. ASSUME NEW r \in E, r.score >= 90, \A o \in E \ {r} : r.score - o.score >= 15
        PROVE  r = top
    <2> SUFFICES ASSUME r # top PROVE FALSE
      OBVIOUS
    <2>1. top.score >= r.score /\ r.score - top.score >= 15
      BY <1>2, <1>4, <1>6
    <2> QED BY <1>3, <2>1
  <1>7. top.score >= 65 <=> \E r \in E : r.score >= 65
    <2>1. ASSUME NEW r \in E, r.score >= 65 PROVE top.score >= 65
      <3>1. CASE r = top
        BY <2>1, <3>1
      <3>2. CASE r # top
        BY <1>2, <1>3, <1>4, <2>1, <3>2
      <3> QED BY <3>1, <3>2
    <2> QED BY <2>1
  <1> QED BY <1>2, <1>5, <1>6, <1>7 DEF MayAutoLink

LEMMA Decides ==
    ASSUME NEW m, NEW cs, RowSet(NormalizeCandidates(m, cs))
    PROVE  LET decided == ProposeResolution(m, cs)
               R == NormalizeCandidates(m, cs)
           IN  /\ decided.decision = DecisionOf(m, R)
               /\ \A r \in R : Wins(m, R, r) => decided.candidate = r.entity
  <1> DEFINE decided == ProposeResolution(m, cs)
             R == NormalizeCandidates(m, cs)
             must == {c \in R : c.hard = "MUST_LINK"}
             eligible == {c \in R : c.hard # "CANNOT_LINK"}
             create == MayCreateEntity(m)
  <1>1. decided = IF must # {}
        THEN Decided(IF must = {Top(must)} THEN "AUTO_LINK" ELSE "REVIEW", Top(must).entity, R)
        ELSE IF eligible = {}
        THEN Decided(IF create THEN "NEW_ENTITY" ELSE "UNRESOLVED", Nobody, R)
        ELSE IF MayAutoLink(m, eligible)
        THEN Decided("AUTO_LINK", Top(eligible).entity, R)
        ELSE IF Top(eligible).score >= 65 \/ create
        THEN Decided("REVIEW", Top(eligible).entity, R)
        ELSE Decided("UNRESOLVED", Nobody, R)
    BY DEF ProposeResolution
  <1> SUFFICES /\ decided.decision = DecisionOf(m, R)
               /\ \A r \in R : Wins(m, R, r) => decided.candidate = r.entity
    OBVIOUS
  <1> HIDE DEF R, decided
  <1>2. \A d, e, x : Decided(d, e, x).decision = d /\ Decided(d, e, x).candidate = e
    BY DEF Decided
  <1>3. RowSet(must) /\ RowSet(eligible)
    BY DEF RowSet, R
  <1>4. CASE must # {}
    <2>1. Top(must) \in must
      BY <1>3, <1>4, AutoLinks
    <2>2. \A r \in R : Wins(m, R, r) <=> must = {r}
      BY <1>4 DEF Wins
    <2>3. (\E r \in R : must = {r}) <=> must = {Top(must)}
      BY <2>1
    <2>4. Reviewed(m, R)
      BY <1>4 DEF Reviewed
    <2> HIDE DEF must, eligible
    <2>5. decided.decision = (IF must = {Top(must)} THEN "AUTO_LINK" ELSE "REVIEW")
      BY <1>1, <1>2, <1>4
    <2>6. decided.candidate = Top(must).entity
      BY <1>1, <1>2, <1>4
    <2>7. \A r \in R : must = {r} => Top(must) = r
      BY <2>1
    <2> QED BY <2>2, <2>3, <2>4, <2>5, <2>6, <2>7 DEF DecisionOf
  <1>5. CASE must = {} /\ eligible = {}
    <2>1. \A r \in R : ~Wins(m, R, r)
      BY <1>5 DEF Wins
    <2>2. ~Reviewed(m, R) /\ \A c \in R : c.hard = "CANNOT_LINK"
      BY <1>5 DEF Reviewed
    <2>3. decided.decision = (IF create THEN "NEW_ENTITY" ELSE "UNRESOLVED")
      BY <1>1, <1>2, <1>5
    <2> QED BY <2>1, <2>2, <2>3 DEF DecisionOf
  <1>6. CASE must = {} /\ eligible # {}
    <2>1. /\ Top(eligible) \in eligible
          /\ MayAutoLink(m, eligible) <=>
                 /\ m.type # "PERSON" /\ Top(eligible).score >= 90
                 /\ \A o \in eligible \ {Top(eligible)} : Top(eligible).score - o.score >= 15
          /\ \A r \in eligible :
                (r.score >= 90 /\ \A o \in eligible \ {r} : r.score - o.score >= 15) => r = Top(eligible)
          /\ Top(eligible).score >= 65 <=> \E r \in eligible : r.score >= 65
      <3> HIDE DEF eligible
      <3> QED BY <1>3, <1>6, AutoLinks
    <2>2. \A r \in R : Wins(m, R, r) <=>
            /\ r \in eligible /\ m.type # "PERSON" /\ r.score >= 90
            /\ \A o \in eligible \ {r} : r.score - o.score >= 15
      BY <1>6 DEF Wins
    <2>3. Reviewed(m, R) <=> Top(eligible).score >= 65 \/ create
      BY <1>6, <2>1 DEF Reviewed
    <2>4. ~(\A c \in R : c.hard = "CANNOT_LINK")
      BY <1>6
    <2>5. \A r \in eligible : r \in R
      OBVIOUS
    <2> HIDE DEF must, eligible, create
    <2>6. decided = IF MayAutoLink(m, eligible)
            THEN Decided("AUTO_LINK", Top(eligible).entity, R)
            ELSE IF Top(eligible).score >= 65 \/ create
            THEN Decided("REVIEW", Top(eligible).entity, R)
            ELSE Decided("UNRESOLVED", Nobody, R)
      BY <1>1, <1>6
    <2>7. (\E r \in R : Wins(m, R, r)) <=> MayAutoLink(m, eligible)
      BY <2>1, <2>2, <2>5
    <2>8. \A r \in R : Wins(m, R, r) => r = Top(eligible) /\ MayAutoLink(m, eligible)
      BY <2>1, <2>2, <2>7
    <2> QED BY <1>2, <2>3, <2>4, <2>6, <2>7, <2>8 DEF DecisionOf
  <1> HIDE DEF must, eligible
  <1> QED BY <1>4, <1>5, <1>6

Alike(r, o) == r.entity = o.entity /\ r.score = o.score /\ r.hard = o.hard

LEMMA WinsAlike ==
    ASSUME NEW m, NEW R, NEW O, RowSet(R), RowSet(O),
           \A r \in R : \E o \in O : Alike(r, o), \A o \in O : \E r \in R : Alike(r, o),
           NEW r \in R, Wins(m, R, r)
    PROVE  \E o \in O : Wins(m, O, o) /\ o.entity = r.entity
  <1>1. PICK o \in O : Alike(r, o)
    OBVIOUS
  <1>2. ASSUME {c \in R : c.hard = "MUST_LINK"} = {r}
        PROVE  {c \in O : c.hard = "MUST_LINK"} = {o}
    <2>1. o.hard = "MUST_LINK"
      BY <1>1, <1>2 DEF Alike
    <2>2. ASSUME NEW p \in O, p.hard = "MUST_LINK" PROVE p = o
      <3>1. PICK q \in R : Alike(q, p)
        OBVIOUS
      <3>2. q = r
        BY <1>2, <2>2, <3>1 DEF Alike
      <3> QED BY <1>1, <3>1, <3>2 DEF Alike, RowSet
    <2> QED BY <2>1, <2>2
  <1>3. ASSUME \A c \in R : c.hard # "MUST_LINK" PROVE \A c \in O : c.hard # "MUST_LINK"
    BY <1>3 DEF Alike
  <1>4. ASSUME \A p \in R \ {r} : p.hard # "CANNOT_LINK" => r.score - p.score >= 15
        PROVE  \A p \in O \ {o} : p.hard # "CANNOT_LINK" => o.score - p.score >= 15
    <2> TAKE p \in O \ {o}
    <2>1. PICK q \in R : Alike(q, p)
      OBVIOUS
    <2>2. q # r
      BY <1>1, <2>1 DEF Alike, RowSet
    <2> QED BY <1>1, <1>4, <2>1, <2>2 DEF Alike
  <1> QED BY <1>1, <1>2, <1>3, <1>4 DEF Wins, Alike

LEMMA SameDecision ==
    ASSUME NEW m, NEW R, NEW O, RowSet(R), RowSet(O),
           \A r \in R : \E o \in O : Alike(r, o), \A o \in O : \E r \in R : Alike(r, o)
    PROVE  DecisionOf(m, R) = DecisionOf(m, O)
  <1>1. (\E r \in R : Wins(m, R, r)) <=> \E o \in O : Wins(m, O, o)
    <2>1. ASSUME NEW r \in R, Wins(m, R, r) PROVE \E o \in O : Wins(m, O, o)
      BY <2>1, WinsAlike
    <2>2. ASSUME NEW o \in O, Wins(m, O, o) PROVE \E r \in R : Wins(m, R, r)
      <3>1. \A p \in O : \E r \in R : Alike(p, r)
        BY DEF Alike
      <3>2. \A r \in R : \E p \in O : Alike(p, r)
        BY DEF Alike
      <3> QED BY <2>2, <3>1, <3>2, WinsAlike
    <2> QED BY <2>1, <2>2
  <1>2. Reviewed(m, R) <=> Reviewed(m, O)
    BY DEF Reviewed, Alike
  <1>3. (\A c \in R : c.hard = "CANNOT_LINK") <=> \A c \in O : c.hard = "CANNOT_LINK"
    BY DEF Alike
  <1> QED BY <1>1, <1>2, <1>3 DEF DecisionOf

LEMMA Summed ==
    ASSUME NEW m, NEW cs, NEW R, Sums(R, m, cs)
    PROVE  RowSet(R)
  BY DEF Sums, RowSet

\* The usable candidates of one list that speak for es are those of the other.
SameUsables(m, cs, os, es) ==
    /\ \A i \in Usables(m, cs) : cs[i].entity \in es => \E j \in Usables(m, os) : os[j] = cs[i]
    /\ \A j \in Usables(m, os) : os[j].entity \in es => \E i \in Usables(m, cs) : os[j] = cs[i]

\* Rows that sum up the same candidates are alike.
LEMMA SumsAlike ==
    ASSUME NEW m, NEW cs, NEW os, NEW R, NEW O, NEW es, Sums(R, m, cs), Sums(O, m, os),
           SameUsables(m, cs, os, es)
    PROVE  \A r \in R : r.entity \in es => \E o \in O : Alike(r, o)
  <1> SUFFICES ASSUME NEW r \in R, r.entity \in es PROVE \E o \in O : Alike(r, o)
    OBVIOUS
  <1>1. PICK i \in Usables(m, cs) : cs[i].entity = r.entity /\ cs[i].score = r.score
    BY DEF Sums
  <1>2. PICK j \in Usables(m, os) : os[j] = cs[i]
    BY <1>1 DEF SameUsables
  <1>3. PICK o \in O : o.entity = os[j].entity
    BY DEF Sums
  <1>4. PICK k \in Usables(m, os) : os[k].entity = o.entity /\ os[k].score = o.score
    BY DEF Sums
  <1>5. o.entity = r.entity
    BY <1>1, <1>2, <1>3
  <1>6. PICK l \in Usables(m, cs) : os[k] = cs[l]
    BY <1>4, <1>5 DEF SameUsables
  <1>7. o.score = r.score
    <2>1. r.score <= o.score
      BY <1>1, <1>2, <1>3 DEF Sums
    <2>2. o.score <= r.score
      BY <1>4, <1>5, <1>6 DEF Sums
    <2>3. PICK x, y \in Score : x = r.score /\ y = o.score
      BY DEF Sums
    <2> QED BY <2>1, <2>2, <2>3 DEF Score
  <1>8. \A h : (\E p \in Usables(m, cs) : cs[p].entity = r.entity /\ cs[p].hard = h) <=>
                \E p \in Usables(m, os) : os[p].entity = o.entity /\ os[p].hard = h
    BY <1>5 DEF SameUsables
  <1>9. /\ r.hard = "CANNOT_LINK" <=> o.hard = "CANNOT_LINK"
        /\ r.hard = "MUST_LINK" <=> o.hard = "MUST_LINK"
    <2>1. /\ r.hard = "CANNOT_LINK" <=>
                \E p \in Usables(m, cs) : cs[p].entity = r.entity /\ cs[p].hard = "CANNOT_LINK"
          /\ r.hard = "MUST_LINK" <=>
                /\ \E p \in Usables(m, cs) : cs[p].entity = r.entity /\ cs[p].hard = "MUST_LINK"
                /\ ~\E p \in Usables(m, cs) : cs[p].entity = r.entity /\ cs[p].hard = "CANNOT_LINK"
      BY DEF Sums
    <2>2. /\ o.hard = "CANNOT_LINK" <=>
                \E p \in Usables(m, os) : os[p].entity = o.entity /\ os[p].hard = "CANNOT_LINK"
          /\ o.hard = "MUST_LINK" <=>
                /\ \E p \in Usables(m, os) : os[p].entity = o.entity /\ os[p].hard = "MUST_LINK"
                /\ ~\E p \in Usables(m, os) : os[p].entity = o.entity /\ os[p].hard = "CANNOT_LINK"
      BY DEF Sums
    <2> QED BY <1>8, <2>1, <2>2
  <1>10. r.hard = o.hard
    <2>1. r.hard \in HardRules /\ o.hard \in HardRules
      BY DEF Sums
    <2> QED BY <1>9, <2>1 DEF HardRules
  <1> QED BY <1>5, <1>7, <1>10 DEF Alike

LEMMA RowsNamed ==
    ASSUME NEW m, NEW cs \in Seq(ProposedRows), NEW R, Sums(R, m, cs), NEW r \in R
    PROVE  r.entity \in Parties
  <1>1. PICK i \in Usables(m, cs) : cs[i].entity = r.entity
    BY DEF Sums
  <1>2. cs[i] \in ProposedRows
    BY DEF Usables
  <1> QED BY <1>1, <1>2 DEF ProposedRows

-----------------------------------------------------------------------------

RulesTyped == asked \in Tried /\ proposed \in Seq(ProposedRows)

LEMMA RulesTypedInd == RulesSpec => []RulesTyped
  <1>1. RulesInit => RulesTyped
    BY DEF RulesInit, RulesTyped
  <1>2. ASSUME RulesTyped, [RulesNext]_rulesVars PROVE RulesTyped'
    <2>1. CASE AddCandidate
      <3>1. PICK e \in Parties, ev \in Gathered, active \in BOOLEAN :
               proposed' = Append(proposed, CandidateOf(e, ev, active))
        BY <2>1 DEF AddCandidate
      <3>2. ev \in Evidence
        BY DEF Gathered
      <3>3. ScoreCandidate(asked.type, ev).score \in Score
               /\ ScoreCandidate(asked.type, ev).hard \in HardRules
        BY DEF ScoreCandidate, SoftScore, Score, HardRules
      <3>4. KindOf(e) \in EntityTypes
        BY DEF KindOf, EntityTypes
      <3>5. CandidateOf(e, ev, active) \in ProposedRows
        BY <3>2, <3>3, <3>4 DEF CandidateOf, ProposedRows
      <3> QED BY <2>1, <3>1, <3>5, <1>2 DEF AddCandidate, RulesTyped
    <2>2. CASE AddField \/ UNCHANGED rulesVars
      BY <1>2, <2>2 DEF AddField, rulesVars, RulesTyped
    <2> QED BY <1>2, <2>1, <2>2 DEF RulesNext
  <1> QED BY <1>1, <1>2, PTL DEF RulesSpec

Reordering(order, cs) ==
    /\ order \in [DOMAIN cs -> DOMAIN cs]
    /\ \A i, j \in DOMAIN cs : order[i] = order[j] => i = j

Reordered(cs, order) == [i \in DOMAIN cs |-> cs[order[i]]]

LEMMA OrderFacts ==
    ASSUME NEW m, NEW cs \in Seq(ProposedRows), NEW order, Reordering(order, cs)
    PROVE  /\ Reordered(cs, order) \in Seq(ProposedRows)
           /\ SameUsables(m, cs, Reordered(cs, order), Parties)
           /\ SameUsables(m, Reordered(cs, order), cs, Parties)
  <1> DEFINE D == DOMAIN cs
             os == Reordered(cs, order)
  <1>1. D = 1..Len(cs) /\ Len(cs) \in Nat /\ \A i \in D : cs[i] \in ProposedRows
    OBVIOUS
  <1> HIDE DEF D
  <1>2. os \in Seq(ProposedRows)
    <2>1. os \in [1..Len(cs) -> ProposedRows]
      BY <1>1 DEF D, Reordering, Reordered
    <2> QED BY <1>1, <2>1
  <1>3. IsFiniteSet(D)
    BY <1>1, FS_Interval
  <1>4. order \in Injection(D, D)
    BY DEF Injection, IsInjective, D, Reordering
  <1>5. order \in Surjection(D, D)
    BY <1>3, <1>4, FS_Injection
  <1>6. \A i \in D : \E j \in D : order[j] = i
    BY <1>5 DEF Surjection
  <1>7. DOMAIN os = D /\ \A j \in D : order[j] \in D /\ os[j] = cs[order[j]]
    BY DEF D, Reordering, Reordered
  <1> HIDE DEF os
  <1>8. \A i \in Usables(m, cs) : \E j \in Usables(m, os) : os[j] = cs[i]
    <2> TAKE i \in Usables(m, cs)
    <2>1. PICK j \in D : order[j] = i
      BY <1>6 DEF Usables, D
    <2>2. j \in Usables(m, os) /\ os[j] = cs[i]
      BY <1>7, <2>1 DEF Usables
    <2> QED BY <2>2
  <1>9. \A j \in Usables(m, os) : \E i \in Usables(m, cs) : os[j] = cs[i]
    BY <1>7 DEF Usables, D
  <1> QED BY <1>2, <1>8, <1>9 DEF os, D, SameUsables

LEMMA OrderedAlike ==
    ASSUME NEW m, NEW cs \in Seq(ProposedRows), NEW order, Reordering(order, cs)
    PROVE  LET this == ProposeResolution(m, cs)
               other == ProposeResolution(m, Reordered(cs, order))
           IN  /\ other.decision = this.decision
               /\ this.decision = "AUTO_LINK" => other.candidate = this.candidate
  <1> DEFINE os == Reordered(cs, order)
             R == NormalizeCandidates(m, cs)
             O == NormalizeCandidates(m, os)
             this == ProposeResolution(m, cs)
             other == ProposeResolution(m, os)
  <1>1. /\ os \in Seq(ProposedRows) /\ SameUsables(m, cs, os, Parties)
        /\ SameUsables(m, os, cs, Parties)
    BY OrderFacts
  <1> SUFFICES /\ other.decision = this.decision
               /\ this.decision = "AUTO_LINK" => other.candidate = this.candidate
    OBVIOUS
  <1> HIDE DEF os
  <1>2. Sums(R, m, cs) /\ Sums(O, m, os)
    BY <1>1, RowsSum
  <1>10. (\A r \in R : r.entity \in Parties) /\ \A o \in O : o.entity \in Parties
    BY <1>1, <1>2, RowsNamed
  <1>3. RowSet(R) /\ RowSet(O)
    BY <1>2, Summed
  <1>4. /\ this.decision = DecisionOf(m, R) /\ other.decision = DecisionOf(m, O)
        /\ \A r \in R : Wins(m, R, r) => this.candidate = r.entity
        /\ \A o \in O : Wins(m, O, o) => other.candidate = o.entity
    BY <1>3, Decides
  <1> HIDE DEF R, O, this, other
  <1>5. \A r \in R : \E o \in O : Alike(r, o)
    BY <1>1, <1>2, <1>10, SumsAlike
  <1>6. \A o \in O : \E r \in R : Alike(o, r)
    BY <1>1, <1>2, <1>10, SumsAlike
  <1>7. \A o \in O : \E r \in R : Alike(r, o)
    BY <1>6 DEF Alike
  <1>8. other.decision = this.decision
    BY <1>3, <1>4, <1>5, <1>7, SameDecision
  <1>9. ASSUME this.decision = "AUTO_LINK" PROVE other.candidate = this.candidate
    <2>1. PICK r \in R : Wins(m, R, r)
      BY <1>4, <1>9, Zenon DEF DecisionOf
    <2>2. PICK o \in O : Wins(m, O, o) /\ o.entity = r.entity
      BY <1>3, <1>5, <1>7, <2>1, WinsAlike
    <2> QED BY <1>4, <2>1, <2>2
  <1> QED BY <1>8, <1>9

\* The decision about a Mention, and the Entity it is linked to, do not depend
\* on the order in which the repositories list the candidates, however many
\* there are (proposeResolution, normalizeCandidates).
THEOREM AnyOrder == RulesSpec => []OrderIrrelevant
  <1>1. ASSUME RulesTyped PROVE OrderIrrelevant
    <2>1. PICK m, cs : m = asked /\ cs = proposed
      OBVIOUS
    <2>2. cs \in Seq(ProposedRows)
      BY <1>1, <2>1 DEF RulesTyped
    <2>3. \A order \in [DOMAIN cs -> DOMAIN cs] :
             (\A i, j \in DOMAIN cs : order[i] = order[j] => i = j) =>
                LET this == ProposeResolution(m, cs)
                    other == ProposeResolution(m, Reordered(cs, order))
                IN  /\ other.decision = this.decision
                    /\ this.decision = "AUTO_LINK" => other.candidate = this.candidate
      BY <2>2, OrderedAlike DEF Reordering
    <2> QED BY <2>1, <2>3 DEF OrderIrrelevant, Proposal, Reordered
  <1> QED BY <1>1, RulesTypedInd, PTL

\* The rows of other Entities stay, and that of e only rises.
GrownTo(R, O, e) ==
    /\ \A r \in R : \E o \in O :
          /\ o.entity = r.entity /\ o.score >= r.score
          /\ r.entity # e => Alike(r, o)
          /\ r.hard # "CANNOT_LINK" => o.hard # "CANNOT_LINK"
          /\ r.hard = "MUST_LINK" => o.hard = "MUST_LINK"
    /\ \A o \in O : o.entity # e => \E r \in R : Alike(r, o)

\* What one more candidate does that is no Cannot-Link.
LEMMA Grown ==
    ASSUME NEW m, NEW cs \in Seq(ProposedRows), NEW c \in ProposedRows, c.hard # "CANNOT_LINK",
           NEW R, NEW O, Sums(R, m, cs), Sums(O, m, Append(cs, c))
    PROVE  GrownTo(R, O, c.entity)
  <1> DEFINE os == Append(cs, c)
             n == Len(cs)
  <1>1. /\ os \in Seq(ProposedRows) /\ DOMAIN os = 1..(n + 1) /\ os[n + 1] = c
        /\ \A i \in DOMAIN cs : i \in DOMAIN os /\ os[i] = cs[i]
        /\ \A i \in DOMAIN os : i \in DOMAIN cs \/ i = n + 1
    OBVIOUS
  <1> HIDE DEF os, n
  <1>2. Sums(O, m, os)
    BY DEF os
  <1>3. \A i \in Usables(m, cs) : i \in Usables(m, os) /\ os[i] = cs[i]
    BY <1>1 DEF Usables
  <1>4. \A i \in Usables(m, os) : os[i].entity = c.entity \/ i \in Usables(m, cs)
    BY <1>1 DEF Usables
  <1>5. \A i \in Usables(m, os) : os[i].hard = "CANNOT_LINK" => i \in Usables(m, cs)
    BY <1>1 DEF Usables
  <1>6. SameUsables(m, cs, os, Parties \ {c.entity}) /\ SameUsables(m, os, cs, Parties \ {c.entity})
    BY <1>3, <1>4 DEF SameUsables
  <1>7. (\A r \in R : r.entity \in Parties) /\ \A o \in O : o.entity \in Parties
    BY <1>1, <1>2, RowsNamed
  <1>8. \A r \in R : r.entity # c.entity => \E o \in O : Alike(r, o)
    BY <1>2, <1>6, <1>7, SumsAlike
  <1>9. \A o \in O : o.entity # c.entity => \E r \in R : Alike(o, r)
    BY <1>2, <1>6, <1>7, SumsAlike
  <1>10. ASSUME NEW r \in R
         PROVE  \E o \in O :
                   /\ o.entity = r.entity /\ o.score >= r.score
                   /\ r.hard # "CANNOT_LINK" => o.hard # "CANNOT_LINK"
                   /\ r.hard = "MUST_LINK" => o.hard = "MUST_LINK"
    <2>1. PICK i \in Usables(m, cs) : cs[i].entity = r.entity /\ cs[i].score = r.score
      BY DEF Sums
    <2>2. PICK o \in O : o.entity = os[i].entity
      BY <1>2, <1>3, <2>1 DEF Sums
    <2>3. o.entity = r.entity
      BY <1>3, <2>1, <2>2
    <2>4. o.score >= r.score
      <3>1. r.score <= o.score
        BY <1>2, <1>3, <2>1, <2>2 DEF Sums
      <3>2. PICK x, y \in Score : x = r.score /\ y = o.score
        BY <1>2 DEF Sums
      <3> QED BY <3>1, <3>2 DEF Score
    <2>5. r.hard # "CANNOT_LINK" => o.hard # "CANNOT_LINK"
      <3>1. ASSUME o.hard = "CANNOT_LINK" PROVE r.hard = "CANNOT_LINK"
        <4>1. PICK j \in Usables(m, os) : os[j].entity = o.entity /\ os[j].hard = "CANNOT_LINK"
          BY <1>2, <3>1 DEF Sums
        <4>2. j \in Usables(m, cs) /\ cs[j].entity = r.entity /\ cs[j].hard = "CANNOT_LINK"
          BY <1>3, <1>5, <2>3, <4>1
        <4> QED BY <4>2 DEF Sums
      <3> QED BY <3>1
    <2>6. r.hard = "MUST_LINK" => o.hard = "MUST_LINK"
      <3>1. ASSUME r.hard = "MUST_LINK" PROVE o.hard = "MUST_LINK"
        <4>1. PICK j \in Usables(m, cs) : cs[j].entity = r.entity /\ cs[j].hard = "MUST_LINK"
          BY <3>1 DEF Sums
        <4>2. j \in Usables(m, os) /\ os[j].entity = o.entity /\ os[j].hard = "MUST_LINK"
          BY <1>3, <2>3, <4>1
        <4>3. o.hard # "CANNOT_LINK"
          BY <2>5, <3>1
        <4>4. ~\E k \in Usables(m, os) : os[k].entity = o.entity /\ os[k].hard = "CANNOT_LINK"
          BY <1>2, <4>3 DEF Sums
        <4>5. \A q \in O : q.hard = "MUST_LINK" <=>
                 /\ \E k \in Usables(m, os) : os[k].entity = q.entity /\ os[k].hard = "MUST_LINK"
                 /\ ~\E k \in Usables(m, os) : os[k].entity = q.entity /\ os[k].hard = "CANNOT_LINK"
          BY <1>2 DEF Sums
        <4> QED BY <4>2, <4>4, <4>5
      <3> QED BY <3>1
    <2> QED BY <2>3, <2>4, <2>5, <2>6
  <1>11. \A r \in R : \E o \in O :
                 /\ o.entity = r.entity /\ o.score >= r.score
                 /\ r.entity # c.entity => Alike(r, o)
                 /\ r.hard # "CANNOT_LINK" => o.hard # "CANNOT_LINK"
                 /\ r.hard = "MUST_LINK" => o.hard = "MUST_LINK"
    <2> TAKE r \in R
    <2>1. PICK o \in O : /\ o.entity = r.entity /\ o.score >= r.score
                         /\ r.hard # "CANNOT_LINK" => o.hard # "CANNOT_LINK"
                         /\ r.hard = "MUST_LINK" => o.hard = "MUST_LINK"
      BY <1>10
    <2>2. r.entity # c.entity => Alike(r, o)
      BY <1>2, <1>8, <2>1 DEF Sums, Alike
    <2> QED BY <2>1, <2>2
  <1> QED BY <1>9, <1>11 DEF Alike, GrownTo

LEMMA Competition ==
    ASSUME NEW m, NEW cs \in Seq(ProposedRows), NEW c \in ProposedRows, c.hard # "CANNOT_LINK",
           ProposeResolution(m, Append(cs, c)).decision = "AUTO_LINK",
           ProposeResolution(m, Append(cs, c)).candidate # c.entity
    PROVE  /\ ProposeResolution(m, cs).decision = "AUTO_LINK"
           /\ ProposeResolution(m, cs).candidate = ProposeResolution(m, Append(cs, c)).candidate
  <1> DEFINE os == Append(cs, c)
             R == NormalizeCandidates(m, cs)
             O == NormalizeCandidates(m, os)
             this == ProposeResolution(m, cs)
             other == ProposeResolution(m, os)
  <1>1. os \in Seq(ProposedRows)
    OBVIOUS
  <1>2. Sums(R, m, cs) /\ Sums(O, m, os)
    BY <1>1, RowsSum
  <1>3. RowSet(R) /\ RowSet(O)
    BY <1>2, Summed
  <1>4. /\ this.decision = DecisionOf(m, R) /\ other.decision = DecisionOf(m, O)
        /\ \A r \in R : Wins(m, R, r) => this.candidate = r.entity
        /\ \A o \in O : Wins(m, O, o) => other.candidate = o.entity
    BY <1>3, Decides
  <1>5. GrownTo(R, O, c.entity)
    BY <1>2, Grown
  <1>6. other.decision = "AUTO_LINK" /\ other.candidate # c.entity
    OBVIOUS
  <1> SUFFICES this.decision = "AUTO_LINK" /\ this.candidate = other.candidate
    OBVIOUS
  <1> HIDE DEF os, R, O, this, other
  <1>7. PICK o \in O : Wins(m, O, o)
    BY <1>4, <1>6, Zenon DEF DecisionOf
  <1>8. o.entity # c.entity
    BY <1>4, <1>6, <1>7
  <1>9. PICK top \in R : Alike(top, o)
    BY <1>5, <1>8 DEF GrownTo
  <1>10. ASSUME {p \in O : p.hard = "MUST_LINK"} = {o}
         PROVE  {r \in R : r.hard = "MUST_LINK"} = {top}
    <2>1. top.hard = "MUST_LINK"
      BY <1>9, <1>10 DEF Alike
    <2>2. ASSUME NEW r \in R, r.hard = "MUST_LINK" PROVE r = top
      <3>1. PICK p \in O : p.entity = r.entity /\ p.hard = "MUST_LINK"
        BY <1>5, <2>2 DEF GrownTo
      <3>2. p = o
        BY <1>10, <3>1
      <3> QED BY <1>3, <1>9, <3>1, <3>2 DEF Alike, RowSet
    <2> QED BY <2>1, <2>2
  <1>11. ASSUME \A p \in O : p.hard # "MUST_LINK" PROVE \A r \in R : r.hard # "MUST_LINK"
    BY <1>5, <1>11 DEF GrownTo
  <1>12. ASSUME o.score >= 90, \A p \in O \ {o} : p.hard # "CANNOT_LINK" => o.score - p.score >= 15
         PROVE  /\ top.score >= 90
                /\ \A r \in R \ {top} : r.hard # "CANNOT_LINK" => top.score - r.score >= 15
    <2>1. ASSUME NEW r \in R \ {top}, r.hard # "CANNOT_LINK" PROVE top.score - r.score >= 15
      <3>1. PICK p \in O : p.entity = r.entity /\ p.score >= r.score /\ p.hard # "CANNOT_LINK"
        BY <1>5, <2>1 DEF GrownTo
      <3>2. p # o
        BY <1>3, <1>9, <3>1 DEF Alike, RowSet
      <3>3. o.score - p.score >= 15
        BY <1>12, <3>1, <3>2
      <3>4. PICK x, y, z \in Score : x = r.score /\ y = p.score /\ z = o.score
        BY <1>3 DEF RowSet
      <3> QED BY <1>9, <3>1, <3>3, <3>4 DEF Alike, Score
    <2> QED BY <1>9, <1>12, <2>1 DEF Alike
  <1>13. Wins(m, R, top)
    BY <1>7, <1>9, <1>10, <1>11, <1>12 DEF Wins, Alike
  <1>14. this.decision = "AUTO_LINK"
    BY <1>4, <1>13, Zenon DEF DecisionOf
  <1> QED BY <1>4, <1>7, <1>9, <1>13, <1>14 DEF Alike

\* However many candidates there are, one more that is not a Cannot-Link never
\* makes proposeResolution link another Entity than the one it speaks for.
THEOREM OnlyOwnCandidate == RulesSpec => NoLinkByCompetition
  <1>1. ASSUME RulesTyped, RulesTyped', [RulesNext]_rulesVars
        PROVE  [(/\ proposed' # proposed
                 /\ Proposal'.decision = "AUTO_LINK"
                 /\ proposed'[Len(proposed')].hard # "CANNOT_LINK"
                 /\ Proposal'.candidate # proposed'[Len(proposed')].entity) =>
                    /\ Proposal.decision = "AUTO_LINK"
                    /\ Proposal.candidate = Proposal'.candidate]_rulesVars
    <2>1. CASE proposed' = proposed
      BY <2>1
    <2>2. CASE proposed' # proposed
      <3>1. PICK c : proposed' = Append(proposed, c) /\ asked' = asked
        BY <1>1, <2>2 DEF RulesNext, AddCandidate, AddField, rulesVars
      <3>2. PICK m, cs : m = asked /\ cs = proposed
        OBVIOUS
      <3>3. cs \in Seq(ProposedRows) /\ Append(cs, c) \in Seq(ProposedRows)
        BY <1>1, <3>1, <3>2 DEF RulesTyped
      <3>4. /\ Len(Append(cs, c)) = Len(cs) + 1 /\ Append(cs, c)[Len(cs) + 1] = c
        BY <3>3
      <3>5. c \in ProposedRows
        <4>1. Len(cs) + 1 \in 1..Len(Append(cs, c))
          BY <3>3, <3>4
        <4> QED BY <3>3, <3>4, <4>1
      <3>6. Proposal = ProposeResolution(m, cs) /\ Proposal' = ProposeResolution(m, Append(cs, c))
        BY <3>1, <3>2 DEF Proposal
      <3>7. proposed'[Len(proposed')] = c
        BY <3>1, <3>2, <3>4
      <3> QED BY <3>3, <3>5, <3>6, <3>7, Competition
    <2> QED BY <2>1, <2>2
  <1> QED BY <1>1, RulesTypedInd, PTL DEF RulesSpec, NoLinkByCompetition
=============================================================================
