------------------------ MODULE ReconciliationProofs ------------------------
(***************************************************************************)
(* What CLOSED means, for any number of lanes, components, candidates and  *)
(* values: the findings of a closed reconciliation are all MATCHED, and    *)
(* from that the correspondence follows by the definition of the statuses. *)
(***************************************************************************)
EXTENDS Reconciliation, TLAPS

\* A later step leaves the components, and what is derived from them, alone.
LEMMA SameInput ==
    ASSUME UNCHANGED <<input, population>>
    PROVE  /\ \A c, e : Associated(c, e)' = Associated(c, e)
           /\ \A c, e : Agree(c, e)' = Agree(c, e)
           /\ Projection' = Projection
<1>1. facts' = facts /\ candidates' = candidates /\ population' = population
    BY DEF input
<1>2. \A c, e : Comparable(c, e)' = Comparable(c, e)
    BY <1>1 DEF Comparable, SameIdentity, SameTitle
<1>3. \A c, e, f : Common(c, e, f)' = Common(c, e, f)
    BY <1>1 DEF Common
<1>4. \A c, e : Score(c, e)' = Score(c, e)
    BY <1>1, <1>3 DEF Score, SameTitle, Points
<1>5. \A c, e : Associated(c, e)' = Associated(c, e)
    BY <1>1, <1>2, <1>4 DEF Associated
<1>6. \A c, e : Agree(c, e)' = Agree(c, e)
    BY <1>1, <1>3 DEF Agree, SameTitle
<1>7. \A s : EntryOfSource(s)' = EntryOfSource(s)
    BY <1>1 DEF EntryOfSource
<1>8. Projection' = Projection
    BY <1>7 DEF Projection, input
<1>. QED BY <1>5, <1>6, <1>8

\* The one candidate of a MATCHED entry agrees with it and is no other entry's.
LEMMA MatchedEntries ==
    ASSUME NEW e \in population, EntryStatus(e) = "MATCHED"
    PROVE  /\ \E c \in DOMAIN candidates : Potential(e) = {c} /\ Agree(c, e)
           /\ \A c \in Potential(e), d \in population : Associated(c, d) => d = e
<1>1. ~Ambiguous(e) /\ Potential(e) # {}
    BY DEF EntryStatus
<1>2. PICK c \in Potential(e) : c = CHOOSE k \in Potential(e) : TRUE
    BY <1>1
<1>3. Potential(e) = {c}
    BY <1>1, <1>2 DEF Ambiguous, Several
<1>4. MatchedStatus(c, e) = "MATCHED"
    BY <1>1, <1>2 DEF EntryStatus
<1>5. UnknownFields(c, e) = {} /\ DifferentFields(c, e) = {}
    BY <1>4 DEF MatchedStatus
<1>6. SameTitle(candidates[c], e, TextField)
    BY <1>5 DEF UnknownFields, DifferentFields, SameTitle
<1>7. Common(c, e, "identifiers")
    BY <1>5 DEF UnknownFields, DifferentFields, Common, SetField
<1>8. \A f \in SetField : candidates[c][f] # {} => Common(c, e, f)
    BY <1>5 DEF DifferentFields
<1>9. Agree(c, e)
    BY <1>6, <1>7, <1>8 DEF Agree
<1>10. c \in DOMAIN candidates
    BY <1>2 DEF Potential
<1>11. \A d \in population : Associated(c, d) => d = e
    BY <1>1, <1>2 DEF Ambiguous
<1>. QED BY <1>3, <1>9, <1>10, <1>11

\* Nothing but MATCHED findings of components and candidates: then they correspond.
LEMMA MatchedIsOneToOne ==
    ASSUME \A g \in EntryFindings \cup CandidateFindings : g.status = "MATCHED"
    PROVE  OneToOne
<1>1. ASSUME NEW e \in population
      PROVE  EntryStatus(e) = "MATCHED"
    <2>1. Finding("COMPONENT", e.sources, EntryStatus(e)) \in EntryFindings
        BY DEF EntryFindings
    <2>. QED BY <2>1 DEF Finding
<1>2. ASSUME NEW c \in Unassociated
      PROVE  FALSE
    <2>1. PICK s \in {"UNKNOWN", "NOT_IN_RELEASE"} :
              Finding("CANDIDATE", c, s) \in CandidateFindings
        BY DEF CandidateFindings
    <2>. QED BY <2>1 DEF Finding
<1>3. ASSUME NEW e \in population
      PROVE  \E c \in DOMAIN candidates :
                 Agree(c, e) /\ \A d \in DOMAIN candidates : Associated(d, e) => d = c
    BY <1>1, MatchedEntries DEF Potential
<1>4. ASSUME NEW c \in DOMAIN candidates
      PROVE  \E e \in population :
                 Agree(c, e) /\ \A d \in population : Associated(c, d) => d = e
    <2>1. PICK e \in population : Associated(c, e)
        BY <1>2 DEF Unassociated
    <2>2. c \in Potential(e)
        BY <2>1 DEF Potential
    <2>. QED BY <1>1, <2>2, MatchedEntries
<1>. QED BY <1>3, <1>4 DEF OneToOne

\* The correspondence is about the input and the population, so later steps keep it.
LEMMA SameCorrespondence ==
    ASSUME UNCHANGED <<input, population>>
    PROVE  /\ OneToOne => OneToOne'
           /\ NoContradiction(population) => NoContradiction(population)'
           /\ RelationsAgreed => RelationsAgreed'
           /\ RelationsStated => RelationsStated'
<1>1. facts' = facts /\ candidates' = candidates /\ population' = population /\ links' = links
    BY DEF input
<1>2. OneToOne => OneToOne'
    BY <1>1, SameInput DEF OneToOne
<1>3. NoContradiction(population) => NoContradiction(population)'
    <2>1. \A r, s : Consistent(r, s)' = Consistent(r, s)
        BY <1>1 DEF Consistent, Several
    <2>. QED BY <1>1, <2>1 DEF NoContradiction
<1>4. RelationsAgreed => RelationsAgreed'
    BY SameInput DEF RelationsAgreed
<1>5. RelationsStated => RelationsStated'
    BY <1>1, SameInput DEF RelationsStated, States
<1>. QED BY <1>2, <1>3, <1>4, <1>5

\* With two lanes, the records of an entry without conflicts contradict nothing: a
\* cluster without two records of a lane has two records at most, and these are
\* joined by a link of their own.
LEMMA NoConflictNoContradiction ==
    ASSUME NEW a, NEW b, Lane = {a, b}, DOMAIN facts \subseteq Source,
           \A e \in {EntryOf(C) : C \in Clusters} : e.conflicts = {}
    PROVE  NoContradiction({EntryOf(C) : C \in Clusters})
<1>. SUFFICES ASSUME NEW C \in Clusters, NEW s \in C, NEW t \in C
              PROVE  Consistent(s, t)
    BY DEF NoContradiction, EntryOf
<1>1. ConflictFields(C) = {}
    <2>1. EntryOf(C).conflicts = {}
        OBVIOUS
    <2>. QED BY <2>1 DEF EntryOf
<1>2. ASSUME NEW f \in TextField
      PROVE  ~Several({facts[s].text[f], facts[t].text[f]} \ {Unknown})
    <2>1. ~Several(Concrete(C, f))
        BY <1>1 DEF ConflictFields
    <2>2. {facts[s].text[f], facts[t].text[f]} \ {Unknown} \subseteq Concrete(C, f)
        BY DEF Concrete
    <2>. QED BY <2>1, <2>2 DEF Several
<1>3. ASSUME NEW f \in {"roles", "observed", "supplier"}
      PROVE  ~Several(facts[s][f] \cup facts[t][f])
    <2>1. ~Several(Union(C, f))
        BY <1>1 DEF ConflictFields
    <2>2. facts[s][f] \cup facts[t][f] \subseteq Union(C, f)
        BY DEF Union
    <2>. QED BY <2>1, <2>2 DEF Several
<1>4. \A u, v \in C : u.lane = v.lane => u = v
    BY <1>1 DEF ConflictFields
<1>5. ASSUME s # t
      PROVE  SameComponent(s, t)
    <2>1. C \subseteq DOMAIN facts /\ ClosedUnder(C)
        BY DEF Clusters
    <2>2. C = {s, t}
        BY <1>4, <1>5, <2>1 DEF Source
    <2>3. ~ClosedUnder({s})
        BY <1>5, <2>2 DEF Clusters
    <2>4. PICK u \in DOMAIN facts \ {s} : SameComponent(s, u)
        BY <2>3 DEF ClosedUnder
    <2>5. u \in C
        BY <2>1, <2>4 DEF ClosedUnder
    <2>. QED BY <2>2, <2>4, <2>5
<1>6. s # t /\ facts[s].identifiers # {} /\ facts[t].identifiers # {} =>
          facts[s].identifiers \cap facts[t].identifiers # {}
    BY <1>5 DEF SameComponent, SameIdentity
<1>. QED BY <1>2, <1>3, <1>4, <1>6 DEF Consistent

\* If every finding of a relationship is MATCHED, the lanes agree on its kind.
LEMMA MatchedRelationsAgree ==
    ASSUME \A g \in RelationFindings : g.status = "MATCHED"
    PROVE  RelationsAgreed
<1>. SUFFICES ASSUME NEW q \in Projection, NEW r \in Projection,
                     q.source = r.source, q.target = r.target, q.relation # r.relation
              PROVE  FALSE
    BY DEF RelationsAgreed
<1>. DEFINE relations == {k.relation : k \in {l \in Projection :
                                          l.source = q.source /\ l.target = q.target}}
<1>1. q.relation \in relations /\ r.relation \in relations
    OBVIOUS
<1>2. RelationStatus(q.source, q.target) \in {"UNKNOWN", "CONFLICT"}
    BY <1>1 DEF RelationStatus, Several
<1>3. Finding("RELATIONSHIP", <<q.source, q.target>>, RelationStatus(q.source, q.target))
          \in RelationFindings
    BY <1>2 DEF RelationFindings, Finding
<1>. QED BY <1>2, <1>3 DEF Finding

\* If every finding of a candidate's relationship is MATCHED, the candidate states
\* the projection and nothing else.
LEMMA MatchedRelationsAreStated ==
    ASSUME NEW n \in Assignments, \A g \in LinkFindings(n) : g.status = "MATCHED"
    PROVE  RelationsStated
<1>1. ASSUME NEW k \in links
      PROVE  k \in Mapped
    <2>1. k \notin Mapped =>
              Finding("CANDIDATE_RELATIONSHIP", k, "UNKNOWN") \in LinkFindings(n)
        BY DEF LinkFindings
    <2>. QED BY <2>1 DEF Finding
<1>2. ASSUME NEW r \in Projection \cup DeclaredRelations(n)
      PROVE  r \in Projection /\ r \in DeclaredRelations(n)
    <2>1. Finding("CANDIDATE_RELATIONSHIP", r, LinkStatus(r, n)) \in LinkFindings(n)
        BY DEF LinkFindings
    <2>2. LinkStatus(r, n) = "MATCHED"
        BY <2>1 DEF Finding
    <2>. QED BY <2>2 DEF LinkStatus
<1>3. \A c \in Reconciled : n[c] \in population /\ Associated(c, n[c])
    BY DEF Assignments, EntriesOf, Named, Potential
<1>. DEFINE Between(k) ==
         [source |-> n[k.source].sources, relation |-> k.relation, target |-> n[k.target].sources]
<1>4. ASSUME NEW k \in Mapped
      PROVE  States(k, Between(k)) /\ Between(k) \in DeclaredRelations(n)
    BY <1>3 DEF Mapped, States, DeclaredRelations
<1>5. \A k \in links : \E r \in Projection : States(k, r)
    BY <1>1, <1>2, <1>4
<1>6. ASSUME NEW r \in Projection
      PROVE  \E k \in links : States(k, r)
    <2>1. PICK k \in Mapped : r = Between(k)
        BY <1>2 DEF DeclaredRelations
    <2>. QED BY <1>4, <2>1 DEF Mapped
<1>. QED BY <1>5, <1>6 DEF RelationsStated

-----------------------------------------------------------------------------
TwoLanes == \E a, b : Lane = {a, b}

\* What a verdict of CLOSED guarantees of components.
Verified ==
    OneToOne /\ RelationsAgreed /\ (TwoLanes => NoContradiction(population))

AllMatched == \A g \in findings : g.status = "MATCHED"

\* What the steps preserve: what will follow from the findings of the next step,
\* what follows from those made so far, and what CLOSED means.
Correspond ==
    /\ pc \in {"ingested", "population", "reconciled", "recomputed"}
    /\ DOMAIN facts \subseteq Source
    /\ pc \in {"ingested", "population"} => state = "NONE"
    /\ pc = "population" /\ TwoLanes /\ (\A e \in population : e.conflicts = {}) =>
           NoContradiction(population)
    /\ pc = "reconciled" /\ AllMatched => Verified
    /\ state = "CLOSED" => Verified
    /\ pc = "recomputed" /\ state = "CLOSED" =>
           declared = "SYNTHETIC_RECONCILED" /\ RelationsStated

\* CLOSED is given only if every finding is MATCHED.
LEMMA VerdictClosed ==
    ASSUME NEW set, Verdict(set) = "CLOSED"
    PROVE  \A g \in set : g.status = "MATCHED"
BY DEF Verdict

\* An entry is MATCHED only if it has no conflicts.
LEMMA MatchedHasNoConflict ==
    ASSUME NEW e \in population, \A g \in EntryFindings : g.status = "MATCHED"
    PROVE  e.conflicts = {}
<1>1. Finding("COMPONENT", e.sources, EntryStatus(e)) \in EntryFindings
    BY DEF EntryFindings
<1>2. EntryStatus(e) = "MATCHED"
    BY <1>1 DEF Finding
<1>. QED BY <1>2 DEF EntryStatus

\* Steps that leave input and population alone keep what is Verified.
LEMMA SameVerified ==
    ASSUME UNCHANGED <<input, population>>, Verified
    PROVE  Verified'
BY SameCorrespondence DEF Verified, TwoLanes

\* Every step of the workflow keeps Correspond.
LEMMA CorrespondStep == Correspond /\ [Next]_vars => Correspond'
<1>. SUFFICES ASSUME Correspond, [Next]_vars
              PROVE  Correspond'
    OBVIOUS
<1>1. CASE BuildPopulation
    <2>1. DOMAIN facts \subseteq Source /\ state = "NONE"
        BY <1>1 DEF BuildPopulation, Correspond
    <2>2. population' = {EntryOf(C) : C \in Clusters}
        BY <1>1 DEF BuildPopulation
    <2>3. TwoLanes /\ (\A e \in population' : e.conflicts = {}) => NoContradiction(population')
        BY <2>1, <2>2, NoConflictNoContradiction DEF TwoLanes
    <2>4. \A r, s : Consistent(r, s)' = Consistent(r, s)
        BY <1>1 DEF BuildPopulation, input, Consistent, Several
    <2>5. NoContradiction(population') => NoContradiction(population)'
        BY <2>4 DEF NoContradiction
    <2>6. pc' = "population" /\ state' = "NONE" /\ facts' = facts
        BY <1>1, <2>1 DEF BuildPopulation, input
    <2>. QED BY <2>1, <2>3, <2>5, <2>6 DEF Correspond, TwoLanes
<1>2. CASE Reconcile
    <2>1. pc = "population" /\ pc' = "reconciled" /\ facts' = facts
        BY <1>2 DEF Reconcile, input
    <2>2. UNCHANGED <<input, population>>
        BY <1>2 DEF Reconcile
    <2>3. findings' = EntryFindings \cup CandidateFindings \cup RelationFindings
        BY <1>2 DEF Reconcile
    <2>4. AllMatched' => OneToOne /\ RelationsAgreed
        BY <2>3, MatchedIsOneToOne, MatchedRelationsAgree DEF AllMatched
    <2>5. AllMatched' /\ TwoLanes => NoContradiction(population)
        BY <2>1, <2>3, MatchedHasNoConflict DEF AllMatched, Correspond
    <2>6. AllMatched' => Verified'
        BY <2>2, <2>4, <2>5, SameVerified DEF Verified
    <2>7. state' = "CLOSED" => AllMatched'
        BY <1>2, VerdictClosed DEF Reconcile, AllMatched
    <2>. QED BY <2>1, <2>6, <2>7 DEF Correspond
<1>3. CASE Recompute
    <2>1. pc = "reconciled" /\ pc' = "recomputed" /\ facts' = facts /\ declared' = declared
        BY <1>3 DEF Recompute, input
    <2>2. UNCHANGED <<input, population>>
        BY <1>3 DEF Recompute
    <2>3. PICK n \in Assignments :
              LET all == findings \cup LinkFindings(n)
              IN findings' = IF Mismatch(all)
                             THEN all \cup {Finding("DECLARED_STATUS_MISMATCH", declared, "CONFLICT")}
                             ELSE all
        BY <1>3 DEF Recompute
    <2>4. ASSUME state' = "CLOSED"
          PROVE  Verified' /\ (declared = "SYNTHETIC_RECONCILED" /\ RelationsStated)'
        <3>. DEFINE all == findings \cup LinkFindings(n)
        <3>1. \A g \in findings' : g.status = "MATCHED"
            BY <1>3, <2>4, VerdictClosed DEF Recompute
        <3>2. ~Mismatch(all) /\ findings' = all
            <4>. DEFINE mismatch == Finding("DECLARED_STATUS_MISMATCH", declared, "CONFLICT")
            <4>1. mismatch \notin findings'
                BY <3>1 DEF Finding
            <4>2. Mismatch(all) => findings' = all \cup {mismatch}
                BY <2>3, Zenon
            <4>3. ~Mismatch(all)
                BY <4>1, <4>2
            <4>. QED BY <2>3, <4>3, Zenon
        <3>3. Verified'
            BY <2>1, <2>2, <3>1, <3>2, SameVerified DEF Correspond, AllMatched
        <3>4. Verdict(all) = "CLOSED"
            BY <3>1, <3>2 DEF Verdict
        <3>5. declared = "SYNTHETIC_RECONCILED"
            BY <3>2, <3>4 DEF Mismatch
        <3>6. RelationsStated
            BY <3>1, <3>2, MatchedRelationsAreStated
        <3>7. RelationsStated'
            BY <2>2, <3>6, SameCorrespondence
        <3>. QED BY <2>1, <3>3, <3>5, <3>7
    <2>. QED BY <2>1, <2>4 DEF Correspond
<1>4. CASE UNCHANGED vars
    <2>1. UNCHANGED <<input, population>> /\ pc' = pc /\ findings' = findings
          /\ state' = state /\ facts' = facts /\ declared' = declared
        BY <1>4 DEF vars, input
    <2>2. Verified => Verified'
        BY <2>1, SameVerified
    <2>3. RelationsStated => RelationsStated'
        BY <2>1, SameCorrespondence
    <2>4. NoContradiction(population) => NoContradiction(population)'
        BY <2>1, SameCorrespondence
    <2>. QED BY <2>1, <2>2, <2>3, <2>4 DEF Correspond, AllMatched, TwoLanes
<1>. QED BY <1>1, <1>2, <1>3, <1>4 DEF Next

\* Correspond is an invariant.
LEMMA CorrespondAlways == Spec => []Correspond
<1>1. Init => Correspond
    BY DEF Init, Correspond
<1>. QED BY <1>1, CorrespondStep, PTL DEF Spec

\* A reconciliation is CLOSED only if entries and candidates correspond one to one
\* and each pair agrees, on every input (_reconcile_with_population, and
\* recompute_graph_reconciliation, which adds findings and never drops one).
THEOREM ClosedCorresponds == Spec => []ClosedIsOneToOne
<1>1. Correspond => ClosedIsOneToOne
    BY DEF Correspond, ClosedIsOneToOne, Verified
<1>. QED BY <1>1, CorrespondAlways, PTL

\* With the two lanes ingest.py builds, the records of a CLOSED reconciliation do
\* not contradict each other, whatever they observe (build_component_population).
THEOREM ClosedIsConsistent ==
    ASSUME TwoLanes
    PROVE  Spec => []ClosedHasNoContradiction
<1>1. Correspond => ClosedHasNoContradiction
    BY DEF Correspond, ClosedHasNoContradiction, Verified
<1>. QED BY <1>1, CorrespondAlways, PTL

\* A workflow that ends CLOSED was declared reconciled, and the candidate states
\* the relationships the lanes claim and no others (recompute_graph_reconciliation).
THEOREM ClosedStates == Spec => []ClosedStatesTheRelations
<1>1. Correspond => ClosedStatesTheRelations
    BY DEF Correspond, ClosedStatesTheRelations, Verified
<1>. QED BY <1>1, CorrespondAlways, PTL
=============================================================================
