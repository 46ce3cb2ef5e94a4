--------------------------- MODULE Reconciliation ---------------------------
(***************************************************************************)
(* From discovery lanes to a closed or open reconciliation:                *)
(* sbom_workbench/reconcile.py and workflow.recompute_graph_reconciliation.*)
(*                                                                         *)
(* Two or more lanes observe the components of one release.  Records of    *)
(* different lanes that refer to the same component are clustered into one *)
(* entry of the population.  Each candidate component of the SBOM is       *)
(* associated with the entries it scores best against; the findings say    *)
(* which entry and candidate match, and the state is CLOSED only if        *)
(* nothing but matches was found.                                          *)
(*                                                                         *)
(* A text field is Unknown or concrete.  Of identifiers, roles,            *)
(* provenances and hashes only the concrete ones are kept, so that the     *)
(* empty set stands for UNKNOWN.  An entry is named by the records it      *)
(* comes from, as population_id is.                                        *)
(***************************************************************************)
EXTENDS Naturals, FiniteSets

CONSTANTS Lane, Id, Text, Unknown, Identifier, Role, Provenance, Hash, Relation

ASSUME UnknownAssumption == Unknown \notin Text

TextField == {"producer", "name", "version"}
SetField == {"identifiers", "roles", "provenances", "observed", "supplier"}
Facts == [text: [TextField -> Text \cup {Unknown}],
          identifiers: SUBSET Identifier, roles: SUBSET Role,
          provenances: SUBSET Provenance, observed: SUBSET Hash, supplier: SUBSET Hash]
Source == [lane: Lane, id: Id]
Declared == {"SYNTHETIC_RECONCILED", "SYNTHETIC_RECONCILIATION_OPEN"}

VARIABLES facts,       \* what the lanes observe: a function from sources to Facts
          claims,      \* relationship claims [lane, source, relation, target]
          candidates,  \* the candidate SBOM: a function from candidate ids to Facts
          links,       \* its relationships [source, relation, target]
          declared,    \* the technical status the candidate document declares
          pc,          \* "ingested", "population", "reconciled", "recomputed"
          population,  \* the entries
          findings,    \* the findings so far
          state        \* "NONE", "CLOSED" or "OPEN"

vars == <<facts, claims, candidates, links, declared, pc, population, findings, state>>
input == <<facts, claims, candidates, links, declared>>

-----------------------------------------------------------------------------
(* build_component_population *)

SameTitle(a, b, fields) ==
    \A f \in fields : a.text[f] # Unknown /\ a.text[f] = b.text[f]

\* Observed hashes decide if both have some, else provenances if both have some.
Corroborated(a, b) ==
    IF a.observed # {} /\ b.observed # {} THEN a.observed \cap b.observed # {}
    ELSE a.provenances # {} /\ b.provenances # {} => a.provenances \cap b.provenances # {}

\* Identifiers decide if both have some, else the whole title.
SameIdentity(a, b, fields) ==
    IF a.identifiers # {} /\ b.identifiers # {} THEN a.identifiers \cap b.identifiers # {}
    ELSE SameTitle(a, b, fields)

\* _records_refer_to_same_component
SameComponent(s, t) ==
    /\ s.lane # t.lane
    /\ SameIdentity(facts[s], facts[t], TextField)
    /\ Corroborated(facts[s], facts[t])

\* The union-find joins linked records: a cluster is a least set of sources that
\* no link leaves.
ClosedUnder(C) == \A s \in C, t \in DOMAIN facts \ C : ~SameComponent(s, t)
Clusters ==
    {C \in (SUBSET DOMAIN facts) \ {{}} :
        ClosedUnder(C) /\ \A D \in (SUBSET C) \ {{}, C} : ~ClosedUnder(D)}

Union(C, field) == UNION {facts[s][field] : s \in C}

Concrete(C, f) == {facts[s].text[f] : s \in C} \ {Unknown}

\* The value of a text field if the cluster has exactly one, else Unknown.
Normalized(C, f) ==
    LET values == Concrete(C, f)
    IN IF \E v \in values : values = {v} THEN CHOOSE v \in values : TRUE ELSE Unknown

Several(S) == \E x, y \in S : x # y

\* Faulty variant: two records of one lane in a cluster are not a conflict.
ConflictFieldsWithoutIdentity(C) ==
    {f \in TextField : Several(Concrete(C, f))}
    \cup {f \in {"roles", "observed", "supplier"} : Several(Union(C, f))}

ConflictFields(C) ==
    {f \in TextField : Several(Concrete(C, f))}
    \cup {f \in {"roles", "observed", "supplier"} : Several(Union(C, f))}
    \cup {f \in {"identity"} : \E s, t \in C : s # t /\ s.lane = t.lane}

\* The critical fields that are UNKNOWN, of an entry or of a candidate.
CriticalUnknown(x) ==
    {f \in TextField : x.text[f] = Unknown} \cup {f \in {"identifier"} : x.identifiers = {}}

EntryOf(C) ==
    [sources |-> C,
     text |-> [f \in TextField |-> Normalized(C, f)],
     identifiers |-> Union(C, "identifiers"), roles |-> Union(C, "roles"),
     provenances |-> Union(C, "provenances"), observed |-> Union(C, "observed"),
     supplier |-> Union(C, "supplier"), conflicts |-> ConflictFields(C)]

-----------------------------------------------------------------------------
(* _reconcile_with_population *)

\* _candidate_population_score is not None
Comparable(c, e) == SameIdentity(candidates[c], e, {"producer", "name"})

Points(condition, n) == IF condition THEN n ELSE 0
Common(c, e, field) == candidates[c][field] \cap e[field] # {}

Score(c, e) ==
    (IF candidates[c].identifiers # {} /\ e.identifiers # {} THEN 100 ELSE 10)
    + Points(SameTitle(candidates[c], e, {"version"}), 5)
    + Points(Common(c, e, "observed"), 1000)
    + Points(Common(c, e, "provenances"), 500)
    + Points(Common(c, e, "roles"), 100)

\* The candidate is associated with every entry of its best score.
Associated(c, e) ==
    /\ Comparable(c, e)
    /\ \A d \in population : Comparable(c, d) => Score(c, d) <= Score(c, e)

Potential(e) == {c \in DOMAIN candidates : Associated(c, e)}

\* Faulty variant: the candidate's other entries are not counted.
AmbiguousOneWay(e) == Several(Potential(e))

\* More than one candidate for the entry, or another entry for its candidate.
Ambiguous(e) ==
    \/ Several(Potential(e))
    \/ \E c \in Potential(e), d \in population \ {e} : Associated(c, d)

\* The fields on which one side is UNKNOWN, and those on which both are
\* concrete and differ; optional fields count only if the candidate has them.
UnknownFields(c, e) ==
    {f \in TextField : Unknown \in {e.text[f], candidates[c].text[f]}}
    \cup {f \in {"identifiers"} : e.identifiers = {} \/ candidates[c].identifiers = {}}
    \cup {f \in SetField \ {"identifiers"} : candidates[c][f] # {} /\ e[f] = {}}

DifferentFields(c, e) ==
    {f \in TextField : e.text[f] # candidates[c].text[f]}
    \cup {f \in SetField : candidates[c][f] # {} /\ ~Common(c, e, f)}

MatchedStatus(c, e) ==
    IF CriticalUnknown(e) # {} \/ UnknownFields(c, e) # {} THEN "UNKNOWN"
    ELSE IF DifferentFields(c, e) # {} THEN "CONFLICT" ELSE "MATCHED"

EntryStatus(e) ==
    IF e.conflicts # {} THEN "CONFLICT"
    ELSE IF Ambiguous(e) THEN "UNKNOWN"
    ELSE IF Potential(e) = {}
         THEN IF CriticalUnknown(e) # {} THEN "UNKNOWN" ELSE "MISSING_FROM_SBOM"
    ELSE MatchedStatus(CHOOSE c \in Potential(e) : TRUE, e)

\* The candidate the finding of an entry names, if any.
Named(e) ==
    IF Several(Potential(e)) \/ (e.conflicts = {} /\ Ambiguous(e)) THEN {} ELSE Potential(e)

Finding(type, subject, status) == [type |-> type, subject |-> subject, status |-> status]

EntryFindings == {Finding("COMPONENT", e.sources, EntryStatus(e)) : e \in population}

Unassociated == {c \in DOMAIN candidates : \A e \in population : ~Associated(c, e)}

CandidateFindings ==
    {Finding("CANDIDATE", c,
             IF CriticalUnknown(candidates[c]) # {} THEN "UNKNOWN" ELSE "NOT_IN_RELEASE") :
        c \in Unassociated}

-----------------------------------------------------------------------------
(* Relationships *)

EntryOfSource(s) == CHOOSE e \in population : s \in e.sources

\* build_relationship_projection: the claims of all lanes, between entries.
Projection ==
    {[source |-> EntryOfSource([lane |-> k.lane, id |-> k.source]).sources,
      relation |-> k.relation,
      target |-> EntryOfSource([lane |-> k.lane, id |-> k.target]).sources] : k \in claims}

\* Faulty variant: lanes that claim different relations are no conflict.
RelationStatusOfAny(x, y) ==
    IF \E k \in Projection : k.source = x /\ k.target = y /\ k.relation = Unknown
    THEN "UNKNOWN" ELSE "MATCHED"

RelationStatus(x, y) ==
    LET relations == {k.relation : k \in {l \in Projection : l.source = x /\ l.target = y}}
    IN IF Unknown \in relations THEN "UNKNOWN"
       ELSE IF Several(relations) THEN "CONFLICT" ELSE "MATCHED"

RelationFindings ==
    {g \in {Finding("RELATIONSHIP", <<k.source, k.target>>, RelationStatus(k.source, k.target)) :
               k \in Projection} : g.status # "MATCHED"}

\* The entry a candidate is reconciled with is that of the last finding that names
\* it: findings are ordered by their hash, so any of them may be the last.
EntriesOf(c) == {e \in population : c \in Named(e)}
Reconciled == {c \in DOMAIN candidates : EntriesOf(c) # {}}
Assignments == {w \in [Reconciled -> population] : \A c \in Reconciled : w[c] \in EntriesOf(c)}

\* Candidate relationships whose two ends are reconciled, between entries.
Mapped == {k \in links : {k.source, k.target} \subseteq Reconciled}
DeclaredRelations(w) ==
    {[source |-> w[k.source].sources, relation |-> k.relation, target |-> w[k.target].sources] :
        k \in Mapped}

\* Faulty variant: what the lanes do not claim passes.
LinkStatusOneWay(r, w) == IF r \notin DeclaredRelations(w) THEN "MISSING_FROM_SBOM" ELSE "MATCHED"

LinkStatus(r, w) ==
    IF r \notin DeclaredRelations(w) THEN "MISSING_FROM_SBOM"
    ELSE IF r \notin Projection THEN "NOT_IN_RELEASE" ELSE "MATCHED"

\* _candidate_relationship_findings
LinkFindings(w) ==
    {Finding("CANDIDATE_RELATIONSHIP", r, LinkStatus(r, w)) :
        r \in Projection \cup DeclaredRelations(w)}
    \cup {Finding("CANDIDATE_RELATIONSHIP", k, "UNKNOWN") : k \in links \ Mapped}

-----------------------------------------------------------------------------
(* The workflow *)

Verdict(set) == IF \A g \in set : g.status = "MATCHED" THEN "CLOSED" ELSE "OPEN"

BuildPopulation ==
    /\ pc = "ingested"
    /\ population' = {EntryOf(C) : C \in Clusters}
    /\ pc' = "population"
    /\ UNCHANGED <<input, findings, state>>

Reconcile ==
    /\ pc = "population"
    /\ findings' = EntryFindings \cup CandidateFindings \cup RelationFindings
    /\ state' = Verdict(findings')
    /\ pc' = "reconciled"
    /\ UNCHANGED <<input, population>>

\* What the status of the candidate document must be, given the other findings.
Mismatch(set) ==
    (declared = "SYNTHETIC_RECONCILED") # (Verdict(set) = "CLOSED")

\* workflow.recompute_graph_reconciliation
Recompute ==
    /\ pc = "reconciled"
    /\ \E w \in Assignments :
           LET all == findings \cup LinkFindings(w)
           IN findings' = IF Mismatch(all)
                          THEN all \cup {Finding("DECLARED_STATUS_MISMATCH", declared, "CONFLICT")}
                          ELSE all
    /\ state' = Verdict(findings')
    /\ pc' = "recomputed"
    /\ UNCHANGED <<input, population>>

\* A lane observes at most one role, provenance and hash of each component.
Observable == {x \in Facts : \A f \in SetField \ {"identifiers"} : ~Several(x[f])}

\* A lane relates components it observes.
ClaimsOf(S) ==
    {k \in [lane: Lane, source: Id, relation: Relation \cup {Unknown}, target: Id] :
        {[lane |-> k.lane, id |-> k.source], [lane |-> k.lane, id |-> k.target]} \subseteq S}

Init ==
    /\ \E S \in SUBSET Source : Several({s.lane : s \in S}) /\ facts \in [S -> Observable]
    /\ claims \in SUBSET ClaimsOf(DOMAIN facts)
    /\ \E S \in SUBSET Id : candidates \in [S -> Facts]
    /\ links \in SUBSET [source: DOMAIN candidates, relation: Relation, target: DOMAIN candidates]
    /\ declared \in Declared
    /\ pc = "ingested" /\ population = {} /\ findings = {} /\ state = "NONE"

Next == BuildPopulation \/ Reconcile \/ Recompute

Spec == Init /\ [][Next]_vars

-----------------------------------------------------------------------------
(* Properties *)

\* CLOSED means that candidates and entries correspond one to one, and that each
\* pair agrees: the best scores are never shared, nothing is left over on either
\* side, and what is UNKNOWN on one side never passes for agreement.
Agree(c, e) ==
    /\ SameTitle(candidates[c], e, TextField)
    /\ Common(c, e, "identifiers")
    /\ \A f \in SetField : candidates[c][f] # {} => Common(c, e, f)

OneToOne ==
    /\ \A e \in population : \E c \in DOMAIN candidates :
           Agree(c, e) /\ \A d \in DOMAIN candidates : Associated(d, e) => d = c
    /\ \A c \in DOMAIN candidates : \E e \in population :
           Agree(c, e) /\ \A d \in population : Associated(c, d) => d = e

ClosedIsOneToOne == state = "CLOSED" => OneToOne

\* CLOSED means that no two lanes contradict each other about an entry, although
\* records are clustered through other records they agree with.  (The identifiers
\* are safe with two lanes only: a third could bridge two it shares with neither.)
Consistent(s, t) ==
    /\ \A f \in TextField : ~Several({facts[s].text[f], facts[t].text[f]} \ {Unknown})
    /\ \A f \in {"roles", "observed", "supplier"} : ~Several(facts[s][f] \cup facts[t][f])
    /\ s.lane = t.lane => s = t
    /\ facts[s].identifiers # {} /\ facts[t].identifiers # {} =>
           facts[s].identifiers \cap facts[t].identifiers # {}

NoContradiction(entries) == \A e \in entries : \A s, t \in e.sources : Consistent(s, t)

ClosedHasNoContradiction == state = "CLOSED" => NoContradiction(population)

\* A workflow that ends CLOSED was declared reconciled, and its document states
\* exactly the relationships the lanes claim, between the components they claim
\* them of, and the lanes agree on what each relationship is.
States(k, r) ==
    /\ k.relation = r.relation
    /\ \E d, e \in population : /\ Associated(k.source, d) /\ r.source = d.sources
                                /\ Associated(k.target, e) /\ r.target = e.sources

RelationsStated ==
    /\ \A k \in links : \E r \in Projection : States(k, r)
    /\ \A r \in Projection : \E k \in links : States(k, r)

RelationsAgreed ==
    \A q, r \in Projection : q.source = r.source /\ q.target = r.target => q.relation = r.relation

ClosedStatesTheRelations ==
    pc = "recomputed" /\ state = "CLOSED" =>
        declared = "SYNTHETIC_RECONCILED" /\ RelationsStated /\ RelationsAgreed

\* The comment on the union of identifiers (reconcile.py:342): records whose
\* concrete identifiers are disjoint are not clustered, so that every identifier
\* of an entry "either shares a concrete token with the rest of the cluster or
\* comes from a record that had no concrete identifier".
IdentifiersAreShared ==
    \A e \in population : \A s \in e.sources :
        LET others == Union(e.sources \ {s}, "identifiers")
        IN facts[s].identifiers # {} /\ others # {} => facts[s].identifiers \cap others # {}
=============================================================================
