-------------------------- MODULE MCReconciliation --------------------------
(***************************************************************************)
(* Reconciliation for TLC: the two lanes of ingest.py, up to two           *)
(* components each, all variants of one component: named by identifier i,  *)
(* by j, by both or by none, of another version and role, of no version;   *)
(* or two components in both lanes with every relation between them.       *)
(***************************************************************************)
EXTENDS Reconciliation

CONSTANTS la, lb, c1, c2, t, w, i, j, x, y, h, g, depends, contains

Variant(version, identifiers, roles, observed) ==
    [text |-> [f \in TextField |-> IF f = "version" THEN version ELSE t],
     identifiers |-> identifiers, roles |-> roles, provenances |-> {},
     observed |-> observed, supplier |-> {}]

ByI == Variant(t, {i}, {}, {})
ByJ == Variant(t, {j}, {}, {})
ByBoth == Variant(t, {i, j}, {}, {h})
ByTitle == Variant(t, {}, {x}, {})
Other == Variant(w, {i}, {y}, {g})
Unversioned == Variant(Unknown, {i}, {}, {h})

At(l, c) == [lane |-> l, id |-> c]
Two == {At(la, c1), At(lb, c1)}
Three == Two \cup {At(la, c2)}
Four == Three \cup {At(lb, c2)}

\* Any two components, of which at most one relation is known.
AnyComponents ==
    /\ facts \in [Two -> {ByI, ByJ, ByBoth, ByTitle, Other, Unversioned}]
                 \cup [Three -> {ByI, ByJ, ByBoth, ByTitle, Unversioned}]
                 \cup [Four -> {ByI, ByJ, ByTitle}]
    /\ \E S \in SUBSET {c1, c2} : candidates \in [S -> {ByI, ByJ, ByBoth, Other}]
    /\ claims \in SUBSET {k \in ClaimsOf(DOMAIN facts) :
                            k.source = c1 /\ k.target = c2 /\ k.relation # contains}
    /\ links \in SUBSET [source: DOMAIN candidates, relation: {depends}, target: DOMAIN candidates]
    /\ \A k \in links : k.source # k.target
    /\ Cardinality(links) <= 1

\* Two components, with up to two relations in the candidate and any in the lanes.
AnyRelations ==
    /\ facts \in [Four -> {ByI, ByJ}]
    /\ candidates = [c \in {c1, c2} |-> IF c = c1 THEN ByI ELSE ByJ]
    /\ claims \in SUBSET {k \in ClaimsOf(Four) : k.source = c1 /\ k.target = c2}
    /\ links \in SUBSET [source: {c1, c2}, relation: Relation, target: {c1, c2}]
    /\ \A k \in links : k.source # k.target
    /\ Cardinality(links) <= 2

MCInit ==
    /\ AnyComponents \/ AnyRelations
    /\ declared \in Declared
    /\ pc = "ingested" /\ population = {} /\ findings = {} /\ state = "NONE"

MCSpec == MCInit /\ [][Next]_vars
=============================================================================
