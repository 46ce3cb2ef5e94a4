---------------------------- MODULE SelftestRoot ----------------------------
(***************************************************************************)
(* What a self-test leaves behind, and what makes it verify: selftest.py,  *)
(* selftest_pack.py and selftest_root.py.                                  *)
(*                                                                         *)
(* Three profiles of one product are scanned.  The CycloneDX document of   *)
(* each scan and the identity of its input make an observation; the three  *)
(* observations are compared, sealed in a package, and the package and the *)
(* raw output of the scanner are bound by a receipt in an output root.     *)
(*                                                                         *)
(* A document is a name: Content says what is in it, and two documents     *)
(* with one content differ in their serial number.  The hash of a value is *)
(* the value.  The comparison is a function of the observations that       *)
(* contains their hashes, so the files derived from it are represented by  *)
(* the analysis, a function from profiles to observations.                 *)
(***************************************************************************)
EXTENDS Naturals, Sequences, FiniteSets

CONSTANTS Document,  \* CycloneDX documents a scanner may print
          Content,   \* what is in each of them
          Absent     \* a file, an identifier or a version that is not there

\* A document is a file that is there, and lists finitely many components.
ASSUME DocumentAssumption ==
    Absent \notin Document /\ \A d \in Document : Len(Content[d].components) \in Nat

Profile == {"SOURCE_DIRECTORY", "OCI_ARCHIVE", "PORTABLE_RUNTIME"}
Format == {"syft", "cyclonedx", "spdx"}

-----------------------------------------------------------------------------
(* Documents *)

Elements(s) == {s[n] : n \in 1..Len(s)}
Refs(d) == {c.ref : c \in Elements(Content[d].components)} \cup {Content[d].root.ref}

\* validate_cyclonedx: references are unique, and an edge joins two of them,
\* which are not those of the tools.
WellFormed(d) ==
    /\ d \in Document
    /\ Cardinality(Refs(d)) = Len(Content[d].components) + 1
    /\ Refs(d) \cap Content[d].tools = {}
    /\ \A e \in Content[d].edges :
           e.from \in Refs(d) /\ e.to \in Refs(d) /\ e.from # e.to

\* What a document says is there: its root and its components.
AllParts(d) == Elements(Content[d].components) \cup {Content[d].root}

-----------------------------------------------------------------------------
(* Observations and their comparison *)

\* build_profile_observation
Observation(p, identity, d) == [profile |-> p, identity |-> identity, document |-> d]

\* selftest_run_id of an observation: neither serial number nor raw hash.
ObservationRun(o) == [profile |-> o.profile, identity |-> o.identity, says |-> Content[o.document]]

\* _purl_key, without version and qualifiers, or _cpe_key of a CPE 2.3 name.
LogicalKey(c) ==
    IF c.purl # Absent THEN <<"purl", c.purl.base>>
    ELSE IF c.cpe # Absent /\ c.cpe.form = "2.3" THEN <<"cpe", c.cpe.product>>
    ELSE Absent

\* _comparison_records
RecordsOf(o) ==
    LET run == ObservationRun(o)
    IN {[key |-> LogicalKey(c), profile |-> o.profile, run |-> run,
         ref |-> c.ref, version |-> c.version] :
            c \in {c \in AllParts(o.document) : LogicalKey(c) # Absent}}
UnidentifiedIn(o) ==
    {[profile |-> o.profile, ref |-> c.ref, version |-> c.version] :
        c \in {c \in AllParts(o.document) : LogicalKey(c) = Absent}}

Records(a) == UNION {RecordsOf(a[p]) : p \in DOMAIN a}
Grouped(records, k) == {r \in records : r.key = k}
Versions(records) == {r.version : r \in records} \ {Absent}
Portable(records) == {r \in records : r.profile = "PORTABLE_RUNTIME"}

ConflictingVersions(records) ==
    /\ Cardinality(Versions(records)) > 1
    /\ Cardinality({r.profile : r \in records}) > 1

\* Faulty variant: the portable runtime is compared with itself, too.
StaleRecordsOfAll(records) ==
    LET reference == Versions(records)
    IN {r \in Portable(records) :
            r.version # Absent /\ reference # {} /\ r.version \notin reference}

StaleRecords(records) ==
    LET reference == Versions(records \ Portable(records))
    IN {r \in Portable(records) :
            r.version # Absent /\ reference # {} /\ r.version \notin reference}

\* The findings of reconcile_profile_observations; all are OPEN.
Findings(a) ==
    LET records == Records(a)
        groups == {Grouped(records, k) : k \in {r.key : r \in records}}
        key(group) == (CHOOSE r \in group : TRUE).key
    IN {[code |-> "VERSION_CONFLICT", key |-> key(g), evidence |-> g] :
            g \in {g \in groups : ConflictingVersions(g)}}
       \cup {[code |-> "STALE_PORTABLE_RUNTIME", key |-> key(g),
              evidence |-> (g \ Portable(g)) \cup StaleRecords(g)] :
            g \in {g \in groups : StaleRecords(g) # {}}}

\* selftest_run_id of the comparison: the run identifiers and hashes of the
\* observations are left out, those inside the findings are not.
RunId(a) ==
    [findings |-> Findings(a), unidentified |-> UNION {UnidentifiedIn(a[p]) : p \in DOMAIN a}]

-----------------------------------------------------------------------------
(* The package *)

PayloadFile ==
    {"observations", "reconciliation", "source", "validation", "dashboard", "run", "raw"}
Payload(package) == [f \in PayloadFile |-> package[f]]

\* _validation: of the raw documents only.
Validation(a) == [p \in Profile |-> a[p].document]

\* What write_selftest_package writes for an analysis, the identity in the source
\* manifest and the raw output.
Package(a, source, raw) ==
    LET payload == [observations |-> a, reconciliation |-> a, source |-> source,
                    validation |-> Validation(a), dashboard |-> a, run |-> a, raw |-> raw]
        ite6 == [subject |-> a, manifest |-> payload, dashboard |-> a]
    IN [f \in PayloadFile \cup {"manifest", "ite6", "complete", "extra"} |->
            CASE f \in PayloadFile -> payload[f]
              [] f = "manifest" -> payload
              [] f = "ite6" -> ite6
              [] f = "complete" -> [reconciliation |-> a, dashboard |-> a,
                                    manifest |-> payload, ite6 |-> ite6]
              [] f = "extra" -> {}]

\* COMPLETE.json binds MANIFEST.json and the in-toto statement, whose subject and
\* predicate repeat what COMPLETE.json says.
EnvelopeBound(package) ==
    /\ package.complete.manifest = package.manifest
    /\ package.ite6 = [subject |-> package.complete.reconciliation,
                       manifest |-> package.complete.manifest,
                       dashboard |-> package.complete.dashboard]
    /\ package.complete.ite6 = package.ite6

\* _normalize_analysis: the comparison is derived anew from the observations, and
\* that of the source is of the listed files.
AnalysisBound(package) ==
    /\ package.reconciliation = package.observations
    /\ package.complete.reconciliation = package.observations
    /\ package.observations["SOURCE_DIRECTORY"].identity = package.source

\* _payload_manifest: the exact set of files, each with its hash.
PayloadSealed(package) ==
    package.manifest = Payload(package) /\ package.extra = {}

\* _validate_raw_documents, of what each observation and its raw documents say.
RawMatches(observations, raw) ==
    \A p \in Profile :
        /\ WellFormed(raw[p]["cyclonedx"])
        /\ raw[p]["cyclonedx"] = observations[p].document

\* validation.json, dashboard.json and run.json are derived anew.
ProjectionsBound(package) ==
    /\ package.validation = Validation(package.observations)
    /\ package.dashboard = package.observations
    /\ package.complete.dashboard = package.dashboard
    /\ package.run = package.observations

\* verify_selftest_package
PackageVerifies(package) ==
    /\ EnvelopeBound(package)
    /\ AnalysisBound(package)
    /\ PayloadSealed(package)
    /\ RawMatches(package.observations, package.raw)
    /\ ProjectionsBound(package)

\* What verify_selftest_package returns, and the receipt repeats.
Summary(package) ==
    [reconciliation |-> package.reconciliation, dashboard |-> package.dashboard,
     manifest |-> package.manifest]

-----------------------------------------------------------------------------
(* The output root *)

\* The version of the scanner whose hash the program knows.
Pinned == 0

EmptyRoot ==
    [raw |-> [p \in Profile |-> Absent], scanner |-> Absent, package |-> Absent,
     registry |-> Absent, receipt |-> Absent, complete |-> Absent, failed |-> FALSE]

\* scan-receipt.json, SELFTEST_COMPLETE.json and data/runs.json
Receipt(a, rawSets, package) ==
    [identities |-> [p \in Profile |-> a[p].identity], raw |-> rawSets,
     package |-> Summary(package)]
Completion(receipt) ==
    [run |-> RunId(receipt.package.reconciliation), receipt |-> receipt,
     manifest |-> receipt.package.manifest]
Registration(a) == [run |-> RunId(a), dashboard |-> a]

CompleteRoot(a, raw) ==
    LET package == Package(a, a["SOURCE_DIRECTORY"].identity, raw)
        receipt == Receipt(a, raw, package)
    IN [raw |-> raw, scanner |-> Pinned, package |-> package, registry |-> Registration(a),
        receipt |-> receipt, complete |-> Completion(receipt), failed |-> FALSE]

\* _safe_root: FAILED.json is not of the exact set.
RootIsWhole(root) ==
    /\ root # Absent
    /\ ~ root.failed
    /\ Absent \notin {root.package, root.registry, root.receipt, root.complete}

\* Faulty variant: the hashes of the receipt are not compared.
RawTreeBoundByForm(root) ==
    \A p \in Profile : WellFormed(root.raw[p]["cyclonedx"])

\* _verify_raw_tree and _verify_raw_profile
RawTreeBound(root) ==
    /\ root.raw = root.receipt.raw
    /\ \A p \in Profile : WellFormed(root.raw[p]["cyclonedx"])

\* Faulty variant: the hash of the dashboard is not compared.
DataTreeBoundByRun(root) ==
    root.registry.run = RunId(root.receipt.package.reconciliation)

\* _verify_data_tree: the registry has the run of the receipt and no other.
DataTreeBound(root) ==
    /\ root.registry.run = RunId(root.receipt.package.reconciliation)
    /\ root.registry.dashboard = root.receipt.package.dashboard

\* _verify_package_cross_bindings
CrossBound(root) ==
    \A p \in Profile :
        root.receipt.identities[p] = root.package.observations[p].identity

\* verify_selftest_root; _verify_runtime_tree is the comparison of the scanner.
RootVerifies(root) ==
    /\ RootIsWhole(root)
    /\ RawTreeBound(root)
    /\ root.scanner = Pinned
    /\ PackageVerifies(root.package)
    /\ root.receipt.package = Summary(root.package)
    /\ CrossBound(root)
    /\ DataTreeBound(root)
    /\ root.complete = Completion(root.receipt)
=============================================================================
