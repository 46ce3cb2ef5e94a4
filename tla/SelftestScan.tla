---------------------------- MODULE SelftestScan ----------------------------
(***************************************************************************)
(* The self-test command, _execute_selftest in cli.py: one process scans   *)
(* three inputs with a pinned scanner and seals what it found.             *)
(*                                                                         *)
(* Scans take minutes and the inputs are directories and files that nobody *)
(* locks.  Each is identified by a hash before the scans and again after   *)
(* them; the scanner is copied and the copy is used.  Content is versioned *)
(* here: version 0 of the scanner is the pinned one, and an edit takes a   *)
(* thing from one version to the other, so that two edits restore it.      *)
(*                                                                         *)
(* Any exception leaves FAILED.json, if that can be written; a death or an *)
(* interrupt leaves what there is.                                         *)
(***************************************************************************)
EXTENDS SelftestRoot

CONSTANTS Prints,    \* the documents the scanner may print for version 0 and for 1
          Damaged,   \* raw output that something else has written to
          MaxEdits,  \* bound on the edits of one input, of the scanner or of its copy
          MaxEdited, \* bound on how many of them are edited
          ScanFaults \* what the environment may do: "io" and "kill"

ASSUME ScanAssumption ==
    /\ MaxEdits \in Nat /\ MaxEdited \in Nat
    /\ ScanFaults \subseteq {"io", "kill"}
    /\ Damaged \notin Document

VARIABLES pc,       \* the step the process takes next
          todo,     \* the profiles this phase has still to do
          job,      \* what the process holds in memory
          root,     \* the output root, or Absent
          version,  \* the version of each input and of the scanner
          edits,    \* how often each was edited, and the copy in the root
          scanned   \* what was read by the scan of each profile

scanVars == <<pc, todo, job, root, version, edits, scanned>>

Versioned == Profile \cup {"scanner"}
Thing == Versioned \cup {"copy"}

\* The orders in which the inputs are identified and checked, and scanned.
InputOrder == <<"SOURCE_DIRECTORY", "PORTABLE_RUNTIME", "OCI_ARCHIVE">>
ScanOrder == <<"SOURCE_DIRECTORY", "OCI_ARCHIVE", "PORTABLE_RUNTIME">>

NoJob == [identity |-> [p \in Profile |-> Absent],
          observations |-> [p \in Profile |-> Absent],
          rawSets |-> [p \in Profile |-> Absent],
          raw |-> Absent]

ScanInit ==
    /\ pc = "start"
    /\ todo = <<>>
    /\ job = NoJob
    /\ root = Absent
    /\ version = [t \in Versioned |-> 0]
    /\ edits = [t \in Thing |-> 0]
    /\ scanned = [p \in Profile |-> Absent]

ScanTo(step, profiles) == pc' = step /\ todo' = profiles
Fail == pc' = "failing" /\ todo' = <<>>

\* The phase ends with its last profile.
Onward(step, profiles) ==
    IF Len(todo) = 1 THEN ScanTo(step, profiles) ELSE pc' = pc /\ todo' = Tail(todo)

World == <<version, edits>>

-----------------------------------------------------------------------------
(* The command *)

\* _new_output_root
Start ==
    /\ pc = "start"
    /\ root = Absent
    /\ root' = EmptyRoot
    /\ ScanTo("acquire", <<>>)
    /\ UNCHANGED <<job, World, scanned>>

\* _verify_syft_acquisition: binary, configuration, receipt and registry are those
\* whose hashes the program knows.
Acquire ==
    /\ pc = "acquire"
    /\ IF version["scanner"] = Pinned THEN ScanTo("snapshot", <<>>) ELSE Fail
    /\ UNCHANGED <<job, root, World, scanned>>

\* _snapshot_pinned_runtime_file hashes what it copies.  _verify_syft_runtime then
\* runs the copy.
Snapshot ==
    /\ pc = "snapshot"
    /\ root' = [root EXCEPT !.scanner = version["scanner"]]
    /\ IF version["scanner"] = Pinned THEN ScanTo("identify", InputOrder) ELSE Fail
    /\ UNCHANGED <<job, World, scanned>>

\* build_exact_set_manifest of the directories, _file_input_identity of the archive.
Identify ==
    /\ pc = "identify"
    /\ LET p == Head(todo) IN job' = [job EXCEPT !.identity[p] = version[p]]
    /\ Onward("scan", ScanOrder)
    /\ UNCHANGED <<root, World, scanned>>

\* Syft reads the input and writes three files.
Scan ==
    /\ pc = "scan"
    /\ LET p == Head(todo)
           v == version[p]
       IN /\ \E d \in Prints[v] :
                root' = [root EXCEPT !.raw[p] =
                            [f \in Format |-> IF f = "cyclonedx" THEN d ELSE <<f, p, v>>]]
          /\ scanned' = [scanned EXCEPT ![p] = [input |-> v, scanner |-> root.scanner]]
    /\ ScanTo("observe", todo)
    /\ UNCHANGED <<job, World>>

\* The files are parsed, and the document is bound to the identity of the input.
Observe ==
    /\ pc = "observe"
    /\ LET p == Head(todo)
           d == root.raw[p]["cyclonedx"]
       IN IF Damaged \notin {root.raw[p][f] : f \in Format} /\ WellFormed(d)
          THEN /\ job' = [job EXCEPT !.observations[p] = Observation(p, job.identity[p], d)]
               /\ ScanTo("record", todo)
          ELSE Fail /\ UNCHANGED job
    /\ UNCHANGED <<root, World, scanned>>

\* build_exact_set_manifest of the three files, for the receipt.
Record ==
    /\ pc = "record"
    /\ LET p == Head(todo) IN job' = [job EXCEPT !.rawSets[p] = root.raw[p]]
    /\ IF Len(todo) = 1 THEN ScanTo("recheck", InputOrder) ELSE ScanTo("scan", Tail(todo))
    /\ UNCHANGED <<root, World, scanned>>

\* Faulty variant: the archive is not hashed again.
RecheckDirectories ==
    /\ pc = "recheck"
    /\ IF Head(todo) # "OCI_ARCHIVE" => version[Head(todo)] = job.identity[Head(todo)]
       THEN Onward("recheck_scanner", <<>>) ELSE Fail
    /\ UNCHANGED <<job, root, World, scanned>>

\* Every input is hashed once more.
Recheck ==
    /\ pc = "recheck"
    /\ IF version[Head(todo)] = job.identity[Head(todo)]
       THEN Onward("recheck_scanner", <<>>) ELSE Fail
    /\ UNCHANGED <<job, root, World, scanned>>

\* So are the binary and the configuration, the copies, receipt and registry.
RecheckScanner ==
    /\ pc = "recheck_scanner"
    /\ IF version["scanner"] = Pinned /\ root.scanner = Pinned
       THEN ScanTo("compare", <<>>) ELSE Fail
    /\ UNCHANGED <<job, root, World, scanned>>

\* reconcile_profile_observations, then write_selftest_package as far as
\* _validate_raw_documents, which takes the hash of each raw file.
Compare ==
    /\ pc = "compare"
    /\ IF RawMatches(job.observations, root.raw)
       THEN job' = [job EXCEPT !.raw = root.raw] /\ ScanTo("seal", <<>>)
       ELSE Fail /\ UNCHANGED job
    /\ UNCHANGED <<root, World, scanned>>

\* _copy_raw, which compares the hash of what it copies, and the rest of the package,
\* which is verified; nobody has touched it yet.
Seal ==
    /\ pc = "seal"
    /\ IF root.raw = job.raw
       THEN /\ root' = [root EXCEPT
                  !.package = Package(job.observations, job.identity["SOURCE_DIRECTORY"], job.raw),
                  !.registry = Registration(job.observations)]
            /\ ScanTo("receipt", <<>>)
       ELSE Fail /\ UNCHANGED root
    /\ UNCHANGED <<job, World, scanned>>

WriteReceipt ==
    /\ pc = "receipt"
    /\ root' = [root EXCEPT !.receipt = Receipt(job.observations, job.rawSets, root.package)]
    /\ ScanTo("complete", <<>>)
    /\ UNCHANGED <<job, World, scanned>>

WriteCompletion ==
    /\ pc = "complete"
    /\ root' = [root EXCEPT !.complete = Completion(root.receipt)]
    /\ ScanTo("hash", <<>>)
    /\ UNCHANGED <<job, World, scanned>>

\* The hash of SELFTEST_COMPLETE.json goes to the caller.
HashCompletion ==
    /\ pc = "hash"
    /\ ScanTo("done", <<>>)
    /\ UNCHANGED <<job, root, World, scanned>>

\* Faulty variant: a root that has been completed is not marked.
WriteFailureUnlessComplete ==
    /\ pc = "failing"
    /\ root' = [root EXCEPT !.failed = root.complete = Absent]
    /\ ScanTo("failed", <<>>)
    /\ UNCHANGED <<job, World, scanned>>

\* _write_selftest_failure
WriteFailure ==
    /\ pc = "failing"
    /\ root' = [root EXCEPT !.failed = TRUE]
    /\ ScanTo("failed", <<>>)
    /\ UNCHANGED <<job, World, scanned>>

Program ==
    \/ Start \/ Acquire \/ Snapshot \/ Identify \/ Scan \/ Observe \/ Record
    \/ Recheck \/ RecheckScanner \/ Compare \/ Seal
    \/ WriteReceipt \/ WriteCompletion \/ HashCompletion \/ WriteFailure

-----------------------------------------------------------------------------
(* The environment *)

Ended == {"start", "done", "failed", "mute", "dead"}

\* An operation fails, the scanner runs too long or leaves files in its cache.
StepFails ==
    /\ "io" \in ScanFaults
    /\ pc \notin Ended \cup {"failing"}
    /\ Fail
    /\ UNCHANGED <<job, root, World, scanned>>

\* FAILED.json cannot be written; _write_selftest_failure says nothing of it.
FailureUnrecorded ==
    /\ "io" \in ScanFaults
    /\ pc = "failing"
    /\ ScanTo("mute", <<>>)
    /\ UNCHANGED <<job, root, World, scanned>>

\* Death, or KeyboardInterrupt, which is no Exception.
Kill ==
    /\ "kill" \in ScanFaults
    /\ pc \notin Ended
    /\ ScanTo("dead", <<>>)
    /\ UNCHANGED <<job, root, World, scanned>>

\* Somebody edits an input, replaces the scanner, or the copy in the root.
Edit(t) ==
    /\ pc \notin Ended
    /\ t = "copy" => root.scanner # Absent
    /\ edits[t] < MaxEdits
    /\ Cardinality({u \in Thing : edits[u] > 0} \cup {t}) <= MaxEdited
    /\ IF t = "copy"
       THEN root' = [root EXCEPT !.scanner = 1 - @] /\ UNCHANGED version
       ELSE version' = [version EXCEPT ![t] = 1 - @] /\ UNCHANGED root
    /\ edits' = [edits EXCEPT ![t] = @ + 1]
    /\ UNCHANGED <<pc, todo, job, scanned>>

\* A raw file is written to, during the scan or later.
DamageRaw(p, f) ==
    /\ root # Absent /\ root.raw[p] # Absent
    /\ \A q \in Profile, g \in Format :
           root.raw[q] # Absent => root.raw[q][g] # Damaged
    /\ root' = [root EXCEPT !.raw[p] = [@ EXCEPT ![f] = Damaged]]
    /\ UNCHANGED <<pc, todo, job, World, scanned>>

ScanEnvironment ==
    \/ StepFails \/ FailureUnrecorded \/ Kill
    \/ \E t \in Thing : Edit(t)
    \/ \E p \in Profile, f \in Format : DamageRaw(p, f)

ScanNext == Program \/ ScanEnvironment

-----------------------------------------------------------------------------
(* Properties *)

\* An output root that verifies holds scans of the inputs that its receipt
\* identifies, made with the pinned scanner, although nothing keeps anybody from
\* editing them meanwhile.  What is changed and changed back goes unnoticed.
VerifiedMeansScanned ==
    root # Absent /\ RootVerifies(root) =>
        /\ \A p \in Profile :
               scanned[p].input = root.receipt.identities[p] \/ edits[p] > 1
        /\ \A p \in Profile : scanned[p].scanner = Pinned \/ edits["copy"] > 1

\* The raw output in the root and the raw output sealed in the package are two
\* copies, hashed at different times: a root verifies only if they agree.
VerifiedRawIsSealed ==
    root # Absent /\ RootVerifies(root) => root.raw = root.package.raw

\* A scan that was reported as failed leaves a root that does not verify, also if
\* it fails after SELFTEST_COMPLETE.json, unless FAILED.json could not be written.
FailedScanDoesNotVerify ==
    pc = "failed" => ~ RootVerifies(root)

\* Two profiles that give one component different versions are reported in a root
\* that verifies, with both records, and so is a portable runtime whose version no
\* other profile has.
DifferencesAreReported ==
    root # Absent /\ RootVerifies(root) =>
        LET a == root.package.observations
            findings == root.registry.run.findings
        IN \A p, q \in Profile : \A r \in RecordsOf(a[p]), s \in RecordsOf(a[q]) :
               p # q /\ r.key = s.key /\ Absent \notin {r.version, s.version}
                     /\ r.version # s.version =>
                   /\ \E f \in findings :
                          f.code = "VERSION_CONFLICT" /\ {r, s} \subseteq f.evidence
                   /\ p = "PORTABLE_RUNTIME" =>
                          \/ r.version \in Versions(Grouped(Records(a), r.key) \ RecordsOf(a[p]))
                          \/ \E f \in findings :
                                 f.code = "STALE_PORTABLE_RUNTIME" /\ {r, s} \subseteq f.evidence
=============================================================================
