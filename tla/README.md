# Verification of the offline SBOM evidence workbench

TLA+ modules that model the parts of `src/src/sbom_workbench` whose correctness
depends on order, failure, concurrency or a long chain of decisions; TLC runs
that check them on small instances; and TLAPS proofs that carry the most
important results to every instance. Line numbers refer to the files of
`src/src/sbom_workbench` unless a path is given.

## 1. Inventory

The workbench is a set of commands over one data root, and a read-only web
server. There is no daemon and no database: state is in files, and two commands
that run at the same time meet only there.

| component | source | state | operations | meets |
| --- | --- | --- | --- | --- |
| Run publication | `pack.py` | `runs/<run_id>/`, `runs/.<run_id>.<random>` (stages), `runs.json`, `.runs.json.tmp`, the flock on `.runs.lock` | `write_run_package`, `write_analysis_package`, `_publish_registered_stage`, `verify_*_package` | itself, the review server |
| Reference and self-test packages | `reference_pack.py`, `selftest_pack.py` | stages, then as above | `write_reference_package`, `write_selftest_package` and their verification | run publication, whoever edits a payload, raw output or a sealed file |
| Create-only JSON files | `manifest.py` | a final name, `.<name>.tmp` | `write_json_atomic`, exact-set manifests | all writers of receipts and reports |
| Self-test operations | `ops.py` | sandbox runs, backups, quarantine, receipts | backup, restore, clear | each other, and any program that changes a tree |
| Population and reconciliation | `reconcile.py`, `workflow.py` | none: functions from ingested records to a population, findings and a state | `_build_population`, `reconcile_components`, `recompute_graph_reconciliation`, `diff_graphs` | ingestion, packages |
| Local review server | `webapp.py` | the registry as loaded at start; one thread per request | `/api/runs`, `/api/runs/<id>`, model advice | run publication (reads what it writes) |
| Source acquisition | `acquire.py` | `<dataset>/<commit>/`, a lock file, a temporary directory | `acquire_git_source`, `verify_acquisition` | other acquisitions, remotes, an operator |
| Yocto acquisition | `yocto.py` | payload files, `.part` files, receipts, graphs | `acquire_profile`, `snapshot_profile_inputs`, `analyze_reference`, `verify_reference_graph`, `diff_references` | remotes, other acquisitions, the packages made of its payloads |
| EUVD handoff, narrowed decisions | `euvd_handoff.py`, `narrowing_reconcile.py`, `vex_consume.py`, `cli.py` | handoff directories, intake receipts, `decisions.json` and its receipt | `prepare_*_euvd_handoff`, `intake-vex`, `intake-narrowed` | the root of a self-test, the VEX document of an issuer, the hits of a matcher |
| Model lane | `model.py`, `model_eval.py` | none that outlives a call | one bounded call; evaluation of a set of cases | a local model server |
| Signing, attestation | `signing.py`, `in_toto.py` | a statement and its signature, in a sealed package | `sign-selftest-pack`, `verify-signature` | cosign, the exact set of the package |
| Ingestion, evidence links | `ingest.py`, `evidence.py`, `candidate.py` | none | parsing, validation | reconciliation |
| Exporters, validation | `exporters.py`, `validation.py` | none | CycloneDX and SPDX out; mechanical validation | packages |
| Registries, spreadsheets | `registry.py`, `resources.py`, `excel.py` | static tables | schema checks, formatting | all |
| Self-test harness | `selftest.py`, `selftest_root.py` | the output root of a scan | observations, their comparison, `verify_selftest_root` | packages, signing, handoffs |
| Command line | `cli.py` | files in the output directories | the self-test, signing, intake and Yocto commands, which write more than one file; dispatch | all |

What makes each of the modelled components correct, and what is hard about it:

* **Run publication.** A reader of `runs.json` sees an entry only together with
  the sealed package it names; what was published once never changes; a command
  that reports success has published; a command that fails leaves nothing that
  could refuse a later one. Hard: two renames that are not one step, a rollback
  that can fail, three kinds of exception that unwind differently, death with
  the lock held, an early look at the destination without the lock.
* **Create-only files.** At most one of any number of writers succeeds and the
  file keeps its content. Hard: all writers share one temporary name, and the
  `finally` clause unlinks whatever has it.
* **Self-test operations.** No run is erased; what was moved to quarantine has a
  receipt, or is put back, or its process died. Hard: there is no lock, a path
  can be changed or retaken between the manifest and the rename, undoing can fail.
* **Reconciliation.** The state `CLOSED` is the product's claim. It must mean
  that entries and candidates correspond one to one, that nothing the lanes say
  contradicts, and that the candidate states exactly the claimed relationships.
  Hard: clusters are transitive, scores tie, relationships pass through a
  translation that can lose them.
* **Review server.** The registry is frozen at start while packages are read per
  request and without a lock. A loaded run must stay readable.
* **Source acquisition.** One package per commit, by one author, holding what
  the registry pins. Hard: the lock is a file that outlives its owner, an
  operator removes it without knowing, and the `finally` clause of one
  invocation may then remove the lock of another.

* **The chain of a self-test.** A scan is sealed, signed, handed to a matcher,
  and the matcher's hits are narrowed by the VEX document of an issuer. Each link
  reads files that the one before has written, checks them, and reads them again
  later; nobody locks anything. What a reader accepts must be the work of one
  scan and one document. Hard: inputs that are edited during minutes of
  scanning, a root that is replaced between seven looks at it, two signings at a
  time, two files that make one record, failures that are reported after
  everything was written.
* **Yocto builds.** A payload has the pinned content under one name, a package
  is made of the payloads its profile pins, and the graph that is called
  `CLOSED`, like the comparison of two graphs, says exactly what the payloads say.
  Hard: payloads are read three times from a directory that anybody may write
  to, a hard link makes a payload visible before its first name is gone, the
  demonstration publishes one package after the other, three sources are matched
  by name only.

`PROJECT.json` lists every component with its status, and under `hazards` each
place where this code is hard to test, with the properties that cover it.

## 2. Modules

| module | what it is |
| --- | --- |
| `RunLedger` | what publication promises: a ledger of entries that only grows, at most one per run, and what a reader sees through it |
| `RunPublication` | `pack.py`, one action per system call whose order matters |
| `MCRunPublication` | its instance for TLC |
| `RunPublicationProofs` | its invariants and its refinement of `RunLedger`, proved |
| `ReviewServer`, `MCReviewServer`, `ReviewServerProofs` | `webapp.py` composed with `RunPublication` |
| `AtomicFile`, `AtomicFileProofs` | `write_json_atomic` |
| `SelftestOps`, `MCSelftestOps`, `SelftestOpsProofs` | `ops.py` |
| `Reconciliation`, `MCReconciliation`, `ReconciliationProofs` | `reconcile.py` and `workflow.recompute_graph_reconciliation` |
| `Acquisition`, `AcquisitionProofs` | `acquire.py` |
| `ReferencePackage` | `yocto.acquire_profile`, `snapshot_profile_inputs`, `reference_pack.py` and the two Yocto commands |
| `ReferenceGraph` | `yocto.analyze_reference`, `verify_reference_graph`, `diff_references` |
| `ReferenceProofs` | the theorems about both |
| `MCAcquisition` | both acquisitions and the graphs, for TLC |
| `SelftestRoot` | what is in a self-test's output root, and what makes it verify: `selftest.py`, `selftest_pack.py`, `selftest_root.py`; operators only |
| `SelftestScan` | `_execute_selftest`, which makes such a root |
| `SelftestSigning` | `_execute_sign`, `_execute_verify` in that root |
| `Handoff` | `euvd_handoff.py` |
| `NarrowedDecisions` | `_execute_intake_vex`, `_execute_intake_narrowed`, `vex_consume.py`, `narrowing_reconcile.py` |
| `MCSelftest` | the chain for TLC; each module of it extends the one before |
| `SelftestProofs` | the theorems about the chain |

Each module has *faulty variants* next to the definitions they differ from: the
same operator with a plausible mistake (a recheck dropped, an exclusive lock
made shared, a rollback left out). No specification uses them. They document
what every property is able to detect; `PROJECT.json` lists under `mutants`
which variant violates which property.

### RunPublication

An element of `Process` is one invocation of a packaging command; `job[p]` is
the run it packages. `stage`, `dest`, `registry` and `tmp` are the four things
on disk, `lock` is the flock, `view[p]` the registry as read under the lock, and
`error[p]` the exception in flight.

| action | code (`pack.py`) |
| --- | --- |
| `Begin`, `RefuseEarly` | the look at the destination without the lock, `mkdtemp` |
| `Seal` | payload, `MANIFEST.json`, `COMPLETE.json` |
| `TakeLock`, `Admit`, `Refuse` | flock; `_read_registry` and the four refusals, in their order |
| `CreateTmp`, `WriteTmp` | `open("xb")`, write and fsync |
| `MoveStage`, `ReplaceRegistry` | the two `os.replace` |
| `RollBack` | the `except Exception` around the second |
| `Sync`, `UnlinkTmp`, `Unlock` | fsync of the data root, `finally`, end of `with` |
| `Verify`, `RemoveStage` | `verify_run_package`, `rmtree` of a stage that was not moved |
| `StepFails`, `RecoveryFails`, `Interrupt`, `Kill` | a failing call on the way forward, one in a recovery clause, Ctrl-C, death |

`Unwind` says to which clause each step unwinds. It is the only place where
`KeyboardInterrupt` differs from `Exception`: the rollback at `pack.py:269` is
skipped, the `finally` clauses are not. `error` tells a call that failed on the
way forward ("fault") from one that failed in a recovery clause ("recovery") and
from an interrupt; after the last two, and after a death, an invocation is
`Unclean`: its clauses have not all done their work. A package's content is its digest. The
registry may be torn in the temporary file only. Files are durable as soon as
they are renamed (see section 6).

### ReviewServer

Extends `RunPublication` with `server`, the frozen registry, and per client the
request in progress: which runs it still has to read, the run whose directories
were looked at, the dashboards read so far. `Locate` and `Read` are separate
steps because a writer can act between the check of the path and the opening of
the file. Stopping the server ends all requests. The server writes nothing, so
every behaviour of the composition is one of `RunPublication`.

### AtomicFile

One call is `open("xb")` of the temporary name, write and fsync, `link` to the
final name, and the `finally` clause. Inodes are explicit, since the question is
whose file a call links: `Open` creates a new inode, `Link` gives the final name
to whatever inode has the temporary name. Every step may fail, the open
(`OpenFails`) and the `exists()` and `unlink()` of the `finally` clause
(`FinallyFails`, which ends the call as "stuck" with the temporary file in place)
included. `mkdir` and `json.dumps` come before the `try`; a call that fails there
has done nothing and is one that never starts.

### SelftestOps

A directory tree is its exact set, one value. `EditRun`, `EditQuarantine` and
`EditBackup` are another program that changes a tree or puts a new run at a free
name; `MaxEdits` bounds how often.
`clear` is: inspect, check that receipt and quarantine are free, rename, verify
the manifest after the move, write the receipt, recheck, and on any failure
unlink the receipt and rename back. `backup` and `restore` copy to a private
stage, check the copy, and rename it to a name that has to be free.

### Reconciliation

`facts` are what the lanes observed, `claims` the relationships they claim,
`candidates` and `links` what the candidate SBOM states. There are three steps:
`BuildPopulation` (clusters and their conflicts), `Reconcile` (scores, findings,
projection of relationships), `Recompute` (the second pass of `workflow.py` that
adds relationship findings of the candidate and gives the state that is
published). The union-find loop is stated by its result: the partition into
least sets closed under the relation `SameComponent`. Where the code iterates a
dictionary whose order decides, `Assignments` leaves the choice open.

### Acquisition

`lock` is a file, so it is a Boolean and nobody's: whoever reaches `Release`
removes it. `ClearLock` is an operator who takes it for a stale one; `MaxClears`
bounds how often. `Enter` is the gap between the creation of the lock file and
the `try` whose `finally` removes it. What a remote delivers is any element of
`Content`; the comparison with the pin is `MatchesPin`.

### ReferencePackage

`acquiring`, `wanted`, `next` and `part` are the calls of
`acquire-yocto-reference`: the step, the profile, the payload at hand and the
`.part` file. `payloads` is what has its final name. `building`, `turn`,
`reading`, `analysed` and `staged` are the calls of `yocto-reference-demo`, and
`packages` is what they have published.

| action | code |
| --- | --- |
| `LookForPayload`, `Download`, `LinkPayload`, `UnlinkPart` | `_safe_destination`; the download and its hash; `os.link`; the `unlink` after it (`yocto.py:407`) |
| `PayloadFails`, `UnwindPart`, `AcquirerDies` | an exception on the way, the clause that removes what this call has made, death |
| `Analyze`, `VerifyGraph`, `StageInput` | the three reads of each payload, for the graph, for its verification and for the stage |
| `PublishPackage`, `NextProfile`, `DemoStops` | `_publish_registered_stage` (one step here), the loop over profiles, failure or death |
| `Touch` | somebody edits or removes a payload; `MaxTouched` bounds how often |

A payload with two names is refused by every reader, so `Names` counts them. A
profile whose graph is `CLOSED` is refused by `write_reference_package` before
anything is written; the profiles of this module are `OPEN` ones.

### ReferenceGraph

A build is what its payloads say after parsing: the manifest, the SPDX packages
with their files and dependencies, and the archive. `Graph` derives the
population, relations, findings and state from the projections (`Lanes`);
`StructureVerifies` derives all of it anew from the projections a graph carries,
which is what `diff_references` does, having no payloads. `ChangeGraph` replaces
one part of a graph in its file by that of the other graph.

### SelftestRoot, SelftestScan

An output root is a record with one field per file or tree. The hash of a thing
is the thing. `RootVerifies` is the conjunction of the checks of
`verify_selftest_root`, one operator per function of the code, and `Findings`
is `reconcile_profile_observations`. Files that are functions of the comparison
(dashboard, run record, registry entry) are represented by the analysis.

`SelftestScan` is one process. Its `pc` follows `_execute_selftest`: take the
scanner and copy it (`Acquire`, `Snapshot`), hash the three inputs
(`Identify`), scan, parse and record each (`Scan`, `Observe`, `Record`), hash
inputs and scanner again (`Recheck`, `RecheckScanner`), compare, seal, and write
receipt and completion; `WriteFailure` is the `except` clause. Inputs, scanner
and its copy have a version that an edit changes and a second edit restores.
The raw output may be written to by somebody else at any time (`DamageRaw`).

### SelftestSigning

`BeginSign` is the look for a signature, `MakeRuntime`, `RunCosign` and
`WriteSignatureReceipt` the three writes after it, `BeginVerify` and `EndVerify`
the verification of a receipt. `overlap` remembers which signings were active
at the same time. cosign is external: it names the statement it signed and the
call it was signed in. It is a child process, so a command that dies while it
waits (`SigningDies`) leaves it at work ("orphan"), and `RunCosign` may still write
the signature. A signing is active as long as its command or its cosign is
(`Signs`). A timeout of `subprocess.run` kills cosign, which is `SigningFails`.

### Handoff

`Declare` or `VerifyRoot`, `ReadCompletion`, `ReadSource`, `Look`, `Publish`,
`CompareSource`, `Revalidate`, `RehashCompletion`, `RehashSource` are the looks
of one call at the root and its two at the handoff directory, in the order of
the code. `Rescan` removes the root and scans anew; `EditCandidate` replaces the
file that declared handoffs are made of; `Restore` puts single files of another
root in place of those that are there.

### NarrowedDecisions

An intake verifies a document, reads it and writes a receipt (`VerifyDocument`,
`ReadDocument`, `WriteIntake`). A reconciliation reads that receipt, binds the
document to it, decides per hit, looks for a record, makes the directory, and
writes the decisions and then their receipt (`ReadReceipt` to
`WriteNarrowedReceipt`). `ChangeDocument`, `ChangeSignature` and `ChangeHits` are
the issuer and the matcher, who write in place. `Canonical` drops what
`_ref_to_purl` drops, so that two references may be one package.

## 3. Runs

| run | instance | shows |
| --- | --- | --- |
| `publication_faults` | 3 invocations, 2 of one run, every fault, `RegistryLimit = 1` | `RegisteredRunsAreSealed`, `DoneMeansPublished`, `PublishedRunsNeverChange`, refinement `PublicationIsAtomic`, what a refusal under the lock has as its cause, `RefusedUnderLockForCause`, liveness `EveryInvocationEnds` |
| `publication_io` | the same, only the forward path fails | the code's own recovery is complete: `NoOrphanRun`, `NothingLeftBehind`, liveness `WantedRunsArePublished` |
| `publication_interrupt` | the same, only Ctrl-C | a violation of `NoOrphanRun` (finding 1) |
| `review_server` | 2 writers with all faults but Ctrl-C, 1 client, restarts, one oversized package | `OnlySizeFails`, `ShownIsRegistered`, `NoRunDisappears` |
| `atomic_file` | 3 overlapping calls, failures of every step, the open and the `finally` clause included, and deaths | `OneWinner`, `WinnerWroteTheFile`, `StaleTmpCostsOneRetry` |
| `ops_faults` | a clear, a second clear or a backup, a restore; failures, deaths, one outside change | `QuarantineIsAccounted`, `ReceiptsNameQuarantine`, `NothingErased`, `RestoredIsAnchored` |
| `ops_receipt` | two clears with one receipt path, nothing fails | a violation of `QuarantineIsAccounted` (finding 2) |
| `reconciliation_closed` | all components of two lanes in six variants, up to two records and two candidates; for any two components, all claims and up to two stated links over two relations | `ClosedIsOneToOne`, `ClosedHasNoContradiction`, `ClosedStatesTheRelations` |
| `reconciliation_bridge` | the same | a violation of `IdentifiersAreShared` (finding 3) |
| `acquisition` | one of three stages per behaviour. Commits: 3 acquisitions of one commit, failures, deaths, two removed locks. Packages: 2 acquisitions and 2 demonstrations of two profiles with two payloads and one, failures, deaths, one edit. Graphs: every build of up to two packages and two files, and every two of a smaller set, one edit by hand | `SuccessIsOwn`, `LockIsExclusive`, `TargetIsFinal`; `PackageIsOfItsProfile`, `AcquiredCanBeRead`, `ComparedIsPublished`; `ClosedReferenceIsExact`, `DifferenceIsComplete` |
| `selftest_chain` | one of five stages per behaviour. Scan: four documents, one thing edited up to twice, one damaged file, failures and death. Sign: 3 signings. Send: a handoff with two replacements or beside a signing, or two handoffs with one replacement. Narrow: 2 intakes, 2 reconciliations, three VEX documents, two changes. Mix: files of two roots in any combination | `VerifiedMeansScanned`, `VerifiedRawIsSealed`, `FailedScanDoesNotVerify`, `DifferencesAreReported`; `SignatureStaysBound`; `VerifiedHandoffIsOfOneRoot`; `NarrowedIsJustified`, `ReceiptHasItsDecisions`, `RefusedIsRecorded`; `OneRootVerifies` |
| `selftest_signed` | the stage of signings alone | a violation of `SignedRootVerifies` (finding 4) |

Why the bounds are enough. Two invocations of one run meet in every conflict
over a destination, a third shows what a failed one leaves to a later one while
another is at work, and with `RegistryLimit = 1` the second entry already
crosses the size limit. In `AtomicFile` three calls are needed: one whose open
is refused unlinks the temporary file of the first, and the third creates it
anew. In `SelftestOps` one outside change suffices to
retake a name or change a tree between any two steps of a command. In
`Reconciliation` bridging needs three records, two lanes are all that
`ingest.py` admits, and two relations between the same components are what it
takes for a claim to be met by a link of another kind. In `Acquisition` two removals put three invocations past
the lock. In the packages of Yocto builds one profile has two payloads, so that
a call can fail between them, and one has one; two demonstrations meet at each
package. In the graphs two packages of one name make a match ambiguous, and two
files of one path a hash contradictory. In the scan one edited thing suffices:
the hazards are an edit between two looks and an edit that is taken back. With
three replacements a verified handoff can mix two roots, which is why
`VerifiedHandoffIsOfOneRoot` is about fewer and why the run allows two. The four
documents are two that differ in the serial number only, one with conflicting
versions, and one that is not well-formed; the three VEX documents are one with
contradicting statements, one that narrows, and one that does not validate. The
stages are separate behaviours of one run: what one component leaves to the
next is the initial state of the next stage (a complete root, a handoff of a
verified root), and `send` composes handoffs with signings on one root. The
theorems have none of these bounds.

Two invariants that the proofs of publication and files rest on,
`WriterKnowledge` and `NeverReplaced`, and the type invariants of the modules
with proofs, are proved and no longer run.

`CHECK_DEADLOCK FALSE` is set everywhere: all models are of commands that end.

**Fairness.** Only `publication_faults` and `publication_io` check liveness,
under `WF_vars(Program(p))` for each invocation: the operating system runs every
live process. Weak fairness is enough for the lock although several wait for it:
an invocation takes the flock once and ends, so the lock is free for good when
the others are done. Faults have no fairness; none has to happen.

## 4. Proofs

All in the `*Proofs` modules, for every number of invocations, runs, digests,
contents and every set of faults. They assume only the named `ASSUME`s of the
modules: placeholder values are not real values, bounds are naturals. What a
theorem assumes beyond them stands in the theorem and is named below; every such
hypothesis is one that the run of its property has, and a run without it shows
why it is there, or the text below says so.

* **RunPublication.** `RegisteredRunsAreSealed` is not inductive: that
  `ReplaceRegistry` keeps it depends on what the temporary file and the
  destination hold by then. `IInv` adds `WriterKnowledge`: who is between lock
  and unlock holds the flock; its stage is sealed; its reading of `runs.json` is
  current; the temporary file is that reading and its own entry; its destination
  is absent before the first rename and its own package after. The lock makes
  this stable: another invocation cannot change the registry, the temporary file
  or the destination of a holder. From `IInv`: `TypeCorrect`,
  `RegisteredSafety`, `SuccessIsPublication`, `Immutability`. `Refinement` maps
  `ReplaceRegistry` to the one step of `RunLedger` and all others to stuttering;
  it uses `VisibleMatches`, that what a reader gets through an entry is what the
  entry says.
* **RunPublication, recovery.** `RefusedUnderLockForCauseAlways` holds for every set
  of faults. `ResidueInv` says of each thing that can refuse somebody who to hold
  to account: a directory without an entry has a writer between its rename and
  the registry's, or an `Unclean` invocation for that run (`OrphanHasCause`); a
  temporary registry has a writer under the lock, or some `Unclean` invocation
  (`TmpHasCause`). Being unclean is never withdrawn (`UncleanStays`), and by
  `WriterKnowledge` only one process is under the lock, so a writer that finds
  something there finds the residue of an unclean one. An invocation whose own
  failure was undone is never the cause. `NoOrphanRunAlways` and
  `NothingLeftBehindAlways` assume `OnlyForwardFails`, that is
  `Faults \subseteq {"io"}`: a clause that fails, an interrupt between the two
  renames and a death do leave something (finding 1 for the interrupt). Under it
  nobody is unclean, and `CleanInv` adds to `ResidueInv` that a stage belongs to a
  process between `mkdtemp` and the rename, or between the rename's undoing and
  `rmtree` (`StageHasOwner`).
* **RunPublication, what liveness rests on.** The prover knows neither fairness nor
  `ENABLED`. Three theorems, with every fault allowed, prove all that
  `EveryInvocationEnds` and `WantedRunsArePublished` need besides:
  `NobodyIsStuckAlways` (the system call an invocation is at is not refused and
  not blocked, except by a living holder of the lock that goes on; `HolderInv`
  adds to `IInv` that the lock has no absent holder, and that the temporary file
  a writer has looked for under the lock is not created by another),
  `StepsAreBounded` (each step, failures and interrupts included, lowers the
  number of steps its invocation has ahead and moves no other: nothing is
  retried) and `SettledRunsArePublishedAlways` (when all have ended, each wanted
  run is registered, or an invocation for it met a fault, died, or found the
  registry unreadable or a stale temporary file). The last follows from
  `ExcuseInv`: a directory under `runs/`, and each refusal for a run, has somebody
  to answer for it, a registered entry, a writer between the renames, or an
  invocation in trouble; none of these is ever withdrawn without another.
* **ReviewServer.** `WritersBehave` proves `ReviewSpec => Spec`, so that all of
  the above holds in the composition without being proved again. `ServerInv`
  says of each thing the server remembers that it is a subset of `runs.json`
  (loaded entries, dashboards read, list shown) and that a failed request names
  an oversized entry. Steps of writers keep it by `PublishedStep`.
  `OnlySizeFailsAlways`, `ShownStaysRegistered` and `ListsGrow` follow.
* **AtomicFile.** `LinkInv` ties the final name to the only call that may report
  success; `AtMostOneWinner` and `FileIsNeverReplaced` follow. The two properties
  that count need more. `MeetInv`: only finitely many calls have started, and two
  that run have met. `OwnInv`: the temporary file is the call's own until it has
  linked it, unless it met two others, which is what it takes to have the name
  removed and made anew; hence `WinnerWroteTheFileAlways`. `DebtInv` is an exchange
  argument for `StaleTmpCostsOneRetryAlways`: each death, and
  each failure of the `finally` clause, may leave one stale temporary file; a
  refusal of a call that runs alone removes it, or that call becomes one that
  could not. So the refusals and the file that is still there are together never
  more than the calls that died or are stuck. Every fault of the module is
  allowed, and the number of calls need not be finite.
* **SelftestOps.** Other programs may edit runs, quarantine and backups, so that
  little is stable. `Knowledge` says what a command remembers of the tree it has
  examined or staged. `HoldInv` says that a tree in quarantine is there while a
  clear holds it, and that at most one clear holds it; two clears of one run
  exclude each other by the name that has to be free. From these:
  `ReceiptsNameQuarantineAlways` with `ReceiptInv` (each receipt has an author that
  moved the tree it names), also when clears were given one receipt path;
  `QuarantineIsAccountedAlways` with `AccountInv`, for specifications in which
  each clear has a receipt path of its own (`OwnReceipts`; the run `ops_receipt`
  violates the property without it, finding 2). `RestoredIsAnchoredAlways` needs
  only `Knowledge`. `NothingErasedAlways` counts copies: `MoveKeepsCopies` shows
  that a rename takes one from one place and adds one to the other, `PlaceRun`
  and the other steps only add. It assumes finitely many runs, for the
  cardinalities; that the quarantine is finite is proved.
* **Reconciliation.** There is nothing to iterate, so the work is in lemmas on
  the operators: `MatchedIsOneToOne` (if all findings are matched, entries and
  candidates correspond), `NoConflictNoContradiction` (with two lanes an
  entry with no conflict has no two records that disagree),
  `MatchedRelationsAreStated`. `Correspond` carries them to the state.
  `ClosedIsConsistent` assumes exactly two lanes, as in `ingest.py`.
* **Acquisition.** `PackageInv` says what an invocation knows at each step (a
  tree that passed the examination is the pinned one; once it has placed its
  package the target is its own) and does not mention the lock, which is why
  `SuccessIsAlwaysOwn` and `TargetStays` hold however locks are lost: they rest
  on the rename that fails on a directory with entries. `LockExcludes` needs
  `LockInv` and holds as long as no lock was removed.

* **ReferenceGraph.** `ClosedGraphSaysTheSame` is about the operators alone:
  if no finding is open, `Matches` is a bijection between names, and each clause of
  `SaysTheSame` follows from one kind of finding. `GraphInv` adds that the
  projections in a graph's file are those of some admitted build, also after an
  edit, which takes a part from the other graph; the rest of the graph may then
  be anything, and verification derives it anew.
  `DifferenceIsCompleteAlways` needs only that and `StructureVerifies` of both
  sides: versions and hashes are functions of keys and paths.
* **ReferencePackage.** `AcquireInv` says of each call which payloads it has
  placed and that its `.part` file is the second name of at most one;
  `ReferenceInv` says of each demonstration that what it has staged, analysed
  and published agrees as far as it has read. Assumed: a profile has payloads
  and one turn (`PayloadAssumption`, `OrderAssumption`), and what is absent is no
  file and no package (`AbsentAssumption`).
* **The scan** (`ScanSpec`: `SelftestScan` alone). `VerifiedMeansScanned` is not
  inductive: it speaks of three looks at one input. `InputInv` uses that a thing
  edited at most once has as its version how often it was edited, so that
  versions only grow, what was identified is at most what was scanned and that at
  most what is there; equality of the first and the last at the recheck squeezes
  the middle. `RawInv` does the same for raw files with `Later`: a damaged file
  stays damaged, so a file that is equal at both ends was equal between.
  `ReceiptInv` carries what is known when the receipt is written to every later
  state, failures and deaths included. `DifferencesAreReportedAlways` rests on
  lemmas about sets of records and assumes that documents have finitely many
  components (`DocumentAssumption`).
* **Signing** (`SignSpec`). `SigningInv`: a signing that had no other beside it
  is the only one while it is active and, once there is a signature, for good.
  A signing is active while its cosign is, also after the death of its command:
  without that a second command could begin beside an orphan and pass its look.
  `SignatureStaysBoundAlways` assumes `SignatureIsThere`, that a signature is
  not the absent file, and a root with a package to sign.
* **Mixed roots** (`MixSpec`: files of any number of roots, put back in any
  order). `CompletionDeterminesRoot`: two roots of the right form that verify and
  have the same `SELFTEST_COMPLETE.json` are equal, file by file, because each
  file is in a hash chain that starts there. `OneRootVerifiesAlways` follows.
* **Handoffs** (`SendSpec`). `SendInv` counts: what a call has read that does
  not agree was read from two roots, so the root was replaced in between, and
  has to be replaced again for each later look to agree with both. With seven
  looks, mixing takes three replacements, and below three all agree. It uses
  `RootOfScanBinds`, that a complete scan leaves a root of that form.
* **Intakes and reconciliations** (`NarrowSpec`). `NarrowInv` says what a
  reconciliation has decided as a function of receipt, document and the hits
  in the name of its record, and of a record that it holds what the call that
  made it has decided, the receipt last; a record without its receipt is that of
  a call that is at work on it or has failed.

* **The chain after the scan** (`ChainSpec`). The specifications above have the
  rest of the chain stand still. `ChainSpec` lets signings, handoffs, replacements
  of the root, intakes and reconciliations take their steps in any order, and
  starts from a root of a scan (`Roots`) and from any handoffs that were made
  before it (`DistinctHandoffs`). `ChainSignatureStaysBound`,
  `ChainHandoffIsOfOneRoot` and `ChainRecordsAreSound` state the properties there;
  the lemmas of the components are used again, and what is new is that none
  disturbs another. A signing adds only names to the package and to no file that a
  handoff reads, which is why `SendInv` asks of the root `SourceIsBound` and not to
  be one of `Roots` (`SigningKeepsSendInv`). The root is replaced only while nobody
  signs and no signature is there: the user removes it (a scan refuses an output
  directory that exists), and the guard of `Rescan` says that the user does not do
  so during a signing or after one. A handoff is added under a new name,
  so that what a reconciliation has found stays the handoff of that name
  (`AddedHandoffKeepsInv`). The scan itself and `MixSpec` stay specifications of
  their own.

Only model-checked: liveness itself (`EveryInvocationEnds`,
`WantedRunsArePublished`), since fairness and `ENABLED` are out of the prover's
reach.

## 5. Findings

1. **Ctrl-C between the two renames leaves an orphan run** (`pack.py:269`,
   run `publication_interrupt`). `except Exception` does not catch
   `KeyboardInterrupt`, so the directory stays under `runs/` with no registry
   entry, and packaging the run again is refused for ever.
2. **A clear that loses its receipt path removes the receipt of the winner**
   (`ops.py:326`, run `ops_receipt`). The run that was cleared successfully is
   then in quarantine without a receipt.
3. **An entry can hold records with disjoint identifiers** (`reconcile.py:310`,
   run `reconciliation_bridge`), when a record without identifiers is linked to
   both. The comment at `reconcile.py:348` says otherwise. With two lanes the
   entry has a conflict and the state is `OPEN`, which `ClosedHasNoContradiction`
   shows for all inputs, so the divergence is in the comment's reasoning.

4. **Signing in place breaks the sealed package** (`cli.py:1617`, run
   `selftest_signed`). cosign writes `ite6-statement.json.sig` into the package
   and the command makes `.cosign-runtime` there; `verify-signature` makes the
   latter, too. The exact set has neither, so the package, the root it is in and
   every handoff of that root are refused from the first signing on.
   `src/README.md:49` calls a signature an enhancement that blocks nothing.

Some behaviours hold as modelled and may surprise: one package over the server's
8 MiB (`webapp.py:282`) makes every list of runs fail from the next start on,
although packaging accepts it; and a writer that crosses the 1 MiB of
`_read_registry` (`pack.py:217`) succeeds, and every later writer is refused.
`OnlySizeFails` and `WantedRunsArePublished` name them as the only exceptions.
Three replacements of a root during one verified handoff can mix two roots. A
handoff whose call failed after the rename stays, and a retry from the same
source is refused. A record that was made while document and receipt disagreed has the
name of the one that would be made after, and refuses it (`cli.py:1878`);
`RefusedIsRecorded` names this and a record without receipt, of a call that is at
work or has failed, as the only exceptions. A demonstration that fails at its second profile has published the
first, and its repetition is refused for good. A death between `link` and
`unlink` of a payload leaves a file that no reader accepts and no acquisition
replaces. A scan that fails after its completion file was written, and cannot
write `FAILED.json` either, leaves a root that verifies.

Where the code does go wrong, the property that is about the place says exactly
when, and so excepts the case instead of forbidding it:

| what | where | said by |
| --- | --- | --- |
| a writer that dies, or cannot clean up, leaves `.runs.json.tmp`, and every later writer is refused | `pack.py:259` | `RefusedUnderLockForCause`: only such a writer is the cause |
| a registry over 1 MiB refuses every writer | `pack.py:217` | `WantedRunsArePublished` excepts it |
| a package over 8 MiB makes the lists fail | `webapp.py:282` | `OnlySizeFails` names it as the only cause |
| the lock file of a dead acquisition refuses the later ones | `acquire.py:514` | not by `LockIsExclusive`, which is about two that are past it; `ClearLock` is the way out |
| the document changes between its verification by cosign and its reading | `cli.py:1746` | `NarrowedIsJustified` excepts what was read so |
| two bindings have one record name | `cli.py:1878` | `RefusedIsRecorded`, first exception |
| a record whose receipt was never written refuses the repetition | `cli.py:1883` | `RefusedIsRecorded`, second exception |

## 6. What is not modelled

* Parsing (SPDX, CycloneDX, tar, zstd, VEX, hit lists), validation of shapes,
  path and symlink checks, headers and tokens: their effect is a refusal before
  any state is touched. The models start from what parsing admits.
* Exporters, spreadsheets, profiles, registries, ingestion of fixtures:
  formatting, static data and pure functions.
* The model lane: one bounded call of a local server, no state that another
  call reads. `scan-source-only` and the model commands of `cli.py` write one
  file each.
* `workflow.diff_graphs`: entries are keyed by source component ids without
  their lanes, so two entries with the same ids are one to it; no property
  covers this. The comparison of Yocto builds is modelled.
* Release scripts, fixtures and schemas: not part of the running system.
* Power loss: a rename is durable when it returns. `pack.py:272` syncs the data
  root and not `runs/`, which this abstraction cannot see.

## 7. Plan

What is left, by what the system would suffer most from.

1. Durability: renames that are lost until their directory is synced, for
   `RunPublication` and the receipts of the command line.
2. `ReleaseDiff`, the keys of `workflow.diff_graphs`; `ComponentClusters`, the
   union-find loop of `reconcile.py` (293-312), refining the partition that
   `Reconciliation` states.
3. `ArchiveExtraction`: the limits and the cleanup of `safe_extract_tar`,
   refining `Fetch` of `Acquisition`.
4. The order of writes in `scan-source-only` and in the model evaluation.
5. Proofs: the scan composed with the rest of the chain, so that `ChainSpec` need
   not start from a root of `Roots`; the acquisitions beside the demonstrations
   that read what they place.
