--------------------------- MODULE RunPublication ---------------------------
(***************************************************************************)
(* Publication of sealed run packages, sbom_workbench/pack.py.             *)
(*                                                                         *)
(* write_run_package and write_analysis_package (and, with other payloads, *)
(* write_reference_package and write_selftest_package) stage a directory   *)
(* under runs/, fill it, and hand it to _publish_registered_stage, which   *)
(* takes an flock on .runs.lock, reads runs.json, writes the new registry  *)
(* to .runs.json.tmp, renames the stage to runs/<run_id>, renames the      *)
(* temporary file to runs.json, syncs the data root and unlocks.  The      *)
(* package is verified after that.                                         *)
(*                                                                         *)
(* One element of Process is one invocation of the command: an operating   *)
(* system process that packages one run and ends.  The steps are the       *)
(* system calls whose order matters.  An exception unwinds through the     *)
(* finally and except clauses that enclose the step it was raised in, and  *)
(* these are steps too: they can fail, and the process can die in them.    *)
(***************************************************************************)
EXTENDS FiniteSets, Naturals

CONSTANTS Process,        \* invocations of the packaging commands
          RunId,          \* run identities
          Digest,         \* SHA-256 of a dashboard.json: stands for a package's content
          Nobody,         \* no process holds the lock
          NoDigest,       \* the digest of a directory that has no dashboard.json yet
          RegistryLimit,  \* entries that fit the 1 MiB _read_registry accepts
          Faults          \* what the environment may do, a subset of FaultKind

FaultKind ==
    { "io",         \* a system call of the forward path fails
      "recovery",   \* a system call of a finally or except clause fails
      "interrupt",  \* KeyboardInterrupt: finally clauses run, "except Exception" does not
      "kill" }      \* the process dies; the operating system releases its flock

ASSUME FaultsAssumption == Faults \subseteq FaultKind
ASSUME NobodyAssumption == Nobody \notin Process
ASSUME NoDigestAssumption == NoDigest \notin Digest
ASSUME RegistryLimitAssumption == RegistryLimit \in Nat

VARIABLES job,       \* the graph each process packages: its run_id and its content
          pc,        \* the step each process takes next
          error,     \* the exception in flight in each process
          stage,     \* the process's directory runs/.<run_id>.<random>
          dest,      \* the directory runs/<run_id>
          registry,  \* the file runs.json
          tmp,       \* the file .runs.json.tmp
          view,      \* the registry entries each process read under the lock
          lock       \* the holder of the flock on .runs.lock

vars == <<job, pc, error, stage, dest, registry, tmp, view, lock>>
files == <<stage, dest, registry, tmp>>

-----------------------------------------------------------------------------
(* Values *)

Entry == [run_id: RunId, digest: Digest]

\* A package directory: absent, being filled, or sealed by COMPLETE.json.
Directory == [state: {"absent", "partial", "sealed"}, digest: Digest \cup {NoDigest}]
NoDirectory == [state |-> "absent", digest |-> NoDigest]

\* A registry file: absent, cut short, or a whole JSON document.
File == [state: {"absent", "torn", "whole"}, entries: SUBSET Entry]
NoFile == [state |-> "absent", entries |-> {}]

Error == { "none", "exists", "exists_locked", "registered", "stale_tmp",
           "unreadable",
           "fault", "recovery", "interrupt" }  \* raised in which way, see the environment

Forward == { "start", "staging", "waiting", "admitting", "creating", "writing",
             "moving", "registering", "syncing", "verifying" }
Recovery == { "rollback", "unlinking", "unlocking", "cleanup" }
Ended == { "done", "failed", "dead" }

\* The steps taken while the flock is held.
Locked == { "admitting", "creating", "writing", "moving", "registering",
            "syncing", "rollback", "unlinking", "unlocking" }

Exists(thing) == thing.state # "absent"
EntryOf(p) == [run_id |-> job[p].run_id, digest |-> stage[p].digest]
Registered(r) == \E e \in registry.entries : e.run_id = r
Active(p) == pc[p] \notin Ended

Goto(p, step) == pc' = [pc EXCEPT ![p] = step]
Raise(p, what) == error' = [error EXCEPT ![p] = what]

-----------------------------------------------------------------------------
Init ==
    /\ job \in [Process -> Entry]
    /\ pc = [p \in Process |-> "start"]
    /\ error = [p \in Process |-> "none"]
    /\ stage = [p \in Process |-> NoDirectory]
    /\ dest = [r \in RunId |-> NoDirectory]
    /\ registry = NoFile
    /\ tmp = NoFile
    /\ view = [p \in Process |-> {}]
    /\ lock = Nobody

-----------------------------------------------------------------------------
(* Staging, before the lock is taken *)

\* The destination is looked at without the lock; then mkdtemp.
Begin(p) ==
    /\ pc[p] = "start"
    /\ ~Exists(dest[job[p].run_id])
    /\ stage' = [stage EXCEPT ![p] = [state |-> "partial", digest |-> NoDigest]]
    /\ Goto(p, "staging")
    /\ UNCHANGED <<job, error, dest, registry, tmp, view, lock>>

RefuseEarly(p) ==
    /\ pc[p] = "start"
    /\ Exists(dest[job[p].run_id])
    /\ Raise(p, "exists")
    /\ Goto(p, "failed")
    /\ UNCHANGED <<job, files, view, lock>>

\* The payload files, MANIFEST.json, and COMPLETE.json last.
Seal(p) ==
    /\ pc[p] = "staging"
    /\ stage' = [stage EXCEPT ![p] = [state |-> "sealed", digest |-> job[p].digest]]
    /\ Goto(p, "waiting")
    /\ UNCHANGED <<job, error, dest, registry, tmp, view, lock>>

-----------------------------------------------------------------------------
(* _publish_registered_stage *)

TakeLock(p) ==
    /\ pc[p] = "waiting"
    /\ lock = Nobody
    /\ lock' = p
    /\ Goto(p, "admitting")
    /\ UNCHANGED <<job, error, files, view>>

\* _read_registry accepts a missing file and a whole document up to its size limit.
Readable(file) ==
    /\ file.state # "torn"
    /\ Cardinality(file.entries) <= RegistryLimit

\* Faulty variant: the destination is only looked at before the lock is taken.
RefusalWithoutRecheck(p) ==
    CASE ~Readable(registry) -> "unreadable"
      [] Readable(registry) /\ Exists(tmp) -> "stale_tmp"
      [] OTHER -> "none"

\* The refusals under the lock, in the order of the code.
Refusal(p) ==
    CASE ~Readable(registry) -> "unreadable"
      [] Readable(registry) /\ Exists(dest[job[p].run_id]) -> "exists_locked"
      [] /\ Readable(registry)
         /\ ~Exists(dest[job[p].run_id])
         /\ Registered(job[p].run_id) -> "registered"
      [] /\ Readable(registry)
         /\ ~Exists(dest[job[p].run_id])
         /\ ~Registered(job[p].run_id)
         /\ Exists(tmp) -> "stale_tmp"
      [] OTHER -> "none"

Admit(p) ==
    /\ pc[p] = "admitting"
    /\ Refusal(p) = "none"
    /\ view' = [view EXCEPT ![p] = registry.entries]
    /\ Goto(p, "creating")
    /\ UNCHANGED <<job, error, files, lock>>

\* Raised outside the try whose finally unlinks the temporary file.
Refuse(p) ==
    /\ pc[p] = "admitting"
    /\ Refusal(p) # "none"
    /\ Raise(p, Refusal(p))
    /\ Goto(p, "unlocking")
    /\ UNCHANGED <<job, files, view, lock>>

\* temporary.open("xb")
CreateTmp(p) ==
    /\ pc[p] = "creating"
    /\ ~Exists(tmp)
    /\ tmp' = [state |-> "torn", entries |-> {}]
    /\ Goto(p, "writing")
    /\ UNCHANGED <<job, error, stage, dest, registry, view, lock>>

\* Faulty variant: the new registry holds the new entry alone.
WriteTmpAfresh(p) ==
    /\ pc[p] = "writing"
    /\ tmp' = [state |-> "whole", entries |-> {EntryOf(p)}]
    /\ Goto(p, "moving")
    /\ UNCHANGED <<job, error, stage, dest, registry, view, lock>>

WriteTmp(p) ==
    /\ pc[p] = "writing"
    /\ tmp' = [state |-> "whole", entries |-> view[p] \cup {EntryOf(p)}]
    /\ Goto(p, "moving")
    /\ UNCHANGED <<job, error, stage, dest, registry, view, lock>>

\* os.replace(stage, destination)
MoveStage(p) ==
    /\ pc[p] = "moving"
    /\ dest' = [dest EXCEPT ![job[p].run_id] = stage[p]]
    /\ stage' = [stage EXCEPT ![p] = NoDirectory]
    /\ Goto(p, "registering")
    /\ UNCHANGED <<job, error, registry, tmp, view, lock>>

\* os.replace(temporary, runs.json)
ReplaceRegistry(p) ==
    /\ pc[p] = "registering"
    /\ registry' = tmp
    /\ tmp' = NoFile
    /\ Goto(p, "syncing")
    /\ UNCHANGED <<job, error, stage, dest, view, lock>>

\* fsync of the data root directory
Sync(p) ==
    /\ pc[p] = "syncing"
    /\ Goto(p, "unlinking")
    /\ UNCHANGED <<job, error, files, view, lock>>

\* The except clause around the registry replace: os.replace(destination, stage).
RollBack(p) ==
    /\ pc[p] = "rollback"
    /\ stage' = [stage EXCEPT ![p] = dest[job[p].run_id]]
    /\ dest' = [dest EXCEPT ![job[p].run_id] = NoDirectory]
    /\ Goto(p, "unlinking")
    /\ UNCHANGED <<job, error, registry, tmp, view, lock>>

\* Faulty variant: the temporary file is left in place.
KeepTmp(p) ==
    /\ pc[p] = "unlinking"
    /\ Goto(p, "unlocking")
    /\ UNCHANGED <<job, error, stage, dest, registry, tmp, view, lock>>

\* The finally clause: unlink the temporary file if it is there.
UnlinkTmp(p) ==
    /\ pc[p] = "unlinking"
    /\ tmp' = NoFile
    /\ Goto(p, "unlocking")
    /\ UNCHANGED <<job, error, stage, dest, registry, view, lock>>

\* The with statement closes the descriptor, which releases the flock.
Unlock(p) ==
    /\ pc[p] = "unlocking"
    /\ lock' = Nobody
    /\ Goto(p, IF error[p] = "none" THEN "verifying" ELSE "cleanup")
    /\ UNCHANGED <<job, error, files, view>>

-----------------------------------------------------------------------------
(* Back in write_run_package *)

\* verify_run_package(destination): the sealed content is what was staged.
Verify(p) ==
    /\ pc[p] = "verifying"
    /\ dest[job[p].run_id] = [state |-> "sealed", digest |-> job[p].digest]
    /\ Goto(p, "done")
    /\ UNCHANGED <<job, error, files, view, lock>>

\* The finally clause: rmtree of a stage that was not moved.
RemoveStage(p) ==
    /\ pc[p] = "cleanup"
    /\ stage' = [stage EXCEPT ![p] = NoDirectory]
    /\ Goto(p, "failed")
    /\ UNCHANGED <<job, error, dest, registry, tmp, view, lock>>

-----------------------------------------------------------------------------
(* The environment *)

\* Faulty variants: a rollback that covers the sync too, and none at all.
UnwindSyncByRollback(step, fault) ==
    CASE step \in {"start", "verifying", "cleanup"} -> "failed"
      [] step \in {"staging", "waiting", "unlocking"} -> "cleanup"
      [] step \in {"admitting", "unlinking"} -> "unlocking"
      [] step \in {"creating", "writing", "moving", "rollback"} -> "unlinking"
      [] step \in {"registering", "syncing"} -> "rollback"

UnwindWithoutRollback(step, fault) ==
    CASE step \in {"start", "verifying", "cleanup"} -> "failed"
      [] step \in {"staging", "waiting", "unlocking"} -> "cleanup"
      [] step \in {"admitting", "unlinking"} -> "unlocking"
      [] OTHER -> "unlinking"

\* Where control goes when the step raises: the innermost enclosing clause.
Unwind(step, fault) ==
    CASE step \in {"start", "verifying", "cleanup"} -> "failed"
      [] step \in {"staging", "waiting", "unlocking"} -> "cleanup"
      [] step \in {"admitting", "unlinking"} -> "unlocking"
      [] step \in {"creating", "writing", "moving", "syncing", "rollback"} -> "unlinking"
      [] step = "registering" -> IF fault = "interrupt" THEN "unlinking" ELSE "rollback"

\* A failure of the forward path has no effect but the exception; a failed
\* write leaves .runs.json.tmp cut short, which is how CreateTmp left it.
StepFails(p) ==
    /\ "io" \in Faults
    /\ pc[p] \in Forward
    /\ Raise(p, "fault")
    /\ Goto(p, Unwind(pc[p], "io"))
    /\ UNCHANGED <<job, files, view, lock>>

RecoveryFails(p) ==
    /\ "recovery" \in Faults
    /\ pc[p] \in Recovery \ {"unlocking"}
    /\ Raise(p, "recovery")
    /\ Goto(p, Unwind(pc[p], "recovery"))
    /\ UNCHANGED <<job, files, view, lock>>

\* Ctrl-C.  The step is abandoned; closing the lock descriptor still happens.
Interrupt(p) ==
    /\ "interrupt" \in Faults
    /\ Active(p)
    /\ pc[p] # "unlocking"
    /\ Raise(p, "interrupt")
    /\ Goto(p, Unwind(pc[p], "interrupt"))
    /\ UNCHANGED <<job, files, view, lock>>

\* Faulty variant: a lock that outlives its holder, as a lock file does.
KillKeepingLock(p) ==
    /\ "kill" \in Faults
    /\ Active(p)
    /\ Goto(p, "dead")
    /\ UNCHANGED <<job, error, files, view, lock>>

Kill(p) ==
    /\ "kill" \in Faults
    /\ Active(p)
    /\ Goto(p, "dead")
    /\ lock' = IF lock = p THEN Nobody ELSE lock
    /\ UNCHANGED <<job, error, files, view>>

-----------------------------------------------------------------------------
\* The steps of the program, which the scheduler must not postpone for ever.
Program(p) ==
    \/ Begin(p) \/ RefuseEarly(p) \/ Seal(p)
    \/ TakeLock(p) \/ Admit(p) \/ Refuse(p)
    \/ CreateTmp(p) \/ WriteTmp(p) \/ MoveStage(p) \/ ReplaceRegistry(p)
    \/ Sync(p) \/ RollBack(p) \/ UnlinkTmp(p) \/ Unlock(p)
    \/ Verify(p) \/ RemoveStage(p)

Fault(p) == StepFails(p) \/ RecoveryFails(p) \/ Interrupt(p) \/ Kill(p)

Next == \E p \in Process : Program(p) \/ Fault(p)

Spec == Init /\ [][Next]_vars

FairSpec == Spec /\ \A p \in Process : WF_vars(Program(p))

-----------------------------------------------------------------------------
(* Properties *)

\* Every variable ranges over the values the code can give it.
TypeOK ==
    /\ job \in [Process -> Entry]
    /\ pc \in [Process -> Forward \cup Recovery \cup Ended]
    /\ error \in [Process -> Error]
    /\ stage \in [Process -> Directory]
    /\ dest \in [RunId -> Directory]
    /\ registry \in File
    /\ tmp \in File
    /\ view \in [Process -> SUBSET Entry]
    /\ lock \in Process \cup {Nobody}

\* Whatever fails or dies, each entry of runs.json names a sealed package whose
\* dashboard.json has the registered digest: _publish_registered_stage renames
\* the directory before the registry and undoes the rename if the registry fails.
RegisteredRunsAreSealed ==
    /\ registry.state # "torn"
    /\ \A e \in registry.entries :
           dest[e.run_id] = [state |-> "sealed", digest |-> e.digest]

\* What a writer may rely on at each step, and the strengthening that makes
\* RegisteredRunsAreSealed inductive.  The content of a stage, of the temporary
\* file and of the destination is known to the writer that is at that step, its
\* reading of runs.json is still current, and what it publishes is not there yet.
SealedDirectory(p) == [state |-> "sealed", digest |-> job[p].digest]

StageIsSealed(p) ==
    pc[p] \in {"waiting", "admitting", "creating", "writing", "moving"} =>
        stage[p] = SealedDirectory(p)

ViewIsCurrent(p) ==
    pc[p] \in {"creating", "writing", "moving", "registering", "rollback"} =>
        /\ view[p] = registry.entries
        /\ ~Registered(job[p].run_id)

TmpIsNext(p) ==
    pc[p] \in {"moving", "registering"} =>
        tmp = [state |-> "whole", entries |-> view[p] \cup {job[p]}]

DestinationIsOwn(p) ==
    /\ pc[p] \in {"creating", "writing", "moving"} => ~Exists(dest[job[p].run_id])
    /\ pc[p] \in {"registering", "rollback"} => dest[job[p].run_id] = SealedDirectory(p)

ErrorIsInFlight(p) ==
    /\ pc[p] \in Forward \cup {"done"} => error[p] = "none"
    /\ pc[p] \in {"rollback", "cleanup"} => error[p] # "none"

PublicationIsKnown(p) ==
    (pc[p] \in {"syncing", "verifying", "done", "unlinking", "unlocking"} /\ error[p] = "none")
        => job[p] \in registry.entries

WriterKnowledge ==
    \A p \in Process :
        /\ pc[p] \in Locked => lock = p
        /\ StageIsSealed(p)
        /\ ViewIsCurrent(p)
        /\ TmpIsNext(p)
        /\ DestinationIsOwn(p)
        /\ ErrorIsInFlight(p)
        /\ PublicationIsKnown(p)

KeepsPublished ==
    \A e \in registry.entries :
        /\ e \in registry'.entries
        /\ dest'[e.run_id] = dest[e.run_id]

\* An entry of runs.json is never dropped by a later writer, and the package it
\* names is never touched again: the registry a writer extends is the one it
\* read under the lock, and no writer replaces an existing destination.
PublishedRunsNeverChange == [][KeepsPublished]_vars

\* An invocation that ends without an error has published exactly its package.
DoneMeansPublished ==
    \A p \in Process : pc[p] = "done" => job[p] \in registry.entries

\* No package directory is left under runs/ without its registry entry, except
\* by the writer that is between the two renames or undoing the first.
NoOrphanRun ==
    \A r \in RunId :
        Exists(dest[r]) =>
            \/ Registered(r)
            \/ \E p \in Process :
                   pc[p] \in {"registering", "rollback"} /\ job[p].run_id = r

\* When the forward path fails, the finally clauses remove all that was staged:
\* an ended invocation leaves no stage, and a free lock means no temporary file.
NothingLeftBehind ==
    /\ \A p \in Process : ~Active(p) => ~Exists(stage[p])
    /\ lock = Nobody => ~Exists(tmp)

\* The finally and except clauses of the invocation may not have done their work: it
\* died, one of them failed, or Ctrl-C made it leave them out.
Unclean(q) == pc[q] = "dead" \/ error[q] \in {"recovery", "interrupt"}

\* Whatever fails, dies or is interrupted, a refusal under the lock has its cause.  A
\* destination that is taken is a registered run, or was left by an invocation for
\* that run whose clauses did not do their work; a temporary registry was left by
\* some such invocation, never by one whose own failure was undone or that is still
\* at work; and the entry without a directory, for which the code looks as well, is
\* never met.
RefusedUnderLockForCause ==
    \A p \in Process :
        /\ error[p] = "exists_locked" =>
               \/ Registered(job[p].run_id)
               \/ \E q \in Process : job[q].run_id = job[p].run_id /\ Unclean(q)
        /\ error[p] = "stale_tmp" => \E q \in Process : Unclean(q)
        /\ error[p] # "registered"

\* Every invocation ends, also when the holder of the lock dies.
EveryInvocationEnds == \A p \in Process : <>(pc[p] \in Ended)

\* A run somebody packages is registered in the end, unless an invocation that
\* packages it met a fault or found the registry over its size limit.
WantedRunsArePublished ==
    \A p \in Process :
        <>( \/ Registered(job[p].run_id)
            \/ \E q \in Process : /\ job[q].run_id = job[p].run_id
                                  /\ error[q] \in {"fault", "unreadable"} )

-----------------------------------------------------------------------------
(* Refinement: a reader sees only entries, and packages through entries. *)

Visible == {[run_id |-> e.run_id, digest |-> dest[e.run_id].digest] : e \in registry.entries}

Ledger == INSTANCE RunLedger WITH ledger <- registry.entries, visible <- Visible

\* Seen through runs.json, publication is one step, once per run identity.
PublicationIsAtomic == Ledger!Spec
=============================================================================
