---------------------------- MODULE SelftestOps ----------------------------
(***************************************************************************)
(* Backup, restore and clearing of self-test runs, sbom_workbench/ops.py.  *)
(*                                                                         *)
(* The three commands take no lock: they rely on exact-set manifests taken *)
(* before and after each move, on create-only renames, and on undoing what *)
(* they did.  A process is one invocation of one command.  A directory     *)
(* tree is its content, an element of Content that the exact-set hash      *)
(* identifies; other programs can change a tree at any moment.             *)
(***************************************************************************)
EXTENDS Naturals, FiniteSets

CONSTANTS Process,   \* invocations of selftest-backup, -restore and -clear
          Run,       \* names of runs in the allowed sandbox
          Receipt,   \* paths given as --receipt
          Backup,    \* paths of backups
          Content,   \* exact sets of files
          Nothing,   \* no such directory or file
          MaxEdits,  \* bound on the changes other programs make
          Faults     \* "io": a step fails; "kill": the process dies

ASSUME OpsFaultsAssumption == Faults \subseteq {"io", "kill"}
ASSUME NothingAssumption == Nothing \notin Content
ASSUME MaxEditsAssumption == MaxEdits \in Nat

VARIABLES job,         \* [op, run, receipt, backup, anchor] of each process
          pc,          \* the step each process takes next
          error,       \* why a process failed
          seen,        \* the manifest each process took first
          stage,       \* the private copy of a backup or restore
          run,         \* the directories in service
          quarantine,  \* [name, set]: directory <name>-<exact set> of the quarantine
          receipts,    \* what is at each receipt path
          backups,     \* what is at each backup path
          edits        \* changes made by other programs

vars == <<job, pc, error, seen, stage, run, quarantine, receipts, backups, edits>>
disk == <<run, quarantine, receipts, backups>>

Job == [op: {"backup", "restore", "clear"}, run: Run, receipt: Receipt, backup: Backup,
        anchor: Content]
Place == [name: Run, set: Content]
Sealed == [payload: Content, manifest: Content]
Working == {"checking", "renaming", "verifying", "writing", "rechecking", "restoring",
            "unlinking", "copying", "publishing", "validating", "placing"}
Ended == {"done", "failed", "dead"}

Goto(p, step) == pc' = [pc EXCEPT ![p] = step]
Raise(p, what) == error' = [error EXCEPT ![p] = what]
Fail(p, what, step) == Raise(p, what) /\ Goto(p, step)
Quarantined(p) == [name |-> job[p].run, set |-> seen[p]]

Init ==
    /\ job \in [Process -> Job]
    /\ pc = [p \in Process |-> "start"]
    /\ error = [p \in Process |-> "none"]
    /\ seen = [p \in Process |-> Nothing]
    /\ stage = [p \in Process |-> Nothing]
    /\ run \in [Run -> Content \cup {Nothing}]
    /\ quarantine = [q \in Place |-> Nothing]
    /\ receipts = [r \in Receipt |-> Nothing]
    /\ backups \in [Backup -> {Nothing} \cup {s \in Sealed : s.payload = s.manifest}]
    /\ edits = 0

-----------------------------------------------------------------------------
(* clear_selftest_sandbox_run *)

\* The run's record is checked and its exact-set manifest taken.
Inspect(p) ==
    /\ pc[p] = "start"
    /\ job[p].op \in {"clear", "backup"}
    /\ IF run[job[p].run] = Nothing
       THEN Fail(p, "refused", "failed") /\ UNCHANGED seen
       ELSE /\ seen' = [seen EXCEPT ![p] = run[job[p].run]]
            /\ Goto(p, IF job[p].op = "clear" THEN "checking" ELSE "copying")
            /\ UNCHANGED error
    /\ UNCHANGED <<job, stage, disk, edits>>

\* Neither the receipt nor the quarantine directory may exist.
CheckFree(p) ==
    /\ pc[p] = "checking"
    /\ IF receipts[job[p].receipt] # Nothing \/ quarantine[Quarantined(p)] # Nothing
       THEN Fail(p, "refused", "failed")
       ELSE Goto(p, "renaming") /\ UNCHANGED error
    /\ UNCHANGED <<job, seen, stage, disk, edits>>

\* os.rename(run, quarantine), which moves what has the name by now.
Rename(p) ==
    /\ pc[p] = "renaming"
    /\ IF run[job[p].run] = Nothing \/ quarantine[Quarantined(p)] # Nothing
       THEN Fail(p, "refused", "failed") /\ UNCHANGED <<run, quarantine>>
       ELSE /\ quarantine' = [quarantine EXCEPT ![Quarantined(p)] = run[job[p].run]]
            /\ run' = [run EXCEPT ![job[p].run] = Nothing]
            /\ Goto(p, "verifying")
            /\ UNCHANGED error
    /\ UNCHANGED <<job, seen, stage, receipts, backups, edits>>

\* Faulty variant: the check stands before the try statement.
CheckOutsideTry(p) ==
    /\ pc[p] = "verifying"
    /\ IF quarantine[Quarantined(p)] # seen[p] \/ run[job[p].run] # Nothing
       THEN Fail(p, "changed", "failed")
       ELSE Goto(p, "writing") /\ UNCHANGED error
    /\ UNCHANGED <<job, seen, stage, disk, edits>>

CheckQuarantined(p) ==
    /\ pc[p] = "verifying"
    /\ IF quarantine[Quarantined(p)] # seen[p] \/ run[job[p].run] # Nothing
       THEN Fail(p, "changed", "restoring")
       ELSE Goto(p, "writing") /\ UNCHANGED error
    /\ UNCHANGED <<job, seen, stage, disk, edits>>

\* write_json_atomic(receipt, ...), which never replaces a file.
WriteReceipt(p) ==
    /\ pc[p] = "writing"
    /\ IF receipts[job[p].receipt] # Nothing
       THEN Fail(p, "receipt", "restoring") /\ UNCHANGED receipts
       ELSE /\ receipts' = [receipts EXCEPT ![job[p].receipt] = Quarantined(p)]
            /\ Goto(p, "rechecking")
            /\ UNCHANGED error
    /\ UNCHANGED <<job, seen, stage, run, quarantine, backups, edits>>

Recheck(p) ==
    /\ pc[p] = "rechecking"
    /\ IF quarantine[Quarantined(p)] # seen[p]
       THEN Fail(p, "changed", "restoring")
       ELSE Goto(p, "done") /\ UNCHANGED error
    /\ UNCHANGED <<job, seen, stage, disk, edits>>

\* Faulty variant: the name is not looked at before the run is put back.
RestoreOverName(p) ==
    /\ pc[p] = "restoring"
    /\ IF quarantine[Quarantined(p)] # Nothing
       THEN /\ run' = [run EXCEPT ![job[p].run] = quarantine[Quarantined(p)]]
            /\ quarantine' = [quarantine EXCEPT ![Quarantined(p)] = Nothing]
            /\ UNCHANGED error
       ELSE Raise(p, "name_taken") /\ UNCHANGED <<run, quarantine>>
    /\ Goto(p, "unlinking")
    /\ UNCHANGED <<job, seen, stage, receipts, backups, edits>>

\* except Exception: back into service if the name is still free ...
RestoreName(p) ==
    /\ pc[p] = "restoring"
    /\ IF quarantine[Quarantined(p)] # Nothing /\ run[job[p].run] = Nothing
       THEN /\ run' = [run EXCEPT ![job[p].run] = quarantine[Quarantined(p)]]
            /\ quarantine' = [quarantine EXCEPT ![Quarantined(p)] = Nothing]
            /\ UNCHANGED error
       ELSE Raise(p, "name_taken") /\ UNCHANGED <<run, quarantine>>
    /\ Goto(p, "unlinking")
    /\ UNCHANGED <<job, seen, stage, receipts, backups, edits>>

\* Faulty variant: the receipt of a clear that was undone is kept.
KeepReceipt(p) ==
    /\ pc[p] = "unlinking"
    /\ Goto(p, "failed")
    /\ UNCHANGED <<job, error, seen, stage, disk, edits>>

\* ... and the file at the receipt path goes, if there is one.
UnlinkReceipt(p) ==
    /\ pc[p] = "unlinking"
    /\ receipts' = [receipts EXCEPT ![job[p].receipt] = Nothing]
    /\ Goto(p, "failed")
    /\ UNCHANGED <<job, error, seen, stage, run, quarantine, backups, edits>>

-----------------------------------------------------------------------------
(* create_selftest_backup and restore_selftest_backup *)

\* validate_selftest_backup with the recorded manifest hash, before a restore.
ValidateFirst(p) ==
    /\ pc[p] = "start"
    /\ job[p].op = "restore"
    /\ IF backups[job[p].backup] = [payload |-> job[p].anchor, manifest |-> job[p].anchor]
       THEN /\ seen' = [seen EXCEPT ![p] = job[p].anchor]
            /\ Goto(p, "copying")
            /\ UNCHANGED error
       ELSE Fail(p, "refused", "failed") /\ UNCHANGED seen
    /\ UNCHANGED <<job, stage, disk, edits>>

\* Faulty variant: the copy is not compared with the first manifest.
CopyUnchecked(p) ==
    /\ pc[p] = "copying"
    /\ LET source == IF job[p].op = "backup" THEN run[job[p].run]
                     ELSE backups[job[p].backup].payload
       IN stage' = [stage EXCEPT ![p] = source]
    /\ Goto(p, IF job[p].op = "backup" THEN "publishing" ELSE "placing")
    /\ UNCHANGED <<job, error, seen, disk, edits>>

\* What is copied is the tree as it is by now; its manifest must be the first one.
Copy(p) ==
    /\ pc[p] = "copying"
    /\ LET source == IF job[p].op = "backup" THEN run[job[p].run]
                     ELSE backups[job[p].backup].payload
           taken == IF job[p].op = "backup" THEN backups[job[p].backup] # Nothing
                    ELSE run[job[p].run] # Nothing
       IN IF taken \/ source # seen[p]
          THEN Fail(p, IF taken THEN "refused" ELSE "changed", "failed") /\ UNCHANGED stage
          ELSE /\ stage' = [stage EXCEPT ![p] = source]
               /\ Goto(p, IF job[p].op = "backup" THEN "publishing" ELSE "placing")
               /\ UNCHANGED error
    /\ UNCHANGED <<job, seen, disk, edits>>

\* os.replace(stage, destination) of the sealed backup; a directory that is not
\* empty is not replaced.
PublishBackup(p) ==
    /\ pc[p] = "publishing"
    /\ stage' = [stage EXCEPT ![p] = Nothing]
    /\ IF backups[job[p].backup] # Nothing
       THEN Fail(p, "refused", "failed") /\ UNCHANGED backups
       ELSE /\ backups' = [backups EXCEPT ![job[p].backup] =
                              [payload |-> stage[p], manifest |-> seen[p]]]
            /\ Goto(p, "validating")
            /\ UNCHANGED error
    /\ UNCHANGED <<job, seen, run, quarantine, receipts, edits>>

ValidateBackup(p) ==
    /\ pc[p] = "validating"
    /\ LET b == backups[job[p].backup]
       IN IF b.payload = b.manifest
          THEN Goto(p, "done") /\ UNCHANGED error
          ELSE Fail(p, "changed", "failed")
    /\ UNCHANGED <<job, seen, stage, disk, edits>>

\* os.replace(stage, destination) of the restored run
PlaceRun(p) ==
    /\ pc[p] = "placing"
    /\ stage' = [stage EXCEPT ![p] = Nothing]
    /\ IF run[job[p].run] # Nothing
       THEN Fail(p, "refused", "failed") /\ UNCHANGED run
       ELSE /\ run' = [run EXCEPT ![job[p].run] = stage[p]]
            /\ Goto(p, "done")
            /\ UNCHANGED error
    /\ UNCHANGED <<job, seen, quarantine, receipts, backups, edits>>

-----------------------------------------------------------------------------
(* The environment *)

\* Where an exception that the step raises takes the process.
Unwind(step) ==
    CASE step \in {"verifying", "writing", "rechecking"} -> "restoring"
      [] step = "restoring" -> "unlinking"
      [] OTHER -> "failed"

StepFails(p) ==
    /\ "io" \in Faults
    /\ pc[p] \in Working
    /\ Fail(p, "fault", Unwind(pc[p]))
    /\ stage' = [stage EXCEPT ![p] = Nothing]
    /\ UNCHANGED <<job, seen, disk, edits>>

\* write_json_atomic can fail after the link, in its unlink or directory fsync.
ReceiptFailsLate(p) ==
    /\ "io" \in Faults
    /\ pc[p] = "writing"
    /\ receipts[job[p].receipt] = Nothing
    /\ receipts' = [receipts EXCEPT ![job[p].receipt] = Quarantined(p)]
    /\ Fail(p, "fault", "restoring")
    /\ UNCHANGED <<job, seen, stage, run, quarantine, backups, edits>>

Kill(p) ==
    /\ "kill" \in Faults
    /\ pc[p] \in Working
    /\ Goto(p, "dead")
    /\ UNCHANGED <<job, error, seen, stage, disk, edits>>

\* Another program changes a tree in service, or puts a new run at a free name.
EditRun(r, c) ==
    /\ edits < MaxEdits
    /\ edits' = edits + 1
    /\ run' = [run EXCEPT ![r] = c]
    /\ UNCHANGED <<job, pc, error, seen, stage, quarantine, receipts, backups>>

EditQuarantine(q, c) ==
    /\ edits < MaxEdits
    /\ quarantine[q] # Nothing
    /\ edits' = edits + 1
    /\ quarantine' = [quarantine EXCEPT ![q] = c]
    /\ UNCHANGED <<job, pc, error, seen, stage, run, receipts, backups>>

\* Another program changes files of a backup, its manifest included.
EditBackup(b, s) ==
    /\ edits < MaxEdits
    /\ backups[b] # Nothing
    /\ edits' = edits + 1
    /\ backups' = [backups EXCEPT ![b] = s]
    /\ UNCHANGED <<job, pc, error, seen, stage, run, quarantine, receipts>>

Program(p) ==
    \/ Inspect(p) \/ CheckFree(p) \/ Rename(p) \/ CheckQuarantined(p) \/ WriteReceipt(p)
    \/ Recheck(p) \/ RestoreName(p) \/ UnlinkReceipt(p)
    \/ ValidateFirst(p) \/ Copy(p) \/ PublishBackup(p) \/ ValidateBackup(p) \/ PlaceRun(p)

Next ==
    \/ \E p \in Process : Program(p) \/ StepFails(p) \/ ReceiptFailsLate(p) \/ Kill(p)
    \/ \E c \in Content : \/ \E r \in Run : EditRun(r, c)
                          \/ \E q \in Place : EditQuarantine(q, c)
    \/ \E b \in Backup, s \in Sealed : EditBackup(b, s)

Spec == Init /\ [][Next]_vars

-----------------------------------------------------------------------------
(* Properties *)

Copies(c) == Cardinality({r \in Run : run[r] = c}) + Cardinality({q \in Place : quarantine[q] = c})

\* No command erases a tree: what a step takes out of service or out of
\* quarantine is in the other place after it, whoever else moves trees.
NothingErased == [][edits' = edits => \A c \in Content : Copies(c)' >= Copies(c)]_vars

ClearingOrStuck(p) ==
    /\ job[p].op = "clear"
    /\ \/ pc[p] \in {"verifying", "writing", "rechecking", "restoring", "dead"}
       \/ pc[p] \in {"unlinking", "failed"} /\ error[p] \in {"name_taken", "fault"}

\* A tree out of service is named by a receipt, or by a clear that is under way,
\* died, or could not put it back: a clear whose receipt fails restores the run,
\* and one that succeeds leaves its receipt.
QuarantineIsAccounted ==
    \A q \in Place : quarantine[q] # Nothing =>
        \/ \E r \in Receipt : receipts[r] = q
        \/ \E p \in Process : ClearingOrStuck(p) /\ Quarantined(p) = q

\* A receipt names a tree that is in quarantine, unless the clear that wrote it
\* is about to remove it, died first, or could not remove it.
ReceiptsNameQuarantine ==
    \A r \in Receipt : receipts[r] # Nothing =>
        \/ quarantine[receipts[r]] # Nothing
        \/ \E p \in Process :
               /\ job[p].op = "clear" /\ job[p].receipt = r
               /\ pc[p] \in {"unlinking", "dead"} \/ error[p] = "fault"

\* A restore that succeeds puts into service the tree whose manifest hash the
\* operator recorded, though the backup can change after it was validated.
RestoredIsAnchored ==
    [][\A p \in Process :
           job[p].op = "restore" /\ pc[p] # "done" /\ pc'[p] = "done"
               => run'[job[p].run] = job[p].anchor]_vars
=============================================================================
