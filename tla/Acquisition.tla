---------------------------- MODULE Acquisition -----------------------------
(***************************************************************************)
(* Acquisition of one pinned commit, acquire_git_source of                 *)
(* sbom_workbench/acquire.py.                                              *)
(*                                                                         *)
(* An invocation looks for the target directory, creates a lock file with  *)
(* O_EXCL, fetches and examines the commit in a private temporary          *)
(* directory, seals a package there, looks for the target again, and       *)
(* renames the package to it.  The finally clause unlinks the lock by      *)
(* name.  Unlike an flock the file outlives a process that dies, so an     *)
(* operator has to remove it, and cannot see whether its creator is alive. *)
(*                                                                         *)
(* A package is the content of its tree and the invocation it is from.     *)
(* Commits have targets, locks and temporary directories of their own, so  *)
(* one commit is modelled.                                                 *)
(***************************************************************************)
EXTENDS Naturals

CONSTANTS Process,     \* invocations that acquire the commit
          Content,     \* what a remote may serve
          Pinned,      \* the content the source registry describes
          Nothing,     \* no such directory
          MaxClears,   \* bound on the lock files an operator removes
          Faults       \* "io": a step fails; "kill": the process dies

ASSUME AcquireFaultsAssumption == Faults \subseteq {"io", "kill"}
ASSUME PinnedAssumption == Pinned \in Content /\ Nothing \notin Content
ASSUME MaxClearsAssumption == MaxClears \in Nat

VARIABLES pc,       \* the step each invocation takes next
          error,    \* why an invocation failed
          temp,     \* the tree in its temporary directory
          target,   \* the package at <dataset>/<commit>
          lock,     \* whether the lock file is there
          clears    \* lock files removed by an operator

acquireVars == <<pc, error, temp, target, lock, clears>>

Package == [by: Process, content: Content]
NoPackage == [by |-> Nothing, content |-> Nothing]
Prepared == {"fetching", "examining", "sealing", "placing", "verifying"}
Holding == Prepared \cup {"entering", "cleaning", "releasing"}
Ended == {"done", "failed", "dead"}
Error == {"none", "exists", "locked", "rejected", "appeared", "fault", "lock_stays"}

Placed == target # NoPackage
Goto(p, to) == pc' = [pc EXCEPT ![p] = to]
Fail(p, what, to) == error' = [error EXCEPT ![p] = what] /\ Goto(p, to)

Init ==
    /\ pc = [p \in Process |-> "start"]
    /\ error = [p \in Process |-> "none"]
    /\ temp = [p \in Process |-> Nothing]
    /\ target = NoPackage
    /\ lock = FALSE
    /\ clears = 0

-----------------------------------------------------------------------------
\* The comparison of the tree in git with the extracted one, the refusal of
\* attributes that transform an archive, and of pointers to large files
MatchesPin(c) == c = Pinned

\* verify_acquisition, given the hash of the manifest that p has written
VerifiedFor(p) == target.by = p /\ MatchesPin(target.content)

Begin(p) ==
    /\ pc[p] = "start"
    /\ IF Placed THEN Fail(p, "exists", "failed") ELSE Goto(p, "locking") /\ UNCHANGED error
    /\ UNCHANGED <<temp, target, lock, clears>>

\* Faulty variant: open without O_EXCL.
OpenLock(p) ==
    /\ pc[p] = "locking"
    /\ lock' = TRUE
    /\ Goto(p, "entering")
    /\ UNCHANGED <<error, temp, target, clears>>

\* open(O_CREAT | O_EXCL)
TakeLock(p) ==
    /\ pc[p] = "locking"
    /\ IF lock THEN Fail(p, "locked", "failed") ELSE Goto(p, "entering") /\ UNCHANGED error
    /\ lock' = TRUE
    /\ UNCHANGED <<temp, target, clears>>

\* The descriptor is closed before the try whose finally clause unlinks the lock.
Enter(p) ==
    /\ pc[p] = "entering"
    /\ Goto(p, "fetching")
    /\ UNCHANGED <<error, temp, target, lock, clears>>

\* Git commands and safe_extract_tar; what they deliver is up to the remote.
Fetch(p) ==
    /\ pc[p] = "fetching"
    /\ \E c \in Content : temp' = [temp EXCEPT ![p] = c]
    /\ Goto(p, "examining")
    /\ UNCHANGED <<error, target, lock, clears>>

\* Commit, tag, archive hash, exact set of the tree, and license evidence.
Examine(p) ==
    /\ pc[p] = "examining"
    /\ IF MatchesPin(temp[p]) THEN Goto(p, "sealing") /\ UNCHANGED error
       ELSE Fail(p, "rejected", "cleaning")
    /\ UNCHANGED <<temp, target, lock, clears>>

\* The package is sealed by COMPLETE.json, then the target is looked for again.
Seal(p) ==
    /\ pc[p] = "sealing"
    /\ IF Placed THEN Fail(p, "appeared", "cleaning") ELSE Goto(p, "placing") /\ UNCHANGED error
    /\ UNCHANGED <<temp, target, lock, clears>>

\* Faulty variant: a rename that replaces what is there.
PlaceOver(p) ==
    /\ pc[p] = "placing"
    /\ target' = [by |-> p, content |-> temp[p]]
    /\ temp' = [temp EXCEPT ![p] = Nothing]
    /\ Goto(p, "verifying")
    /\ UNCHANGED <<error, lock, clears>>

\* package.replace(target): renaming to a directory that has entries fails.
Place(p) ==
    /\ pc[p] = "placing"
    /\ IF Placed
       THEN Fail(p, "fault", "cleaning") /\ UNCHANGED <<temp, target>>
       ELSE /\ target' = [by |-> p, content |-> temp[p]]
            /\ temp' = [temp EXCEPT ![p] = Nothing]
            /\ Goto(p, "verifying")
            /\ UNCHANGED error
    /\ UNCHANGED <<lock, clears>>

\* fsync of the parent, and verify_acquisition against the package's own manifest
Verify(p) ==
    /\ pc[p] = "verifying"
    /\ IF VerifiedFor(p) THEN Goto(p, "cleaning") /\ UNCHANGED error
       ELSE Fail(p, "rejected", "cleaning")
    /\ UNCHANGED <<temp, target, lock, clears>>

\* The end of TemporaryDirectory
Clean(p) ==
    /\ pc[p] = "cleaning"
    /\ temp' = [temp EXCEPT ![p] = Nothing]
    /\ Goto(p, "releasing")
    /\ UNCHANGED <<error, target, lock, clears>>

\* The finally clause unlinks what has the name of the lock, if anything has.
Release(p) ==
    /\ pc[p] = "releasing"
    /\ lock' = FALSE
    /\ Goto(p, IF error[p] = "none" THEN "done" ELSE "failed")
    /\ UNCHANGED <<error, temp, target, clears>>

-----------------------------------------------------------------------------
(* The environment *)

\* Faulty variant: an exception leaves without the finally clause.
UnwindToEnd(at) ==
    CASE at \in {"start", "locking", "entering", "releasing"} -> "failed"
      [] at \in Prepared -> "failed"
      [] at = "cleaning" -> "releasing"

Unwind(at) ==
    CASE at \in {"start", "locking", "entering", "releasing"} -> "failed"
      [] at \in Prepared -> "cleaning"
      [] at = "cleaning" -> "releasing"

\* A command times out, a system call fails, Ctrl-C.  Outside the try, and when
\* the unlink itself fails, the lock stays behind.
StepFails(p) ==
    /\ "io" \in Faults
    /\ pc[p] \notin Ended
    /\ Fail(p, IF pc[p] \in {"entering", "releasing"} THEN "lock_stays" ELSE "fault", Unwind(pc[p]))
    /\ UNCHANGED <<temp, target, lock, clears>>

Kill(p) ==
    /\ "kill" \in Faults
    /\ pc[p] \notin Ended
    /\ Goto(p, "dead")
    /\ UNCHANGED <<error, temp, target, lock, clears>>

\* An operator takes a lock file for a stale one.
ClearLock ==
    /\ lock /\ clears < MaxClears
    /\ lock' = FALSE
    /\ clears' = clears + 1
    /\ UNCHANGED <<pc, error, temp, target>>

Acquire(p) ==
    \/ Begin(p) \/ TakeLock(p) \/ Enter(p) \/ Fetch(p) \/ Examine(p) \/ Seal(p) \/ Place(p)
    \/ Verify(p) \/ Clean(p) \/ Release(p)

Next ==
    \/ \E p \in Process : Acquire(p) \/ StepFails(p) \/ Kill(p)
    \/ ClearLock

Spec == Init /\ [][Next]_acquireVars

-----------------------------------------------------------------------------
(* Properties *)

\* Every variable ranges over the values the code can give it.
AcquireTypeOK ==
    /\ pc \in [Process -> {"start", "locking"} \cup Holding \cup Ended]
    /\ error \in [Process -> Error]
    /\ temp \in [Process -> Content \cup {Nothing}]
    /\ target \in Package \cup {NoPackage}
    /\ lock \in BOOLEAN
    /\ clears \in 0..MaxClears

\* The package at the target is never replaced or removed, not even by two
\* invocations that both got past the lock because an operator removed it.
TargetIsFinal == [][Placed => target' = target]_acquireVars

\* An invocation that reports success acquired what is at the target: of any
\* number at most one does, and what it placed is what the registry pins.
SuccessIsOwn ==
    /\ \A p \in Process : pc[p] = "done" => target.by = p
    /\ Placed => target.content = Pinned

\* As long as no operator removes a lock, one invocation works on the commit at
\* a time, and a lock file without one is what a death or a failed unlink left.
LockIsExclusive ==
    clears = 0 =>
        /\ \A p, q \in Process : pc[p] \in Holding /\ pc[q] \in Holding => p = q
        /\ \A p \in Process : pc[p] \in Holding => lock
        /\ lock => \E p \in Process :
                       pc[p] \in Holding \cup {"dead"} \/ error[p] = "lock_stays"
=============================================================================
