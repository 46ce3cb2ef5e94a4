----------------------------- MODULE AtomicFile -----------------------------
(***************************************************************************)
(* manifest.write_json_atomic: every receipt, manifest and completion      *)
(* marker of the workbench is written by it.                               *)
(*                                                                         *)
(* The value is written to the temporary name .<name>.tmp, opened with     *)
(* O_EXCL, and hard-linked to its final name, which fails if that exists.  *)
(* The temporary name is the same for every call and the finally clause    *)
(* removes whatever has it, so that a call can remove, or link, the file   *)
(* of another.  A call is an element of Call; it creates at most one       *)
(* inode, which carries the call's name.                                   *)
(***************************************************************************)
EXTENDS Naturals, FiniteSets

CONSTANTS Call,      \* calls that write the same path, in any process
          NoInode,   \* a name that no inode has
          Faults     \* what the environment may do: "io" and "kill"

ASSUME NoInodeAssumption == NoInode \notin Call
ASSUME CallFaultsAssumption == Faults \subseteq {"io", "kill"}

VARIABLES pc,     \* the step each call takes next
          error,  \* the exception in flight in each call, without what made it stuck
          data,   \* what is in the inode of each call
          tmp,    \* the inode named .<name>.tmp
          path,   \* the inode named <name>
          met     \* the calls that were active at the same time as each call

vars == <<pc, error, data, tmp, path, met>>

Running == {"writing", "linking", "unlinking", "syncing", "finally", "removing"}
Ended == {"done", "failed", "stuck", "dead"}
Error == {"none", "tmp_exists", "tmp_missing", "path_exists", "fault"}

Goto(c, step) == pc' = [pc EXCEPT ![c] = step]
Raise(c, what) == error' = [error EXCEPT ![c] = what]
Others(c) == {d \in Call \ {c} : pc[d] \in Running}

Init ==
    /\ pc = [c \in Call |-> "open"]
    /\ error = [c \in Call |-> "none"]
    /\ data = [c \in Call |-> "nothing"]
    /\ tmp = NoInode
    /\ path = NoInode
    /\ met = [c \in Call |-> {}]

\* From its first step on, a call meets the calls that run.
Meet(c) ==
    met' = [d \in Call |->
               IF d = c THEN Others(c)
               ELSE IF d \in Others(c) THEN met[d] \cup {c} ELSE met[d]]

\* Faulty variant: mode "w" instead of "x".
OpenTruncating(c) ==
    /\ pc[c] = "open"
    /\ tmp' = c
    /\ data' = [data EXCEPT ![c] = "part"]
    /\ Goto(c, "writing")
    /\ Meet(c)
    /\ UNCHANGED <<error, path>>

\* temporary.open("x")
Open(c) ==
    /\ pc[c] = "open"
    /\ tmp = NoInode
    /\ tmp' = c
    /\ data' = [data EXCEPT ![c] = "part"]
    /\ Goto(c, "writing")
    /\ Meet(c)
    /\ UNCHANGED <<error, path>>

\* The open fails, and the finally clause runs all the same.
OpenRefused(c) ==
    /\ pc[c] = "open"
    /\ tmp # NoInode
    /\ Raise(c, "tmp_exists")
    /\ Goto(c, "finally")
    /\ Meet(c)
    /\ UNCHANGED <<data, tmp, path>>

\* write, flush and fsync go to the open inode, whatever its name is by now.
Write(c) ==
    /\ pc[c] = "writing"
    /\ data' = [data EXCEPT ![c] = "whole"]
    /\ Goto(c, "linking")
    /\ UNCHANGED <<error, tmp, path, met>>

\* Faulty variant: os.replace instead of os.link.
LinkReplacing(c) ==
    /\ pc[c] = "linking"
    /\ tmp # NoInode
    /\ path' = tmp
    /\ Goto(c, "unlinking")
    /\ UNCHANGED <<error, data, tmp, met>>

\* os.link(temporary, path): links the inode that has the temporary name now.
Link(c) ==
    /\ pc[c] = "linking"
    /\ tmp # NoInode
    /\ path = NoInode
    /\ path' = tmp
    /\ Goto(c, "unlinking")
    /\ UNCHANGED <<error, data, tmp, met>>

LinkRefused(c) ==
    /\ pc[c] = "linking"
    /\ tmp = NoInode \/ path # NoInode
    /\ Raise(c, IF tmp = NoInode THEN "tmp_missing" ELSE "path_exists")
    /\ Goto(c, "finally")
    /\ UNCHANGED <<data, tmp, path, met>>

\* temporary.unlink() after the link; FileNotFoundError if the name is gone.
Unlink(c) ==
    /\ pc[c] = "unlinking"
    /\ tmp' = NoInode
    /\ IF tmp = NoInode
       THEN Raise(c, "tmp_missing") /\ Goto(c, "finally")
       ELSE Goto(c, "syncing") /\ UNCHANGED error
    /\ UNCHANGED <<data, path, met>>

Sync(c) ==
    /\ pc[c] = "syncing"
    /\ Goto(c, "finally")
    /\ UNCHANGED <<error, data, tmp, path, met>>

Outcome(c) == IF error[c] = "none" THEN "done" ELSE "failed"

\* Faulty variant: the temporary file stays if there is one.
FinallyKeepingTmp(c) ==
    /\ pc[c] = "finally"
    /\ Goto(c, Outcome(c))
    /\ UNCHANGED <<error, data, tmp, path, met>>

\* finally: if temporary.exists() ...
Finally(c) ==
    /\ pc[c] = "finally"
    /\ Goto(c, IF tmp = NoInode THEN Outcome(c) ELSE "removing")
    /\ UNCHANGED <<error, data, tmp, path, met>>

\* ... temporary.unlink(), by then perhaps of another call, or of none.
Remove(c) ==
    /\ pc[c] = "removing"
    /\ tmp' = NoInode
    /\ IF tmp = NoInode
       THEN Raise(c, "tmp_missing") /\ Goto(c, "failed")
       ELSE Goto(c, Outcome(c)) /\ UNCHANGED error
    /\ UNCHANGED <<data, path, met>>

-----------------------------------------------------------------------------
(* The environment *)

\* The open fails for another reason than the name; the finally clause runs.  One
\* that fails after it created the file is an Open whose write fails.
OpenFails(c) ==
    /\ "io" \in Faults
    /\ pc[c] = "open"
    /\ Raise(c, "fault")
    /\ Goto(c, "finally")
    /\ Meet(c)
    /\ UNCHANGED <<data, tmp, path>>

StepFails(c) ==
    /\ "io" \in Faults
    /\ pc[c] \in {"writing", "linking", "unlinking", "syncing"}
    /\ Raise(c, "fault")
    /\ Goto(c, "finally")
    /\ UNCHANGED <<data, tmp, path, met>>

\* exists() or unlink() of the finally clause raises: the call ends with that
\* exception, chained to the one in flight, and leaves whatever has the name.
FinallyFails(c) ==
    /\ "io" \in Faults
    /\ pc[c] \in {"finally", "removing"}
    /\ Goto(c, "stuck")
    /\ UNCHANGED <<error, data, tmp, path, met>>

Kill(c) ==
    /\ "kill" \in Faults
    /\ pc[c] \in Running
    /\ Goto(c, "dead")
    /\ UNCHANGED <<error, data, tmp, path, met>>

Program(c) ==
    \/ Open(c) \/ OpenRefused(c) \/ Write(c) \/ Link(c) \/ LinkRefused(c)
    \/ Unlink(c) \/ Sync(c) \/ Finally(c) \/ Remove(c)

Fault(c) == OpenFails(c) \/ StepFails(c) \/ FinallyFails(c) \/ Kill(c)

Next == \E c \in Call : Program(c) \/ Fault(c)

Spec == Init /\ [][Next]_vars

-----------------------------------------------------------------------------
(* Properties *)

\* Every variable ranges over the values the code can give it.
TypeOK ==
    /\ pc \in [Call -> Running \cup Ended \cup {"open"}]
    /\ error \in [Call -> Error]
    /\ data \in [Call -> {"nothing", "part", "whole"}]
    /\ tmp \in Call \cup {NoInode}
    /\ path \in Call \cup {NoInode}
    /\ met \in [Call -> SUBSET Call]

\* A file that has its name keeps it: os.link never replaces an existing path,
\* and no call removes the final name.
NeverReplaced == [][path # NoInode => path' = path]_vars

\* At most one call reports success, in however many processes: the others find
\* the path, or the temporary name, taken.
OneWinner ==
    \A c, d \in Call : pc[c] = "done" /\ pc[d] = "done" => c = d

\* A call that succeeds and overlapped with at most one other has put its own
\* whole value at the path.  With two others it may not have: one refused call
\* removes the temporary file, a third creates it anew, and the first links it.
WinnerWroteTheFile ==
    \A c \in Call :
        pc[c] = "done" /\ Cardinality(met[c]) <= 1 => path = c /\ data[c] = "whole"

\* A temporary file that stays behind costs the calls that run alone one refusal,
\* not a wedge: the refused call removes it.  It stays behind when a call died, or
\* could not remove it, so that refusals are never more than such calls; one that
\* is refused and cannot remove it either leaves the next refusal behind.
StaleTmpCostsOneRetry ==
    Cardinality({c \in Call : error[c] = "tmp_exists" /\ met[c] = {}})
        <= Cardinality({c \in Call : pc[c] \in {"dead", "stuck"}})
=============================================================================
