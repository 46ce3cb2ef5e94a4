------------------------- MODULE SelftestOpsProofs -------------------------
(***************************************************************************)
(* What TLAPS proves about SelftestOps, for any number of backups,         *)
(* restores and clears under way at once, for any failures and deaths of   *)
(* theirs, and whatever other programs do to the trees.                    *)
(***************************************************************************)
EXTENDS SelftestOps, FiniteSetTheorems, TLAPS

-----------------------------------------------------------------------------
(* What a process knows at each step *)

Reason == {"none", "refused", "changed", "receipt", "name_taken", "fault"}

OpsTypeOK ==
    /\ job \in [Process -> Job]
    /\ pc \in [Process -> {"start"} \cup Working \cup Ended]
    /\ error \in [Process -> Reason]
    /\ seen \in [Process -> Content \cup {Nothing}]
    /\ stage \in [Process -> Content \cup {Nothing}]
    /\ run \in [Run -> Content \cup {Nothing}]
    /\ quarantine \in [Place -> Content \cup {Nothing}]
    /\ receipts \in [Receipt -> Place \cup {Nothing}]
    /\ backups \in [Backup -> Sealed \cup {Nothing}]
    /\ edits \in Nat

\* Each command takes its own steps, from the manifest it took first; what it is
\* about to publish or to place is a copy with that manifest, and what a restore
\* validated has the recorded one.
Knows(p) ==
    /\ pc[p] \in {"checking", "renaming", "verifying", "writing", "rechecking", "restoring",
                  "unlinking"} => job[p].op = "clear"
    /\ pc[p] \in {"publishing", "validating"} => job[p].op = "backup"
    /\ pc[p] = "placing" => job[p].op = "restore"
    /\ pc[p] = "copying" => job[p].op # "clear"
    /\ pc[p] \in Working \cup {"done"} => seen[p] \in Content
    /\ pc[p] \in {"publishing", "placing"} => stage[p] = seen[p]
    /\ job[p].op = "restore" /\ pc[p] \in {"copying", "placing"} => seen[p] = job[p].anchor

Knowledge == \A p \in Process : Knows(p)

StepOf(p) == Program(p) \/ StepFails(p) \/ ReceiptFailsLate(p) \/ Kill(p)

Edit ==
    \/ \E c \in Content : \/ \E r \in Run : EditRun(r, c)
                          \/ \E q \in Place : EditQuarantine(q, c)
    \/ \E b \in Backup, s \in Sealed : EditBackup(b, s)

\* A step is of one process, or of another program.
LEMMA Steps == Next => Edit \/ \E p \in Process : StepOf(p)
BY DEF Next, Edit, StepOf

\* An exception leads to the clause that encloses the step, or ends the process.
LEMMA UnwindType == ASSUME NEW step PROVE Unwind(step) \in {"restoring", "unlinking", "failed"}
BY DEF Unwind

\* Each step of a process or of another program leaves every variable in its type.
LEMMA TypeStep == ASSUME OpsTypeOK, Knowledge, [Next]_vars PROVE OpsTypeOK'
<1>1. CASE UNCHANGED vars
    BY <1>1 DEF vars, OpsTypeOK
<1>2. CASE Edit
    BY <1>2 DEF Edit, EditRun, EditQuarantine, EditBackup, OpsTypeOK, disk
<1>3. ASSUME NEW p \in Process, StepOf(p) PROVE OpsTypeOK'
  <2> USE DEF OpsTypeOK, Goto, Raise, Fail, disk, Working, Ended, Reason
  <2>1. /\ Knows(p) /\ job[p] \in Job /\ job[p].run \in Run /\ job[p].receipt \in Receipt
        /\ job[p].backup \in Backup /\ job[p].anchor \in Content
      BY DEF Knowledge, Job
  <2>2. seen[p] \in Content => Quarantined(p) \in Place
      BY <2>1 DEF Quarantined, Place
  <2>3. CASE Inspect(p)
      BY <2>1, <2>3 DEF Inspect
  <2>4. CASE CheckFree(p)
      BY <2>4 DEF CheckFree
  <2>5. CASE Rename(p)
      BY <2>1, <2>2, <2>5 DEF Rename, Knows
  <2>6. CASE CheckQuarantined(p) \/ Recheck(p) \/ ValidateBackup(p)
      BY <2>6 DEF CheckQuarantined, Recheck, ValidateBackup
  <2>7. CASE WriteReceipt(p)
      BY <2>1, <2>2, <2>7 DEF WriteReceipt, Knows
  <2>8. CASE RestoreName(p)
      BY <2>1, <2>2, <2>8 DEF RestoreName, Knows
  <2>9. CASE UnlinkReceipt(p)
      BY <2>9 DEF UnlinkReceipt
  <2>10. CASE ValidateFirst(p)
      BY <2>1, <2>10 DEF ValidateFirst
  <2>11. CASE Copy(p)
      BY <2>1, <2>11 DEF Copy, Knows
  <2>12. CASE PublishBackup(p)
      BY <2>1, <2>12 DEF PublishBackup, Knows, Sealed
  <2>13. CASE PlaceRun(p)
      BY <2>1, <2>13 DEF PlaceRun
  <2>14. CASE StepFails(p)
      BY <2>14, UnwindType DEF StepFails
  <2>15. CASE ReceiptFailsLate(p)
      BY <2>1, <2>2, <2>15 DEF ReceiptFailsLate, Knows
  <2>16. CASE Kill(p)
      BY <2>16 DEF Kill
  <2> QED
      BY <1>3, <2>3, <2>4, <2>5, <2>6, <2>7, <2>8, <2>9, <2>10, <2>11, <2>12, <2>13, <2>14,
         <2>15, <2>16 DEF StepOf, Program
<1> QED BY <1>1, <1>2, <1>3, Steps

\* A process changes what it alone knows of itself: nobody else takes its steps.
LEMMA OnlyOwn ==
    ASSUME OpsTypeOK, NEW p \in Process, StepOf(p), NEW q \in Process, q # p
    PROVE  pc'[q] = pc[q] /\ error'[q] = error[q] /\ seen'[q] = seen[q] /\ stage'[q] = stage[q]
BY DEF StepOf, Program, Inspect, CheckFree, Rename, CheckQuarantined, WriteReceipt, Recheck,
       RestoreName, UnlinkReceipt, ValidateFirst, Copy, PublishBackup, ValidateBackup, PlaceRun,
       StepFails, ReceiptFailsLate, Kill, OpsTypeOK, Goto, Raise, Fail

\* No command changes what it was asked to do, and no other program changes a process.
LEMMA JobsStay ==
    ASSUME [Next]_vars
    PROVE  job' = job /\ (Edit \/ UNCHANGED vars => UNCHANGED <<pc, error, seen, stage, receipts>>)
BY Steps DEF StepOf, Program, Inspect, CheckFree, Rename, CheckQuarantined, WriteReceipt, Recheck,
       RestoreName, UnlinkReceipt, ValidateFirst, Copy, PublishBackup, ValidateBackup, PlaceRun,
       StepFails, ReceiptFailsLate, Kill, Edit, EditRun, EditQuarantine, EditBackup, vars

\* Each step leaves a process with the knowledge its next step needs.
LEMMA KnowledgeStep == ASSUME OpsTypeOK, Knowledge, [Next]_vars PROVE Knowledge'
<1>1. job' = job
    BY JobsStay
<1>2. CASE Edit \/ UNCHANGED vars
    BY <1>1, <1>2, JobsStay DEF Knowledge, Knows
<1>3. ASSUME NEW p \in Process, StepOf(p), NEW q \in Process PROVE Knows(q)'
  <2>1. Knows(q)
      BY DEF Knowledge
  <2>2. CASE q # p
      BY <1>1, <1>3, <2>1, <2>2, OnlyOwn DEF Knows
  <2>3. CASE q = p
    <3> USE DEF Knows, OpsTypeOK, Goto, Raise, Fail, Working
    <3> job[p] \in Job
        OBVIOUS
    <3>1. CASE Inspect(p)
        BY <1>1, <2>1, <2>3, <3>1 DEF Inspect, Job
    <3>2. CASE CheckFree(p) \/ Recheck(p) \/ CheckQuarantined(p) \/ WriteReceipt(p)
        BY <1>1, <2>1, <2>3, <3>2 DEF CheckFree, Recheck, CheckQuarantined, WriteReceipt
    <3>3. CASE Rename(p)
        BY <1>1, <2>1, <2>3, <3>3 DEF Rename
    <3>4. CASE RestoreName(p) \/ UnlinkReceipt(p) \/ ValidateBackup(p)
        BY <1>1, <2>1, <2>3, <3>4 DEF RestoreName, UnlinkReceipt, ValidateBackup
    <3>5. CASE ValidateFirst(p)
        BY <1>1, <2>1, <2>3, <3>5 DEF ValidateFirst, Job
    <3>6. CASE Copy(p)
        BY <1>1, <2>1, <2>3, <3>6 DEF Copy, Job
    <3>7. CASE PublishBackup(p) \/ PlaceRun(p)
        BY <1>1, <2>1, <2>3, <3>7 DEF PublishBackup, PlaceRun
    <3>8. CASE StepFails(p)
        BY <1>1, <2>1, <2>3, <3>8 DEF StepFails, Unwind
    <3>9. CASE ReceiptFailsLate(p) \/ Kill(p)
        BY <1>1, <2>1, <2>3, <3>9 DEF ReceiptFailsLate, Kill
    <3> QED
        BY <1>3, <3>1, <3>2, <3>3, <3>4, <3>5, <3>6, <3>7, <3>8, <3>9 DEF StepOf, Program
  <2> QED BY <2>2, <2>3
<1> QED BY <1>2, <1>3, Steps DEF Knowledge

\* In every behaviour the commands keep their types and what they know.
THEOREM KnowledgeInvariance == Spec => [](OpsTypeOK /\ Knowledge)
<1>1. Init => OpsTypeOK /\ Knowledge
    BY DEF Init, OpsTypeOK, Knowledge, Knows, Working, Reason
<1>2. (OpsTypeOK /\ Knowledge) /\ [Next]_vars => (OpsTypeOK /\ Knowledge)'
    BY TypeStep, KnowledgeStep
<1> QED BY <1>1, <1>2, PTL DEF Spec

-----------------------------------------------------------------------------
(* The trees that move *)

\* The three moves that a command can make: a run into quarantine, a quarantined
\* tree back to its name, and a validated copy of a backup into service.
Quarantines(p) ==
    /\ pc[p] = "renaming" /\ Goto(p, "verifying")
    /\ run[job[p].run] # Nothing /\ quarantine[Quarantined(p)] = Nothing
    /\ quarantine' = [quarantine EXCEPT ![Quarantined(p)] = run[job[p].run]]
    /\ run' = [run EXCEPT ![job[p].run] = Nothing]

PutsBack(p) ==
    /\ pc[p] = "restoring" /\ Goto(p, "unlinking")
    /\ quarantine[Quarantined(p)] # Nothing /\ run[job[p].run] = Nothing
    /\ run' = [run EXCEPT ![job[p].run] = quarantine[Quarantined(p)]]
    /\ quarantine' = [quarantine EXCEPT ![Quarantined(p)] = Nothing]

PlacesCopy(p) ==
    /\ pc[p] = "placing"
    /\ run[job[p].run] = Nothing
    /\ run' = [run EXCEPT ![job[p].run] = stage[p]]
    /\ UNCHANGED quarantine

\* Whatever else a process does leaves the trees where they are.
LEMMA Moves ==
    ASSUME NEW p \in Process, StepOf(p)
    PROVE  Quarantines(p) \/ PutsBack(p) \/ PlacesCopy(p) \/ UNCHANGED <<run, quarantine>>
BY DEF StepOf, Program, Inspect, CheckFree, Rename, CheckQuarantined, WriteReceipt, Recheck,
       RestoreName, UnlinkReceipt, ValidateFirst, Copy, PublishBackup, ValidateBackup, PlaceRun,
       StepFails, ReceiptFailsLate, Kill, disk, Quarantines, PutsBack, PlacesCopy

-----------------------------------------------------------------------------
(* Who holds a quarantined tree *)

Holds(p) ==
    /\ job[p].op = "clear"
    /\ pc[p] \in {"verifying", "writing", "rechecking", "restoring", "done"}

\* A clear has the place in quarantine to itself from its rename until it puts the
\* tree back: the place is named after the manifest, and a taken one is refused.
HoldInv ==
    /\ \A p \in Process : Holds(p) => quarantine[Quarantined(p)] # Nothing
    /\ \A p, q \in Process : Holds(p) /\ Holds(q) /\ Quarantined(p) = Quarantined(q) => p = q

\* A process holds what it quarantined in this step or held before.
LEMMA HoldSteps ==
    ASSUME OpsTypeOK, Knowledge, NEW p \in Process, StepOf(p), NEW q \in Process, Holds(q)'
    PROVE  /\ Quarantined(q)' = Quarantined(q)
           /\ Holds(q) \/ (q = p /\ Quarantines(p))
           /\ q = p => ~PutsBack(p)
<1>1. [Next]_vars
    BY DEF StepOf, Next
<1>2. job' = job
    BY <1>1, JobsStay
<1>3. CASE q # p
    BY <1>2, <1>3, OnlyOwn DEF Holds, Quarantined
<1>4. CASE q = p
  <2> USE DEF Holds, OpsTypeOK, Goto, Raise, Fail
  <2>1. Knows(p)
      BY DEF Knowledge
  <2>2. CASE Inspect(p) \/ ValidateFirst(p) \/ UnlinkReceipt(p)
      BY <1>2, <1>4, <2>2 DEF Inspect, ValidateFirst, UnlinkReceipt
  <2>3. CASE CheckFree(p) \/ CheckQuarantined(p) \/ WriteReceipt(p) \/ Recheck(p)
      BY <1>2, <1>4, <2>3 DEF CheckFree, CheckQuarantined, WriteReceipt, Recheck, Quarantined,
                              PutsBack
  <2>4. CASE Rename(p)
      BY <1>2, <1>4, <2>4 DEF Rename, Quarantines, Quarantined, PutsBack
  <2>5. CASE RestoreName(p)
      BY <1>2, <1>4, <2>5 DEF RestoreName
  <2>6. CASE Copy(p) \/ PublishBackup(p)
      BY <1>2, <1>4, <2>6 DEF Copy, PublishBackup
  <2>7. CASE ValidateBackup(p) \/ PlaceRun(p)
      BY <1>2, <1>4, <2>1, <2>7 DEF ValidateBackup, PlaceRun, Knows
  <2>8. CASE StepFails(p)
      BY <1>2, <1>4, <2>1, <2>8 DEF StepFails, Unwind, Quarantined, PutsBack, Knows
  <2>9. CASE ReceiptFailsLate(p) \/ Kill(p)
      BY <1>2, <1>4, <2>1, <2>9 DEF ReceiptFailsLate, Kill, Quarantined, PutsBack, Knows
  <2> QED
      BY <2>2, <2>3, <2>4, <2>5, <2>6, <2>7, <2>8, <2>9 DEF StepOf, Program
<1> QED BY <1>3, <1>4

\* The place of a tree that a clear holds is named after its run and its manifest.
LEMMA PlaceOfHeld ==
    ASSUME OpsTypeOK, Knowledge, NEW p \in Process, Holds(p)
    PROVE  Quarantined(p) \in Place
<1>1. job[p].run \in Run
    BY DEF OpsTypeOK, Job
<1>2. seen[p] \in Content
    BY DEF Holds, Knowledge, Knows, Working
<1> QED BY <1>1, <1>2 DEF Quarantined, Place

\* No step takes a tree away from the clear that holds it.
LEMMA HoldStep == ASSUME OpsTypeOK, Knowledge, HoldInv, [Next]_vars PROVE HoldInv'
<1>1. CASE Edit \/ UNCHANGED vars
  <2>1. UNCHANGED <<job, pc, seen>>
      BY <1>1, JobsStay
  <2>2. \A x \in Place : quarantine[x] # Nothing => quarantine'[x] # Nothing
      BY <1>1, NothingAssumption DEF Edit, EditRun, EditQuarantine, EditBackup, vars, OpsTypeOK
  <2>3. \A p \in Process : Holds(p) => Quarantined(p) \in Place
      BY PlaceOfHeld
  <2> QED BY <2>1, <2>2, <2>3 DEF HoldInv, Holds, Quarantined
<1>2. ASSUME NEW p \in Process, StepOf(p), NEW q \in Process, Holds(q)'
      PROVE  quarantine'[Quarantined(q)] # Nothing
  <2>1. Quarantined(q) \in Place
    <3>1. CASE Holds(q)
        BY <3>1, PlaceOfHeld
    <3>2. CASE q = p /\ Quarantines(p)
      <4>1. seen[p] \in Content /\ job[p].run \in Run
          BY <3>2 DEF Quarantines, Knowledge, Knows, Working, OpsTypeOK, Job
      <4> QED BY <3>2, <4>1 DEF Quarantined, Place
    <3> QED BY <1>2, <3>1, <3>2, HoldSteps
  <2>2. CASE Quarantines(p)
    <3>1. CASE Quarantined(q) = Quarantined(p)
        BY <2>1, <2>2, <3>1 DEF Quarantines, OpsTypeOK
    <3>2. CASE Quarantined(q) # Quarantined(p)
      <4>1. Holds(q)
          BY <1>2, <3>2, HoldSteps
      <4> QED BY <2>1, <2>2, <3>2, <4>1 DEF Quarantines, OpsTypeOK, HoldInv
    <3> QED BY <3>1, <3>2
  <2>3. CASE PutsBack(p)
    <3>1. q # p /\ Holds(q)
        BY <1>2, <2>3, HoldSteps DEF PutsBack, Quarantines
    <3>2. Holds(p)
        BY <2>3 DEF PutsBack, Holds, Knowledge, Knows
    <3>3. Quarantined(q) # Quarantined(p)
        BY <3>1, <3>2 DEF HoldInv
    <3> QED BY <2>1, <2>3, <3>1, <3>3 DEF PutsBack, OpsTypeOK, HoldInv
  <2>4. CASE ~Quarantines(p) /\ ~PutsBack(p)
    <3>1. quarantine' = quarantine
        BY <1>2, <2>4, Moves DEF PlacesCopy
    <3>2. Holds(q)
        BY <1>2, <2>4, HoldSteps
    <3> QED BY <3>1, <3>2 DEF HoldInv
  <2> QED BY <2>2, <2>3, <2>4
<1>3. ASSUME NEW p \in Process, StepOf(p), NEW q \in Process, NEW r \in Process,
             Holds(q)', Holds(r)', Quarantined(q) = Quarantined(r), q # r
      PROVE  FALSE
  <2>1. Holds(q) \/ (q = p /\ Quarantines(p))
      BY <1>3, HoldSteps
  <2>2. Holds(r) \/ (r = p /\ Quarantines(p))
      BY <1>3, HoldSteps
  <2>3. Quarantines(p) => quarantine[Quarantined(p)] = Nothing
      BY DEF Quarantines
  <2> QED BY <1>3, <2>1, <2>2, <2>3 DEF HoldInv
<1>4. ASSUME NEW p \in Process, StepOf(p), NEW q \in Process, Holds(q)'
      PROVE  Quarantined(q)' = Quarantined(q)
    BY <1>4, HoldSteps
<1>5. ASSUME NEW p \in Process, StepOf(p) PROVE HoldInv'
  <2>1. \A q \in Process : Holds(q)' => quarantine'[Quarantined(q)'] # Nothing
      BY <1>2, <1>4, <1>5
  <2>2. \A q, r \in Process : Holds(q)' /\ Holds(r)' /\ Quarantined(q)' = Quarantined(r)' => q = r
      BY <1>3, <1>4, <1>5
  <2> QED BY <2>1, <2>2 DEF HoldInv
<1> QED BY <1>1, <1>5, Steps

\* In every behaviour a tree in quarantine has at most one clear that can move it.
THEOREM HoldInvariance == Spec => []HoldInv
<1>1. Init => HoldInv
    BY DEF Init, HoldInv, Holds
<1>2. (OpsTypeOK /\ Knowledge) /\ HoldInv /\ [Next]_vars => HoldInv'
    BY HoldStep
<1> QED BY <1>1, <1>2, KnowledgeInvariance, PTL DEF Spec

-----------------------------------------------------------------------------
(* What a receipt names *)

Wrote(p, r) ==
    /\ job[p].op = "clear" /\ job[p].receipt = r
    /\ \/ pc[p] \in {"rechecking", "restoring", "unlinking", "dead", "done"}
       \/ pc[p] = "failed" /\ error[p] = "fault"

\* The strengthening of ReceiptsNameQuarantine: a receipt has an author that is past
\* its writing and names the author's own place.
ReceiptInv ==
    \A r \in Receipt : receipts[r] # Nothing =>
        \E p \in Process : Wrote(p, r) /\ Quarantined(p) = receipts[r]

\* What one process does to the receipts: it writes or removes its own.
LEMMA ReceiptSteps ==
    ASSUME OpsTypeOK, Knowledge, NEW p \in Process, StepOf(p), NEW r \in Receipt,
           receipts'[r] # receipts[r]
    PROVE  /\ r = job[p].receipt /\ job[p].op = "clear"
           /\ \/ /\ receipts'[r] = Quarantined(p)
                 /\ seen' = seen
                 /\ pc'[p] \in {"rechecking", "restoring"} /\ pc[p] = "writing"
              \/ receipts'[r] = Nothing /\ pc[p] = "unlinking"
<1> USE DEF OpsTypeOK, Goto, Raise, Fail, disk
<1>1. Knows(p)
    BY DEF Knowledge
<1>2. CASE WriteReceipt(p)
    BY <1>1, <1>2 DEF WriteReceipt, Knows
<1>3. CASE ReceiptFailsLate(p)
    BY <1>1, <1>3 DEF ReceiptFailsLate, Knows
<1>4. CASE UnlinkReceipt(p)
    BY <1>1, <1>4 DEF UnlinkReceipt, Knows
<1>5. CASE UNCHANGED receipts
    BY <1>5
<1> QED
    BY <1>2, <1>3, <1>4, <1>5
       DEF StepOf, Program, Inspect, CheckFree, Rename, CheckQuarantined, Recheck, RestoreName,
           ValidateFirst, Copy, PublishBackup, ValidateBackup, PlaceRun, StepFails, Kill

\* The author of a receipt is past its writing for good, or has removed the receipt.
LEMMA WroteStays ==
    ASSUME OpsTypeOK, NEW p \in Process, StepOf(p), NEW q \in Process, NEW r \in Receipt,
           Wrote(q, r), receipts'[r] # Nothing
    PROVE  Wrote(q, r)' /\ Quarantined(q)' = Quarantined(q)
<1>1. job' = job
    BY JobsStay DEF StepOf, Next
<1>2. CASE q # p
    BY <1>1, <1>2, OnlyOwn DEF Wrote, Quarantined
<1>3. CASE q = p
  <2> USE DEF Wrote, OpsTypeOK, Goto, Raise, Fail
  <2>1. CASE Recheck(p)
      BY <1>1, <1>3, <2>1 DEF Recheck, Quarantined
  <2>2. CASE RestoreName(p)
      BY <1>1, <1>3, <2>2 DEF RestoreName, Quarantined
  <2>3. CASE UnlinkReceipt(p)
      BY <1>1, <1>3, <2>3 DEF UnlinkReceipt, Quarantined
  <2>4. CASE StepFails(p)
      BY <1>1, <1>3, <2>4 DEF StepFails, Unwind, Working, Quarantined
  <2>5. CASE Kill(p)
      BY <1>1, <1>3, <2>5 DEF Kill, Quarantined, Working
  <2> QED
      BY <1>3, <2>1, <2>2, <2>3, <2>4, <2>5
         DEF StepOf, Program, Inspect, CheckFree, Rename, CheckQuarantined, WriteReceipt,
             ValidateFirst, Copy, PublishBackup, ValidateBackup, PlaceRun, ReceiptFailsLate
<1> QED BY <1>2, <1>3

\* Each step leaves every receipt with its author.
LEMMA ReceiptStep == ASSUME OpsTypeOK, Knowledge, ReceiptInv, [Next]_vars PROVE ReceiptInv'
<1>1. job' = job
    BY JobsStay
<1>2. CASE Edit \/ UNCHANGED vars
    BY <1>1, <1>2, JobsStay DEF ReceiptInv, Wrote, Quarantined
<1>3. ASSUME NEW p \in Process, StepOf(p), NEW r \in Receipt, receipts'[r] # Nothing
      PROVE  \E q \in Process : Wrote(q, r)' /\ Quarantined(q)' = receipts'[r]
  <2>1. CASE receipts'[r] = receipts[r]
    <3>1. PICK q \in Process : Wrote(q, r) /\ Quarantined(q) = receipts[r]
        BY <1>3, <2>1 DEF ReceiptInv
    <3>2. Wrote(q, r)' /\ Quarantined(q)' = Quarantined(q)
        BY <1>3, <3>1, WroteStays
    <3> QED BY <2>1, <3>1, <3>2
  <2>2. CASE receipts'[r] # receipts[r]
    <3>1. /\ r = job[p].receipt /\ job[p].op = "clear"
          /\ receipts'[r] = Quarantined(p) /\ seen' = seen
          /\ pc'[p] \in {"rechecking", "restoring"}
        BY <1>3, <2>2, ReceiptSteps
    <3>2. Wrote(p, r)' /\ Quarantined(p)' = Quarantined(p)
        BY <1>1, <3>1 DEF Wrote, Quarantined
    <3> QED BY <3>1, <3>2
  <2> QED BY <2>1, <2>2
<1> QED BY <1>2, <1>3, Steps DEF ReceiptInv

\* A receipt names a tree that is in quarantine, however many clears share the
\* receipt path or the run, unless its author is about to remove it, died before
\* it could, or was kept from it by a failure.
THEOREM ReceiptsNameQuarantineAlways == Spec => []ReceiptsNameQuarantine
<1>1. Init => ReceiptInv
    BY DEF Init, ReceiptInv
<1>2. (OpsTypeOK /\ Knowledge) /\ ReceiptInv /\ [Next]_vars => ReceiptInv'
    BY ReceiptStep
<1>3. HoldInv /\ ReceiptInv => ReceiptsNameQuarantine
  <2> SUFFICES ASSUME HoldInv, ReceiptInv, NEW r \in Receipt, receipts[r] # Nothing,
                      quarantine[receipts[r]] = Nothing
               PROVE  \E p \in Process :
                          /\ job[p].op = "clear" /\ job[p].receipt = r
                          /\ pc[p] \in {"unlinking", "dead"} \/ error[p] = "fault"
      BY DEF ReceiptsNameQuarantine
  <2>1. PICK p \in Process : Wrote(p, r) /\ Quarantined(p) = receipts[r]
      BY DEF ReceiptInv
  <2>2. ~Holds(p)
      BY <2>1 DEF HoldInv
  <2> QED BY <2>1, <2>2 DEF Wrote, Holds
<1> QED BY <1>1, <1>2, <1>3, KnowledgeInvariance, HoldInvariance, PTL DEF Spec

-----------------------------------------------------------------------------
(* Who accounts for a tree in quarantine *)

\* Each clear is given a receipt path of its own; with a shared one a clear that
\* fails removes the receipt of another.
OwnReceipts ==
    \A p, q \in Process :
        job[p].op = "clear" /\ job[q].op = "clear" /\ job[p].receipt = job[q].receipt => p = q

Answers(p) == ClearingOrStuck(p) \/ (job[p].op = "clear" /\ pc[p] = "done")

\* The strengthening of QuarantineIsAccounted: a tree stays with the clear that
\* moved it, and a clear that is past its receipt still has it.
AccountInv ==
    /\ \A p \in Process : job[p].op = "clear" /\ pc[p] \in {"rechecking", "done"} =>
           receipts[job[p].receipt] = Quarantined(p)
    /\ \A x \in Place : quarantine[x] # Nothing =>
           \E p \in Process : Answers(p) /\ Quarantined(p) = x

\* Who answers for a tree does so until it is out of quarantine.
LEMMA AnswersStays ==
    ASSUME OpsTypeOK, Knowledge, NEW p \in Process, StepOf(p), NEW q \in Process, Answers(q),
           q = p => ~PutsBack(p)
    PROVE  Answers(q)' /\ Quarantined(q)' = Quarantined(q)
<1>1. job' = job
    BY JobsStay DEF StepOf, Next
<1>2. CASE q # p
    BY <1>1, <1>2, OnlyOwn DEF Answers, ClearingOrStuck, Quarantined
<1>3. CASE q = p
  <2> USE DEF Answers, ClearingOrStuck, Quarantined, OpsTypeOK, Goto, Raise, Fail
  <2>1. CASE CheckQuarantined(p) \/ WriteReceipt(p) \/ Recheck(p)
      BY <1>1, <1>3, <2>1 DEF CheckQuarantined, WriteReceipt, Recheck
  <2>2. CASE RestoreName(p)
      BY <1>1, <1>3, <2>2 DEF RestoreName, PutsBack
  <2>3. CASE UnlinkReceipt(p)
      BY <1>1, <1>3, <2>3 DEF UnlinkReceipt
  <2>4. CASE StepFails(p)
      BY <1>1, <1>3, <2>4 DEF StepFails, Unwind, Working
  <2>5. CASE ReceiptFailsLate(p) \/ Kill(p)
      BY <1>1, <1>3, <2>5 DEF ReceiptFailsLate, Kill, Working
  <2> QED
      BY <1>3, <2>1, <2>2, <2>3, <2>4, <2>5
         DEF StepOf, Program, Inspect, CheckFree, Rename, ValidateFirst, Copy, PublishBackup,
             ValidateBackup, PlaceRun
<1> QED BY <1>2, <1>3

\* With receipts of their own, no clear removes what another relies on.
LEMMA ReceiptKept ==
    ASSUME OpsTypeOK, Knowledge, OwnReceipts, AccountInv,
           NEW p \in Process, StepOf(p), NEW q \in Process,
           job[q].op = "clear", pc'[q] \in {"rechecking", "done"}
    PROVE  receipts'[job[q].receipt] = Quarantined(q)'
<1>1. job[q].receipt \in Receipt
    BY DEF OpsTypeOK, Job
<1>2. job' = job
    BY JobsStay DEF StepOf, Next
<1>3. CASE q # p
  <2>1. receipts'[job[q].receipt] = receipts[job[q].receipt]
      BY <1>1, <1>3, ReceiptSteps DEF OwnReceipts
  <2> QED BY <1>2, <1>3, <2>1, OnlyOwn DEF AccountInv, Quarantined
<1>4. CASE q = p
  <2> USE DEF OpsTypeOK, Goto, Raise, Fail, Quarantined
  <2>1. CASE WriteReceipt(p)
      BY <1>1, <1>2, <1>4, <2>1 DEF WriteReceipt
  <2>2. CASE Recheck(p)
      BY <1>1, <1>2, <1>4, <2>2 DEF Recheck, AccountInv, disk
  <2>3. CASE ValidateBackup(p) \/ PlaceRun(p)
      BY <1>4, <2>3 DEF ValidateBackup, PlaceRun, Knowledge, Knows
  <2>4. CASE StepFails(p)
      BY <1>4, <2>4 DEF StepFails, Unwind
  <2> QED
      BY <1>4, <2>1, <2>2, <2>3, <2>4
         DEF StepOf, Program, Inspect, CheckFree, Rename, CheckQuarantined, RestoreName,
             UnlinkReceipt, ValidateFirst, Copy, PublishBackup, ReceiptFailsLate, Kill
<1> QED BY <1>3, <1>4

\* Each step leaves somebody to answer for every tree in quarantine.
LEMMA AccountStep ==
    ASSUME OpsTypeOK, Knowledge, OwnReceipts, AccountInv, [Next]_vars
    PROVE  AccountInv'
<1>1. job' = job
    BY JobsStay
<1>2. CASE Edit \/ UNCHANGED vars
  <2>1. UNCHANGED <<job, pc, error, seen, receipts>>
      BY <1>2, JobsStay
  <2>2. \A x \in Place : quarantine'[x] # Nothing => quarantine[x] # Nothing
      BY <1>2 DEF Edit, EditRun, EditQuarantine, EditBackup, vars, OpsTypeOK
  <2> QED BY <2>1, <2>2 DEF AccountInv, Answers, ClearingOrStuck, Quarantined
<1>3. ASSUME NEW p \in Process, StepOf(p), NEW x \in Place, quarantine'[x] # Nothing
      PROVE  \E q \in Process : Answers(q)' /\ Quarantined(q)' = x
  <2>1. CASE Quarantines(p) /\ x = Quarantined(p)
    <3>1. pc'[p] = "verifying" /\ job[p].op = "clear"
        BY <2>1 DEF Quarantines, Goto, OpsTypeOK, Knowledge, Knows
    <3>2. Holds(p)'
        BY <1>1, <3>1 DEF Holds
    <3>3. Quarantined(p)' = Quarantined(p)
        BY <1>3, <3>2, HoldSteps
    <3> QED BY <1>1, <2>1, <3>1, <3>3 DEF Answers, ClearingOrStuck
  <2>2. CASE ~(Quarantines(p) /\ x = Quarantined(p))
    <3>1. quarantine[x] # Nothing
        BY <1>3, <2>2, Moves DEF Quarantines, PutsBack, PlacesCopy, OpsTypeOK
    <3>2. PICK q \in Process : Answers(q) /\ Quarantined(q) = x
        BY <3>1 DEF AccountInv
    <3>3. q = p => ~PutsBack(p)
        BY <1>3, <3>2 DEF PutsBack, OpsTypeOK
    <3> QED BY <1>3, <3>2, <3>3, AnswersStays
  <2> QED BY <2>1, <2>2
<1>4. ASSUME NEW p \in Process, StepOf(p) PROVE AccountInv'
  <2>1. \A q \in Process : job'[q].op = "clear" /\ pc'[q] \in {"rechecking", "done"} =>
            receipts'[job'[q].receipt] = Quarantined(q)'
      BY <1>1, <1>4, ReceiptKept
  <2>2. \A x \in Place : quarantine'[x] # Nothing =>
            \E q \in Process : Answers(q)' /\ Quarantined(q)' = x
      BY <1>3, <1>4
  <2> QED BY <2>1, <2>2 DEF AccountInv
<1> QED BY <1>2, <1>4, Steps

\* When no two clears were given the same receipt path, every tree out of service is
\* named by a receipt, or is with a clear that is under way, died or is stuck.
THEOREM QuarantineIsAccountedAlways == Spec /\ OwnReceipts => []QuarantineIsAccounted
<1>1. Init => AccountInv
    BY DEF Init, AccountInv
<1>2. OwnReceipts /\ [Next]_vars => OwnReceipts'
    BY JobsStay DEF OwnReceipts
<1>3. (OpsTypeOK /\ Knowledge) /\ OwnReceipts /\ AccountInv /\ [Next]_vars => AccountInv'
    BY AccountStep
<1>4. (OpsTypeOK /\ Knowledge) /\ AccountInv => QuarantineIsAccounted
  <2> SUFFICES ASSUME OpsTypeOK, AccountInv, NEW x \in Place, quarantine[x] # Nothing
               PROVE  \/ \E r \in Receipt : receipts[r] = x
                      \/ \E p \in Process : ClearingOrStuck(p) /\ Quarantined(p) = x
      BY DEF QuarantineIsAccounted
  <2>1. PICK p \in Process : Answers(p) /\ Quarantined(p) = x
      BY DEF AccountInv
  <2>2. job[p].receipt \in Receipt
      BY DEF OpsTypeOK, Job
  <2> QED BY <2>1, <2>2 DEF AccountInv, Answers
<1> QED BY <1>1, <1>2, <1>3, <1>4, KnowledgeInvariance, PTL DEF Spec

-----------------------------------------------------------------------------
(* What a restore puts into service *)

\* The step with which a restore succeeds.
LEMMA RestoreStep ==
    ASSUME OpsTypeOK, Knowledge, [Next]_vars, NEW p \in Process,
           job[p].op = "restore", pc[p] # "done", pc'[p] = "done"
    PROVE  run'[job[p].run] = job[p].anchor
<1>1. ~Edit /\ ~UNCHANGED vars
    BY JobsStay
<1>2. PICK q \in Process : StepOf(q)
    BY <1>1, Steps
<1>3. q = p
    BY <1>2, OnlyOwn
<1>4. PlaceRun(p)
  <2> USE DEF OpsTypeOK, Goto, Raise, Fail, Knowledge, Knows
  <2>1. CASE Recheck(p) \/ ValidateBackup(p)
      BY <2>1 DEF Recheck, ValidateBackup
  <2>2. CASE StepFails(p)
      BY <2>2, UnwindType DEF StepFails
  <2> QED
      BY <1>2, <1>3, <2>1, <2>2
         DEF StepOf, Program, Inspect, CheckFree, Rename, CheckQuarantined, WriteReceipt,
             RestoreName, UnlinkReceipt, ValidateFirst, Copy, PublishBackup, ReceiptFailsLate, Kill
<1>5. job[p].run \in Run /\ stage[p] = job[p].anchor
    BY <1>4 DEF PlaceRun, OpsTypeOK, Job, Knowledge, Knows
<1> QED BY <1>4, <1>5 DEF PlaceRun, Goto, Raise, Fail, OpsTypeOK

\* Whatever happens to a backup after its validation, a restore that succeeds puts
\* the tree with the recorded manifest hash into service.
THEOREM RestoredIsAnchoredAlways == Spec => RestoredIsAnchored
<1>1. OpsTypeOK /\ Knowledge /\ [Next]_vars =>
          [\A p \in Process :
              job[p].op = "restore" /\ pc[p] # "done" /\ pc'[p] = "done"
                  => run'[job[p].run] = job[p].anchor]_vars
    BY RestoreStep
<1> QED BY <1>1, KnowledgeInvariance, PTL DEF Spec, RestoredIsAnchored

-----------------------------------------------------------------------------
(* How many copies of a tree there are *)

Quarantine == {x \in Place : quarantine[x] # Nothing}

\* 1 for a member, 0 for any other value.
In(x, S) == IF x \in S THEN 1 ELSE 0

\* Adding or removing one element changes the size of a finite set by what it changes
\* of the element's membership.
LEMMA CountAfter ==
    ASSUME NEW B, IsFiniteSet(B), NEW a, NEW A, A = B \cup {a} \/ A = B \ {a}
    PROVE  /\ Cardinality(B) \in Nat
           /\ Cardinality(A) = Cardinality(B) + In(a, A) - In(a, B)
<1>1. Cardinality(B) \in Nat
    BY FS_CardinalityType
<1>2. CASE A = B \cup {a}
  <2>1. Cardinality(A) = IF a \in B THEN Cardinality(B) ELSE Cardinality(B) + 1
      BY <1>2, FS_AddElement
  <2>2. a \in A
      BY <1>2
  <2> QED BY <1>1, <2>1, <2>2 DEF In
<1>3. CASE A = B \ {a}
  <2>1. Cardinality(A) = IF a \in B THEN Cardinality(B) - 1 ELSE Cardinality(B)
      BY <1>3, FS_RemoveElement
  <2>2. a \notin A
      BY <1>3
  <2> QED BY <1>1, <2>1, <2>2 DEF In
<1> QED BY <1>2, <1>3

\* There are finitely many trees in quarantine: each was put there by a step.
LEMMA FiniteStep ==
    ASSUME OpsTypeOK, Knowledge, IsFiniteSet(Quarantine), [Next]_vars
    PROVE  IsFiniteSet(Quarantine')
<1>1. CASE \E x : Quarantine' \subseteq Quarantine \cup {x}
    BY <1>1, FS_AddElement, FS_Subset
<1>2. CASE Edit \/ UNCHANGED vars
  <2>1. Quarantine' \subseteq Quarantine \cup {Nothing}
      BY <1>2 DEF Quarantine, Edit, EditRun, EditQuarantine, EditBackup, vars, OpsTypeOK
  <2> QED BY <1>1, <2>1
<1>3. ASSUME NEW p \in Process, StepOf(p) PROVE IsFiniteSet(Quarantine')
  <2>1. Quarantine' \subseteq Quarantine \cup {Quarantined(p)}
      BY <1>3, Moves DEF Quarantine, Quarantines, PutsBack, PlacesCopy, OpsTypeOK
  <2> QED BY <1>1, <2>1
<1> QED BY <1>2, <1>3, Steps

\* The two terms of Copies, before and after a move.
ServedAs(c) == {r \in Run : run[r] = c}
QuarantinedAs(c) == {q \in Place : quarantine[q] = c}
InService(c) == Cardinality(ServedAs(c))
InQuarantine(c) == Cardinality(QuarantinedAs(c))

LEMMA FiniteTerms ==
    ASSUME IsFiniteSet(Run), IsFiniteSet(Quarantine), NEW c \in Content
    PROVE  IsFiniteSet(ServedAs(c)) /\ IsFiniteSet(QuarantinedAs(c))
<1>1. ServedAs(c) \subseteq Run
    BY DEF ServedAs
<1>2. QuarantinedAs(c) \subseteq Quarantine
    BY NothingAssumption DEF QuarantinedAs, Quarantine
<1> QED BY <1>1, <1>2, FS_Subset

LEMMA ServiceAfter ==
    ASSUME IsFiniteSet(Run), IsFiniteSet(Quarantine), OpsTypeOK, NEW r \in Run,
           NEW v \in Content \cup {Nothing}, run' = [run EXCEPT ![r] = v], NEW c \in Content
    PROVE  /\ InService(c) \in Nat
           /\ InService(c)' = InService(c) + In(v, {c}) - In(run[r], {c})
<1>1. run \in [Run -> Content \cup {Nothing}]
    BY DEF OpsTypeOK
<1>2. ServedAs(c)' = ServedAs(c) \cup {r} \/ ServedAs(c)' = ServedAs(c) \ {r}
    BY <1>1 DEF ServedAs
<1>3. (r \in ServedAs(c)' <=> v = c) /\ (r \in ServedAs(c) <=> run[r] = c)
    BY <1>1 DEF ServedAs
<1>4. IsFiniteSet(ServedAs(c))
    BY FiniteTerms
<1>5. /\ Cardinality(ServedAs(c)) \in Nat
      /\ Cardinality(ServedAs(c)') =
             Cardinality(ServedAs(c)) + In(r, ServedAs(c)') - In(r, ServedAs(c))
    BY <1>2, <1>4, CountAfter
<1> QED BY <1>3, <1>5 DEF InService, In

LEMMA QuarantineAfter ==
    ASSUME IsFiniteSet(Run), IsFiniteSet(Quarantine), OpsTypeOK, NEW x \in Place,
           NEW v \in Content \cup {Nothing}, quarantine' = [quarantine EXCEPT ![x] = v],
           NEW c \in Content
    PROVE  /\ InQuarantine(c) \in Nat
           /\ InQuarantine(c)' = InQuarantine(c) + In(v, {c}) - In(quarantine[x], {c})
<1>1. quarantine \in [Place -> Content \cup {Nothing}]
    BY DEF OpsTypeOK
<1>2. QuarantinedAs(c)' = QuarantinedAs(c) \cup {x} \/ QuarantinedAs(c)' = QuarantinedAs(c) \ {x}
    BY <1>1 DEF QuarantinedAs
<1>3. (x \in QuarantinedAs(c)' <=> v = c) /\ (x \in QuarantinedAs(c) <=> quarantine[x] = c)
    BY <1>1 DEF QuarantinedAs
<1>4. IsFiniteSet(QuarantinedAs(c))
    BY FiniteTerms
<1>5. /\ Cardinality(QuarantinedAs(c)) \in Nat
      /\ Cardinality(QuarantinedAs(c)') =
             Cardinality(QuarantinedAs(c)) + In(x, QuarantinedAs(c)')
                                           - In(x, QuarantinedAs(c))
    BY <1>2, <1>4, CountAfter
<1> QED BY <1>3, <1>5 DEF InQuarantine, In

\* A move takes a tree from one place and puts it, unchanged, to another.
LEMMA MoveKeepsCopies ==
    ASSUME IsFiniteSet(Run), IsFiniteSet(Quarantine), OpsTypeOK, Knowledge, NEW p \in Process,
           Quarantines(p) \/ PutsBack(p) \/ PlacesCopy(p), NEW c \in Content
    PROVE  Copies(c)' >= Copies(c)
<1> DEFINE r == job[p].run
           x == Quarantined(p)
<1>1. r \in Run
    BY DEF OpsTypeOK, Job
<1>2. x \in Place
  <2>1. seen[p] \in Content
      BY DEF Quarantines, PutsBack, PlacesCopy, Knowledge, Knows, Working
  <2> QED BY <1>1, <2>1 DEF Quarantined, Place
<1>3. /\ run[r] \in Content \cup {Nothing} /\ quarantine[x] \in Content \cup {Nothing}
      /\ stage[p] \in Content \cup {Nothing}
      /\ c # Nothing
    BY <1>1, <1>2, NothingAssumption DEF OpsTypeOK
<1>4. /\ Copies(c) = InService(c) + InQuarantine(c)
      /\ Copies(c)' = InService(c)' + InQuarantine(c)'
    BY DEF Copies, InService, InQuarantine, ServedAs, QuarantinedAs
<1> HIDE DEF r, x
<1>5. CASE Quarantines(p)
  <2>1. /\ quarantine[x] = Nothing
        /\ quarantine' = [quarantine EXCEPT ![x] = run[r]]
        /\ run' = [run EXCEPT ![r] = Nothing]
      BY <1>5 DEF Quarantines, r, x
  <2>2. /\ InService(c) \in Nat
        /\ InService(c)' = InService(c) + In(Nothing, {c}) - In(run[r], {c})
      BY <1>1, <2>1, ServiceAfter
  <2>3. /\ InQuarantine(c) \in Nat
        /\ InQuarantine(c)' = InQuarantine(c) + In(run[r], {c}) - In(Nothing, {c})
      BY <1>2, <1>3, <2>1, QuarantineAfter
  <2> QED BY <1>3, <1>4, <2>2, <2>3 DEF In
<1>6. CASE PutsBack(p)
  <2>1. /\ run[r] = Nothing
        /\ run' = [run EXCEPT ![r] = quarantine[x]]
        /\ quarantine' = [quarantine EXCEPT ![x] = Nothing]
      BY <1>6 DEF PutsBack, r, x
  <2>2. /\ InService(c) \in Nat
        /\ InService(c)' = InService(c) + In(quarantine[x], {c}) - In(Nothing, {c})
      BY <1>1, <1>3, <2>1, ServiceAfter
  <2>3. /\ InQuarantine(c) \in Nat
        /\ InQuarantine(c)' = InQuarantine(c) + In(Nothing, {c}) - In(quarantine[x], {c})
      BY <1>2, <2>1, QuarantineAfter
  <2> QED BY <1>3, <1>4, <2>2, <2>3 DEF In
<1>7. CASE PlacesCopy(p)
  <2>1. /\ run[r] = Nothing /\ run' = [run EXCEPT ![r] = stage[p]]
        /\ quarantine' = quarantine
      BY <1>7 DEF PlacesCopy, r
  <2>2. /\ InService(c) \in Nat
        /\ InService(c)' = InService(c) + In(stage[p], {c}) - In(Nothing, {c})
      BY <1>1, <1>3, <2>1, ServiceAfter
  <2>3. InQuarantine(c) \in Nat
      BY FiniteTerms, FS_CardinalityType DEF InQuarantine
  <2>4. InQuarantine(c)' = InQuarantine(c)
      BY <2>1 DEF InQuarantine, QuarantinedAs
  <2> QED BY <1>3, <1>4, <2>2, <2>3, <2>4 DEF In
<1> QED BY <1>5, <1>6, <1>7

\* Any other step of a command leaves the trees alone; other programs are counted.
LEMMA CopiesStep ==
    ASSUME IsFiniteSet(Run), IsFiniteSet(Quarantine), OpsTypeOK, Knowledge, [Next]_vars,
           edits' = edits, NEW c \in Content
    PROVE  Copies(c)' >= Copies(c)
<1>1. CASE UNCHANGED <<run, quarantine>>
  <2>1. Copies(c)' = Copies(c)
      BY <1>1 DEF Copies
  <2>2. InService(c) \in Nat /\ InQuarantine(c) \in Nat
      BY FiniteTerms, FS_CardinalityType DEF InService, InQuarantine
  <2>3. Copies(c) = InService(c) + InQuarantine(c)
      BY DEF Copies, InService, InQuarantine, ServedAs, QuarantinedAs
  <2> QED BY <2>1, <2>2, <2>3
<1>2. CASE Edit
  <2>1. edits' = edits + 1 /\ edits \in Nat
      BY <1>2 DEF Edit, EditRun, EditQuarantine, EditBackup, OpsTypeOK
  <2> QED BY <2>1
<1>3. CASE UNCHANGED vars
    BY <1>1, <1>3 DEF vars
<1> QED BY <1>1, <1>2, <1>3, Steps, Moves, MoveKeepsCopies

\* With finitely many runs in service, no step of any command leaves fewer copies of
\* a tree than there were: backups, restores and clears move trees, however they
\* overlap, fail or die, and never erase one.
THEOREM NothingErasedAlways == ASSUME IsFiniteSet(Run) PROVE Spec => NothingErased
<1> DEFINE Finite == IsFiniteSet(Quarantine)
<1>1. Init => Finite
  <2> SUFFICES ASSUME Init PROVE Finite
      OBVIOUS
  <2>1. Quarantine = {}
      BY DEF Init, Quarantine
  <2> QED BY <2>1, FS_EmptySet
<1>2. (OpsTypeOK /\ Knowledge) /\ Finite /\ [Next]_vars => Finite'
    BY FiniteStep
<1>3. (OpsTypeOK /\ Knowledge) /\ Finite /\ [Next]_vars
          => [edits' = edits => \A c \in Content : Copies(c)' >= Copies(c)]_vars
    BY CopiesStep
<1> HIDE DEF Finite
<1> QED BY <1>1, <1>2, <1>3, KnowledgeInvariance, PTL DEF Spec, NothingErased
=============================================================================
