------------------------ MODULE RunPublicationProofs ------------------------
(***************************************************************************)
(* What TLAPS proves about RunPublication, for every set of processes,     *)
(* runs, contents and faults.                                              *)
(***************************************************************************)
EXTENDS RunPublication, TLAPS

-----------------------------------------------------------------------------
(* The inductive invariant *)

IInv == TypeOK /\ WriterKnowledge /\ RegisteredRunsAreSealed

\* An empty data root with no invocation under way satisfies the invariant.
LEMMA InitIInv == Init => IInv
<1> SUFFICES ASSUME Init PROVE IInv
    OBVIOUS
<1>1. TypeOK
    BY DEF Init, TypeOK, Entry, Directory, NoDirectory, File, NoFile, Error, Forward
<1>2. WriterKnowledge
    BY DEF Init, WriterKnowledge, StageIsSealed, ViewIsCurrent, TmpIsNext, DestinationIsOwn,
           ErrorIsInFlight, PublicationIsKnown, Locked, Forward
<1>3. RegisteredRunsAreSealed
    BY DEF Init, RegisteredRunsAreSealed, NoFile
<1> QED BY <1>1, <1>2, <1>3 DEF IInv

\* A writer's own entry: what _publish_registered_stage appends to the registry.
LEMMA EntryIsJob ==
    ASSUME TypeOK, NEW p \in Process, stage[p] = SealedDirectory(p)
    PROVE  EntryOf(p) = job[p] /\ job[p] \in Entry
BY DEF TypeOK, EntryOf, SealedDirectory, Entry

\* An exception always finds an enclosing clause, or ends the invocation.
LEMMA UnwindType ==
    ASSUME NEW step \in Forward \cup Recovery, NEW fault
    PROVE  Unwind(step, fault) \in Forward \cup Recovery \cup Ended
BY DEF Unwind, Forward, Recovery, Ended

\* Every outcome of the checks made under the lock is an error or none.
LEMMA RefusalType == ASSUME NEW p \in Process PROVE Refusal(p) \in Error
BY DEF Refusal, Error

\* Each step of a writer or of the environment leaves every variable in its type.
LEMMA TypeStep == ASSUME IInv, [Next]_vars PROVE TypeOK'
<1> USE DEF IInv
<1>1. CASE UNCHANGED vars
    BY <1>1 DEF vars, TypeOK
<1>2. ASSUME NEW p \in Process, Program(p) PROVE TypeOK'
  <2> USE DEF TypeOK, Goto, Raise, files
  <2>1. CASE Begin(p)
      BY <2>1 DEF Begin, Forward, Recovery, Ended, Directory
  <2>2. CASE RefuseEarly(p)
      BY <2>2 DEF RefuseEarly, Forward, Recovery, Ended, Error
  <2>3. CASE Seal(p)
      BY <2>3 DEF Seal, Forward, Recovery, Ended, Directory, Entry
  <2>4. CASE TakeLock(p)
      BY <2>4 DEF TakeLock, Forward, Recovery, Ended
  <2>5. CASE Admit(p)
      BY <2>5 DEF Admit, Forward, Recovery, Ended, File
  <2>6. CASE Refuse(p)
      BY <2>6, RefusalType DEF Refuse, Forward, Recovery, Ended
  <2>7. CASE CreateTmp(p)
      BY <2>7 DEF CreateTmp, Forward, Recovery, Ended, File
  <2>8. CASE WriteTmp(p)
    <3>1. EntryOf(p) \in Entry
        BY <2>8, EntryIsJob DEF WriteTmp, WriterKnowledge, StageIsSealed
    <3> QED BY <2>8, <3>1 DEF WriteTmp, Forward, Recovery, Ended, File
  <2>9. CASE MoveStage(p)
      BY <2>9 DEF MoveStage, Forward, Recovery, Ended, Directory, NoDirectory, Entry
  <2>10. CASE ReplaceRegistry(p)
      BY <2>10 DEF ReplaceRegistry, Forward, Recovery, Ended, File, NoFile
  <2>11. CASE Sync(p)
      BY <2>11 DEF Sync, Forward, Recovery, Ended
  <2>12. CASE RollBack(p)
      BY <2>12 DEF RollBack, Forward, Recovery, Ended, Directory, NoDirectory, Entry
  <2>13. CASE UnlinkTmp(p)
      BY <2>13 DEF UnlinkTmp, Forward, Recovery, Ended, File, NoFile
  <2>14. CASE Unlock(p)
      BY <2>14 DEF Unlock, Forward, Recovery, Ended
  <2>15. CASE Verify(p)
      BY <2>15 DEF Verify, Forward, Recovery, Ended
  <2>16. CASE RemoveStage(p)
      BY <2>16 DEF RemoveStage, Forward, Recovery, Ended, Directory, NoDirectory
  <2> QED
      BY <1>2, <2>1, <2>2, <2>3, <2>4, <2>5, <2>6, <2>7, <2>8, <2>9, <2>10, <2>11,
         <2>12, <2>13, <2>14, <2>15, <2>16 DEF Program
<1>3. ASSUME NEW p \in Process, Fault(p) PROVE TypeOK'
  <2> USE DEF TypeOK, Goto, Raise, files
  <2>1. CASE StepFails(p)
      BY <2>1, UnwindType DEF StepFails, Error
  <2>2. CASE RecoveryFails(p)
      BY <2>2, UnwindType DEF RecoveryFails, Error
  <2>3. CASE Interrupt(p)
      BY <2>3, UnwindType DEF Interrupt, Error, Active, Ended
  <2>4. CASE Kill(p)
      BY <2>4 DEF Kill, Ended
  <2> QED BY <1>3, <2>1, <2>2, <2>3, <2>4 DEF Fault
<1> QED BY <1>1, <1>2, <1>3 DEF Next

-----------------------------------------------------------------------------
(* What each writer knows survives its own steps and those of the others *)

\* Each step keeps what every writer knows: without the lock a process changes
\* only what is its own, and one process at a time holds the lock.
LEMMA KnowledgeStep == ASSUME IInv, [Next]_vars PROVE WriterKnowledge'
<1> USE DEF IInv
<1> TypeOK' BY TypeStep
<1>1. CASE UNCHANGED vars
    BY <1>1 DEF vars, WriterKnowledge, StageIsSealed, ViewIsCurrent, TmpIsNext, DestinationIsOwn,
                ErrorIsInFlight, PublicationIsKnown, SealedDirectory, Registered, Exists
<1>2. ASSUME NEW p \in Process, Program(p) \/ Fault(p) PROVE WriterKnowledge'
  <2> SUFFICES ASSUME NEW q \in Process
               PROVE  /\ pc'[q] \in Locked => lock' = q
                      /\ StageIsSealed(q)'
                      /\ ViewIsCurrent(q)'
                      /\ TmpIsNext(q)'
                      /\ DestinationIsOwn(q)'
                      /\ ErrorIsInFlight(q)'
                      /\ PublicationIsKnown(q)'
      BY DEF WriterKnowledge
  <2> USE DEF TypeOK, WriterKnowledge, StageIsSealed, ViewIsCurrent, TmpIsNext, DestinationIsOwn,
              ErrorIsInFlight, PublicationIsKnown, SealedDirectory, Registered, Exists,
              Goto, Raise, files, Forward, Recovery, Locked, Ended
  <2>1. CASE Begin(p)
      BY <2>1 DEF Begin
  <2>2. CASE RefuseEarly(p)
      BY <2>2 DEF RefuseEarly
  <2>3. CASE Seal(p)
      BY <2>3 DEF Seal
  <2>4. CASE TakeLock(p)
      BY <2>4, NobodyAssumption DEF TakeLock
  <2>5. CASE Admit(p)
      BY <2>5 DEF Admit, Refusal
  <2>6. CASE Refuse(p)
      BY <2>6 DEF Refuse
  <2>7. CASE CreateTmp(p)
      BY <2>7 DEF CreateTmp
  <2>8. CASE WriteTmp(p)
    <3>1. EntryOf(p) = job[p]
        BY <2>8, EntryIsJob DEF WriteTmp
    <3> QED BY <2>8, <3>1 DEF WriteTmp
  <2>9. CASE MoveStage(p)
    <3>1. job[p].run_id \in RunId
        BY DEF Entry
    <3>2. lock = p /\ stage[p] = SealedDirectory(p)
        BY <2>9 DEF MoveStage
    <3>3. dest'[job[p].run_id] = SealedDirectory(p)
        BY <2>9, <3>1, <3>2 DEF MoveStage
    <3>4. CASE q = p
        BY <2>9, <3>2, <3>3, <3>4 DEF MoveStage, NoDirectory
    <3>5. CASE q # p
        BY <2>9, <3>2, <3>5 DEF MoveStage
    <3> QED BY <3>4, <3>5
  <2>10. CASE ReplaceRegistry(p)
    <3>1. lock = p /\ registry'.entries = registry.entries \cup {job[p]}
      <4>1. /\ pc[p] = "registering"
            /\ registry' = tmp
          BY <2>10 DEF ReplaceRegistry
      <4>2. tmp = [state |-> "whole", entries |-> view[p] \cup {job[p]}]
          BY <4>1
      <4>3. view[p] = registry.entries /\ lock = p
          BY <4>1
      <4> QED BY ONLY <4>1, <4>2, <4>3
    <3>2. CASE q = p
      <4>1. pc'[q] = "syncing" /\ lock' = q /\ error'[q] = "none"
          BY <2>10, <3>1, <3>2 DEF ReplaceRegistry
      <4>2. job'[q] \in registry'.entries
          BY <2>10, <3>1, <3>2 DEF ReplaceRegistry
      <4> QED BY <4>1, <4>2
    <3>3. CASE q # p
        BY <2>10, <3>1, <3>3 DEF ReplaceRegistry
    <3> QED BY <3>2, <3>3
  <2>11. CASE Sync(p)
      BY <2>11 DEF Sync
  <2>12. CASE RollBack(p)
      BY <2>12 DEF RollBack, NoDirectory
  <2>13. CASE UnlinkTmp(p)
      BY <2>13 DEF UnlinkTmp
  <2>14. CASE Unlock(p)
      BY <2>14, NobodyAssumption DEF Unlock
  <2>15. CASE Verify(p)
      BY <2>15 DEF Verify
  <2>16. CASE RemoveStage(p)
      BY <2>16 DEF RemoveStage
  <2>17. CASE StepFails(p)
      BY <2>17 DEF StepFails, Unwind
  <2>18. CASE RecoveryFails(p)
      BY <2>18 DEF RecoveryFails, Unwind
  <2>19. CASE Interrupt(p)
      BY <2>19 DEF Interrupt, Unwind, Active
  <2>20. CASE Kill(p)
      BY <2>20, NobodyAssumption DEF Kill, Active
  <2> QED
      BY <1>2, <2>1, <2>2, <2>3, <2>4, <2>5, <2>6, <2>7, <2>8, <2>9, <2>10, <2>11, <2>12,
         <2>13, <2>14, <2>15, <2>16, <2>17, <2>18, <2>19, <2>20 DEF Program, Fault
<1> QED BY <1>1, <1>2 DEF Next

-----------------------------------------------------------------------------
(* What a reader of the data root sees *)

\* Only the two renames and the undoing of the first touch what a reader sees.
LEMMA VisibleSteps ==
    ASSUME [Next]_vars
    PROVE  \/ UNCHANGED <<dest, registry>>
           \/ \E p \in Process : MoveStage(p) \/ ReplaceRegistry(p) \/ RollBack(p)
BY DEF Next, Program, Fault, vars, files, Begin, RefuseEarly, Seal, TakeLock, Admit, Refuse,
       CreateTmp, WriteTmp, Sync, UnlinkTmp, Unlock, Verify, RemoveStage,
       StepFails, RecoveryFails, Interrupt, Kill

\* What the rename of a stage and its undoing leave alone: the packages of the
\* registered runs, because the writer's own run is not among them.
LEMMA MoveKeepsRegistered ==
    ASSUME IInv, NEW p \in Process, MoveStage(p) \/ RollBack(p)
    PROVE  /\ registry' = registry
           /\ \A e \in registry.entries : e \in Entry /\ dest'[e.run_id] = dest[e.run_id]
<1>1. ~Registered(job[p].run_id)
    BY DEF IInv, WriterKnowledge, ViewIsCurrent, MoveStage, RollBack
<1>2. \A e \in registry.entries : e \in Entry /\ e.run_id # job[p].run_id
    BY <1>1 DEF IInv, TypeOK, File, Registered
<1>3. \A e \in registry.entries : e.run_id \in RunId
    BY <1>2 DEF Entry
<1> QED BY <1>2, <1>3 DEF IInv, TypeOK, MoveStage, RollBack

\* The rename of the registry adds the writer's entry, whose package is in place.
LEMMA ReplaceAddsOwnEntry ==
    ASSUME IInv, NEW p \in Process, ReplaceRegistry(p)
    PROVE  /\ registry'.entries = registry.entries \cup {job[p]}
           /\ registry'.state = "whole"
           /\ dest' = dest
           /\ job[p] \in Entry
           /\ \A e \in registry.entries : e.run_id # job[p].run_id
           /\ dest[job[p].run_id] = SealedDirectory(p)
<1>1. pc[p] = "registering" /\ registry' = tmp /\ dest' = dest
    BY DEF ReplaceRegistry
<1>2. tmp = [state |-> "whole", entries |-> view[p] \cup {job[p]}]
    BY <1>1 DEF IInv, WriterKnowledge, TmpIsNext
<1>3. view[p] = registry.entries /\ ~Registered(job[p].run_id)
    BY <1>1 DEF IInv, WriterKnowledge, ViewIsCurrent
<1>4. dest[job[p].run_id] = SealedDirectory(p)
    BY <1>1 DEF IInv, WriterKnowledge, DestinationIsOwn
<1>5. job[p] \in Entry
    BY DEF IInv, TypeOK
<1> QED BY <1>1, <1>2, <1>3, <1>4, <1>5 DEF Registered

\* Each step keeps runs.json true of the packages: the renames come in this order,
\* and the first is undone only by the writer whose entry is not there yet.
LEMMA RegisteredStep == ASSUME IInv, [Next]_vars PROVE RegisteredRunsAreSealed'
<1>1. CASE UNCHANGED <<dest, registry>>
    BY <1>1 DEF IInv, RegisteredRunsAreSealed
<1>2. ASSUME NEW p \in Process, MoveStage(p) \/ RollBack(p) PROVE RegisteredRunsAreSealed'
    BY <1>2, MoveKeepsRegistered DEF IInv, RegisteredRunsAreSealed
<1>3. ASSUME NEW p \in Process, ReplaceRegistry(p) PROVE RegisteredRunsAreSealed'
  <2>1. registry'.state = "whole"
      BY <1>3, ReplaceAddsOwnEntry
  <2>2. ASSUME NEW e \in registry'.entries
        PROVE  dest'[e.run_id] = [state |-> "sealed", digest |-> e.digest]
    <3>1. CASE e \in registry.entries
        BY <1>3, <3>1, ReplaceAddsOwnEntry DEF IInv, RegisteredRunsAreSealed
    <3>2. CASE e = job[p]
        BY <1>3, <3>2, ReplaceAddsOwnEntry DEF SealedDirectory
    <3> QED BY <1>3, <2>2, <3>1, <3>2, ReplaceAddsOwnEntry
  <2> QED BY <2>1, <2>2 DEF RegisteredRunsAreSealed
<1> QED BY <1>1, <1>2, <1>3, VisibleSteps

\* The invariant: it holds at the start and every step keeps it.
THEOREM Invariance == Spec => []IInv
<1>1. Init => IInv
    BY InitIInv
<1>2. IInv /\ [Next]_vars => IInv'
    BY TypeStep, KnowledgeStep, RegisteredStep DEF IInv
<1> QED BY <1>1, <1>2, PTL DEF Spec

\* Every variable of a publication keeps its type, with any number of writers
\* and any faults.
THEOREM TypeCorrect == Spec => []TypeOK
<1>1. IInv => TypeOK
    BY DEF IInv
<1> QED BY <1>1, Invariance, PTL

\* runs.json never names a package that is missing, unsealed or different from
\* the one that was registered, whatever step of whichever writer fails or dies.
THEOREM RegisteredSafety == Spec => []RegisteredRunsAreSealed
<1>1. IInv => RegisteredRunsAreSealed
    BY DEF IInv
<1> QED BY <1>1, Invariance, PTL

\* An invocation that reports success has its run in runs.json.
THEOREM SuccessIsPublication == Spec => []DoneMeansPublished
<1>1. IInv => DoneMeansPublished
    BY DEF IInv, WriterKnowledge, DoneMeansPublished, ErrorIsInFlight, PublicationIsKnown
<1> QED BY <1>1, Invariance, PTL

\* A step of a writer keeps the entries there are, and the packages they name.
LEMMA PublishedStep == ASSUME IInv, [Next]_vars PROVE KeepsPublished
<1>1. ASSUME NEW e \in registry.entries
      PROVE  e \in registry'.entries /\ dest'[e.run_id] = dest[e.run_id]
  <2>1. CASE UNCHANGED <<dest, registry>>
      BY <2>1
  <2>2. ASSUME NEW p \in Process, MoveStage(p) \/ RollBack(p)
        PROVE  e \in registry'.entries /\ dest'[e.run_id] = dest[e.run_id]
      BY <1>1, <2>2, MoveKeepsRegistered
  <2>3. ASSUME NEW p \in Process, ReplaceRegistry(p)
        PROVE  e \in registry'.entries /\ dest'[e.run_id] = dest[e.run_id]
      BY <1>1, <2>3, ReplaceAddsOwnEntry
  <2> QED BY <1>1, <2>1, <2>2, <2>3, VisibleSteps
<1> QED BY <1>1 DEF KeepsPublished

\* No step of any writer drops an entry or alters the package of a registered run.
THEOREM Immutability == Spec => PublishedRunsNeverChange
<1>1. IInv /\ [Next]_vars => [KeepsPublished]_vars
    BY PublishedStep
<1> QED BY <1>1, Invariance, PTL DEF Spec, PublishedRunsNeverChange

-----------------------------------------------------------------------------
(* Residue, whatever fails *)

\* A destination that is taken, and the temporary registry, have a writer that is
\* still going to register or to remove them, or that could not.
Between(p) == pc[p] \in {"registering", "rollback"}
HasTmp(p) == pc[p] \in {"writing", "moving", "registering", "rollback", "unlinking"}

OrphanHasCause ==
    \A r \in RunId :
        Exists(dest[r]) =>
            \/ Registered(r)
            \/ \E p \in Process : job[p].run_id = r /\ (Between(p) \/ Unclean(p))

TmpHasCause == Exists(tmp) => \E p \in Process : HasTmp(p) \/ Unclean(p)

\* The strengthening of RefusedUnderLockForCause: who is admitted to the lock finds
\* nothing of a writer whose clauses have done their work.
ResidueInv == OrphanHasCause /\ TmpHasCause /\ RefusedUnderLockForCause

\* The invocations never exchange what they package, and an entry of runs.json stays.
LEMMA RegisteredStays ==
    ASSUME IInv, [Next]_vars, NEW r
    PROVE  job' = job /\ (Registered(r) => Registered(r)')
<1>1. job' = job
    BY DEF Next, Program, Fault, vars, files, Begin, RefuseEarly, Seal, TakeLock, Admit, Refuse,
           CreateTmp, WriteTmp, MoveStage, ReplaceRegistry, Sync, RollBack, UnlinkTmp, Unlock,
           Verify, RemoveStage, StepFails, RecoveryFails, Interrupt, Kill
<1>2. Registered(r) => Registered(r)'
    BY PublishedStep DEF Registered, KeepsPublished
<1> QED BY <1>1, <1>2

\* An invocation whose clauses did not do their work is known by that for good.
LEMMA UncleanStays ==
    ASSUME IInv, [Next]_vars, NEW q \in Process, Unclean(q)
    PROVE  Unclean(q)'
<1> USE DEF Unclean
<1>1. CASE UNCHANGED vars
    BY <1>1 DEF vars
<1>2. ASSUME NEW p \in Process, Program(p) \/ Fault(p) PROVE Unclean(q)'
  <2> USE DEF IInv, TypeOK, Goto, Raise, files
  <2>1. CASE RefuseEarly(p) \/ Refuse(p)
    <3>1. p # q
        BY <2>1 DEF RefuseEarly, Refuse, WriterKnowledge, ErrorIsInFlight, Forward
    <3> QED BY <2>1, <3>1 DEF RefuseEarly, Refuse
  <2>2. CASE StepFails(p)
    <3>1. p # q
        BY <2>2 DEF StepFails, WriterKnowledge, ErrorIsInFlight, Forward
    <3> QED BY <2>2, <3>1 DEF StepFails
  <2>3. CASE RecoveryFails(p) \/ Interrupt(p) \/ Kill(p)
      BY <2>3 DEF RecoveryFails, Interrupt, Kill, Recovery, Active, Ended
  <2>4. CASE Program(p) /\ error' = error
      BY <2>4 DEF Program, Begin, RefuseEarly, Seal, TakeLock, Admit, Refuse, CreateTmp, WriteTmp,
             MoveStage, ReplaceRegistry, Sync, RollBack, UnlinkTmp, Unlock, Verify, RemoveStage
  <2>5. Program(p) => error' = error \/ RefuseEarly(p) \/ Refuse(p)
      BY DEF Program, Begin, Seal, TakeLock, Admit, CreateTmp, WriteTmp,
             MoveStage, ReplaceRegistry, Sync, RollBack, UnlinkTmp, Unlock, Verify, RemoveStage
  <2> QED BY <1>2, <2>1, <2>2, <2>3, <2>4, <2>5 DEF Fault
<1> QED BY <1>1, <1>2 DEF Next

\* Failing clauses, Ctrl-C and death make it so.
LEMMA BecomesUnclean ==
    ASSUME IInv, NEW p \in Process, RecoveryFails(p) \/ Interrupt(p) \/ Kill(p)
    PROVE  Unclean(p)' /\ UNCHANGED <<job, files>>
<1> QED BY DEF RecoveryFails, Interrupt, Kill, Unclean, Goto, Raise, IInv, TypeOK

\* A failing step of the forward path leads to the clause that undoes it.
LEMMA FailureIsUndone ==
    ASSUME IInv, NEW p \in Process, StepFails(p)
    PROVE  /\ UNCHANGED <<job, files>>
           /\ \A q \in Process : Between(q) => Between(q)'
           /\ \A q \in Process : HasTmp(q) => HasTmp(q)'
<1>1. /\ UNCHANGED <<job, files>> /\ pc[p] \in Forward
      /\ pc' = [pc EXCEPT ![p] = Unwind(pc[p], "io")]
    BY DEF StepFails, Goto
<1>2. pc[p] = "registering" => pc'[p] = "rollback"
    BY <1>1 DEF Unwind, IInv, TypeOK
<1>3. pc[p] \in {"writing", "moving"} => pc'[p] = "unlinking"
    BY <1>1 DEF Unwind, IInv, TypeOK
<1>4. \A q \in Process \ {p} : pc'[q] = pc[q]
    BY <1>1 DEF IInv, TypeOK
<1>5. pc[p] \notin {"rollback", "unlinking"}
    BY <1>1 DEF Forward
<1> QED BY <1>1, <1>2, <1>3, <1>4, <1>5 DEF Between, HasTmp

\* The temporary file exists only while the writer that created it holds the lock
\* and has its unlink ahead, or after that unlink was left out.
LEMMA TmpCauseStep ==
    ASSUME IInv, TmpHasCause, [Next]_vars
    PROVE  TmpHasCause'
<1>1. CASE UNCHANGED vars
    BY <1>1 DEF vars, TmpHasCause, HasTmp, Unclean, Exists
<1>2. ASSUME NEW p \in Process, Program(p) \/ Fault(p) PROVE TmpHasCause'
  <2>1. SUFFICES ASSUME Exists(tmp') PROVE \E q \in Process : HasTmp(q)' \/ Unclean(q)'
      BY DEF TmpHasCause, Exists
  <2>2. \A q \in Process : Unclean(q) => Unclean(q)'
      BY <1>2, UncleanStays DEF Next
  <2>3. Exists(tmp) => \E q \in Process : HasTmp(q) \/ Unclean(q)
      BY DEF TmpHasCause
  <2> USE DEF IInv, TypeOK, Goto, Raise, files, NoFile
  <2>4. CASE tmp' = tmp /\ \A q \in Process : HasTmp(q) => HasTmp(q)'
      BY <2>1, <2>2, <2>3, <2>4
  <2>5. CASE CreateTmp(p) \/ WriteTmp(p) \/ MoveStage(p) \/ RollBack(p)
      BY <2>5 DEF CreateTmp, WriteTmp, MoveStage, RollBack, HasTmp
  <2>6. CASE ReplaceRegistry(p) \/ UnlinkTmp(p)
      BY <2>1, <2>6 DEF ReplaceRegistry, UnlinkTmp, Exists
  <2>7. CASE Begin(p) \/ RefuseEarly(p) \/ Seal(p) \/ TakeLock(p) \/ Admit(p) \/ Refuse(p)
      BY <2>4, <2>7 DEF Begin, RefuseEarly, Seal, TakeLock, Admit, Refuse, HasTmp
  <2>8. CASE Sync(p) \/ Unlock(p) \/ Verify(p) \/ RemoveStage(p)
      BY <2>4, <2>8 DEF Sync, Unlock, Verify, RemoveStage, HasTmp
  <2>9. CASE StepFails(p)
      BY <2>4, <2>9, FailureIsUndone
  <2>10. CASE RecoveryFails(p) \/ Interrupt(p) \/ Kill(p)
      BY <2>10, BecomesUnclean
  <2> QED
      BY <1>2, <2>5, <2>6, <2>7, <2>8, <2>9, <2>10 DEF Program, Fault
<1> QED BY <1>1, <1>2 DEF Next

\* A destination appears with the first rename, and its writer either adds the
\* entry or takes the directory back, unless something keeps it from both.
LEMMA OrphanStep ==
    ASSUME IInv, OrphanHasCause, [Next]_vars
    PROVE  OrphanHasCause'
<1>1. ASSUME NEW r \in RunId, Exists(dest'[r])
      PROVE  \/ Registered(r)'
             \/ \E p \in Process : job'[p].run_id = r /\ (Between(p)' \/ Unclean(p)')
  <2> DEFINE Answers(p) == job[p].run_id = r /\ (Between(p) \/ Unclean(p))
  <2>1. job' = job /\ (Registered(r) => Registered(r)')
      BY RegisteredStays
  <2>2. Exists(dest[r]) => Registered(r) \/ \E p \in Process : Answers(p)
      BY DEF OrphanHasCause
  <2>3. \A q \in Process : Unclean(q) => Unclean(q)'
      BY UncleanStays
  <2>4. CASE UNCHANGED vars
      BY <1>1, <2>1, <2>2, <2>4 DEF vars, Between, Unclean
  <2>5. ASSUME NEW p \in Process, MoveStage(p)
        PROVE  Registered(r)' \/ \E q \in Process : Answers(q)'
    <3>1. pc[p] = "moving" /\ pc' = [pc EXCEPT ![p] = "registering"]
        BY <2>5 DEF MoveStage, Goto
    <3>2. CASE r = job[p].run_id
        BY <2>1, <3>1, <3>2 DEF Between, IInv, TypeOK
    <3>3. CASE r # job[p].run_id
      <4>1. dest'[r] = dest[r]
          BY <2>5, <3>3 DEF MoveStage, IInv, TypeOK
      <4>2. \A q \in Process : Between(q) => Between(q)'
          BY <3>1 DEF Between, IInv, TypeOK
      <4> QED BY <1>1, <2>1, <2>2, <2>3, <4>1, <4>2
    <3> QED BY <3>2, <3>3
  <2>6. ASSUME NEW p \in Process, ReplaceRegistry(p)
        PROVE  Registered(r)' \/ \E q \in Process : Answers(q)'
    <3>1. /\ registry'.entries = registry.entries \cup {job[p]}
          /\ dest' = dest
        BY <2>6, ReplaceAddsOwnEntry
    <3>2. CASE r = job[p].run_id
        BY <3>1, <3>2 DEF Registered
    <3>3. CASE r # job[p].run_id
      <4>1. pc' = [pc EXCEPT ![p] = "syncing"]
          BY <2>6 DEF ReplaceRegistry, Goto
      <4>2. \A q \in Process \ {p} : Between(q) => Between(q)'
          BY <4>1 DEF Between, IInv, TypeOK
      <4> QED BY <1>1, <2>1, <2>2, <2>3, <3>1, <3>3, <4>2
    <3> QED BY <3>2, <3>3
  <2>7. ASSUME NEW p \in Process, RollBack(p)
        PROVE  Registered(r)' \/ \E q \in Process : Answers(q)'
    <3>1. /\ dest' = [dest EXCEPT ![job[p].run_id] = NoDirectory]
          /\ pc' = [pc EXCEPT ![p] = "unlinking"]
        BY <2>7 DEF RollBack, Goto
    <3>2. r # job[p].run_id
        BY <1>1, <3>1 DEF IInv, TypeOK, Exists, NoDirectory
    <3>3. dest'[r] = dest[r]
        BY <3>1, <3>2 DEF IInv, TypeOK
    <3>4. \A q \in Process \ {p} : Between(q) => Between(q)'
        BY <3>1 DEF Between, IInv, TypeOK
    <3> QED BY <1>1, <2>1, <2>2, <2>3, <3>2, <3>3, <3>4
  <2>8. ASSUME NEW p \in Process, RecoveryFails(p) \/ Interrupt(p) \/ Kill(p)
        PROVE  Registered(r)' \/ \E q \in Process : Answers(q)'
    <3>1. Unclean(p)' /\ dest' = dest
        BY <2>8, BecomesUnclean DEF files
    <3>2. \A q \in Process \ {p} : Between(q) => Between(q)'
        BY <2>8 DEF RecoveryFails, Interrupt, Kill, Goto, Between, IInv, TypeOK
    <3> QED BY <1>1, <2>1, <2>2, <2>3, <3>1, <3>2
  <2>9. ASSUME NEW p \in Process, Program(p) \/ StepFails(p),
               ~MoveStage(p), ~ReplaceRegistry(p), ~RollBack(p)
        PROVE  Registered(r)' \/ \E q \in Process : Answers(q)'
    <3>1. CASE StepFails(p)
        BY <1>1, <2>1, <2>2, <2>3, <3>1, FailureIsUndone DEF files
    <3>2. CASE Program(p)
      <4>1. dest' = dest /\ \A q \in Process : Between(q) => Between(q)'
          BY <2>9, <3>2
             DEF Program, Begin, RefuseEarly, Seal, TakeLock, Admit, Refuse, CreateTmp, WriteTmp,
                 Sync, UnlinkTmp, Unlock, Verify, RemoveStage, Between, Goto, files, IInv, TypeOK
      <4> QED BY <1>1, <2>1, <2>2, <2>3, <4>1
    <3> QED BY <2>9, <3>1, <3>2
  <2> QED BY <2>4, <2>5, <2>6, <2>7, <2>8, <2>9 DEF Next, Program, Fault
<1> QED BY <1>1 DEF OrphanHasCause

\* What a writer with the lock finds there and was not published is nobody's work.
LEMMA RefusedForACause ==
    ASSUME IInv, ResidueInv, NEW p \in Process, Refuse(p)
    PROVE  /\ Refusal(p) = "exists_locked" =>
                  \/ Registered(job[p].run_id)
                  \/ \E q \in Process : job[q].run_id = job[p].run_id /\ Unclean(q)
           /\ Refusal(p) = "stale_tmp" => \E q \in Process : Unclean(q)
           /\ Refusal(p) # "registered"
<1>1. pc[p] = "admitting" /\ lock = p
    BY DEF Refuse, IInv, WriterKnowledge, Locked
<1>2. ASSUME NEW q \in Process, pc[q] \in Locked \ {"admitting"} PROVE FALSE
  <2>1. lock = q
      BY <1>2 DEF IInv, WriterKnowledge
  <2> QED BY <1>1, <1>2, <2>1
<1>3. \A q \in Process : ~HasTmp(q) /\ ~Between(q)
    BY <1>2 DEF HasTmp, Between, Locked
<1>4. job[p].run_id \in RunId
    BY DEF IInv, TypeOK, Entry
<1>5. Exists(tmp) => \E q \in Process : Unclean(q)
    BY <1>3 DEF ResidueInv, TmpHasCause
<1>6. Exists(dest[job[p].run_id]) =>
          \/ Registered(job[p].run_id)
          \/ \E q \in Process : job[q].run_id = job[p].run_id /\ Unclean(q)
    BY <1>3, <1>4 DEF ResidueInv, OrphanHasCause
<1>7. ASSUME Registered(job[p].run_id) PROVE Exists(dest[job[p].run_id])
  <2>1. PICK e \in registry.entries : e.run_id = job[p].run_id
      BY <1>7 DEF Registered
  <2>2. dest[job[p].run_id] = [state |-> "sealed", digest |-> e.digest]
      BY <2>1 DEF IInv, RegisteredRunsAreSealed
  <2> QED BY <2>2 DEF Exists
<1> QED BY <1>5, <1>6, <1>7 DEF Refusal

\* Only a refusal under the lock raises these three errors.
LEMMA RefusedStep ==
    ASSUME IInv, ResidueInv, [Next]_vars
    PROVE  RefusedUnderLockForCause'
<1> DEFINE Cause(q) ==
      \/ Registered(job[q].run_id)
      \/ \E u \in Process : job[u].run_id = job[q].run_id /\ Unclean(u)
<1>1. ASSUME NEW q \in Process
      PROVE  /\ error'[q] = "exists_locked" => Cause(q)'
             /\ error'[q] = "stale_tmp" => \E u \in Process : Unclean(u)'
             /\ error'[q] # "registered"
  <2>1. job' = job /\ (Registered(job[q].run_id) => Registered(job[q].run_id)')
      BY RegisteredStays
  <2>2. \A u \in Process : Unclean(u) => Unclean(u)'
      BY UncleanStays
  <2>3. Cause(q) => Cause(q)'
      BY <2>1, <2>2 DEF Registered
  <2>4. /\ error[q] = "exists_locked" => Cause(q)
        /\ error[q] = "stale_tmp" => \E u \in Process : Unclean(u)
        /\ error[q] # "registered"
      BY DEF ResidueInv, RefusedUnderLockForCause
  <2>5. CASE error'[q] \in {error[q], "exists", "fault", "recovery", "interrupt"}
      BY <2>2, <2>3, <2>4, <2>5
  <2>6. CASE Refuse(q) /\ error'[q] = Refusal(q)
      BY <2>2, <2>3, <2>6, RefusedForACause
  <2>7. \/ error'[q] \in {error[q], "exists", "fault", "recovery", "interrupt"}
        \/ Refuse(q) /\ error'[q] = Refusal(q)
      BY DEF Next, Program, Fault, vars, files, Begin, RefuseEarly, Seal, TakeLock, Admit, Refuse,
             CreateTmp, WriteTmp, MoveStage, ReplaceRegistry, Sync, RollBack, UnlinkTmp, Unlock,
             Verify, RemoveStage, StepFails, RecoveryFails, Interrupt, Kill, Raise, IInv, TypeOK
  <2> QED BY <2>5, <2>6, <2>7
<1> QED BY <1>1 DEF RefusedUnderLockForCause

\* At every moment what is staged in the registry, half registered or half undone has
\* a writer that is still at it, or one that could not end its work.
THEOREM ResidueInvariance == Spec => []ResidueInv
<1>1. Init => ResidueInv
    BY DEF Init, ResidueInv, OrphanHasCause, TmpHasCause, RefusedUnderLockForCause, Exists,
           NoDirectory, NoFile
<1>2. IInv /\ ResidueInv /\ [Next]_vars => ResidueInv'
    BY TmpCauseStep, OrphanStep, RefusedStep DEF ResidueInv
<1> QED BY <1>1, <1>2, Invariance, PTL DEF Spec

\* Whatever fails, dies or is interrupted, who is refused under the lock is refused for
\* a registered run or for the residue of an invocation whose clauses did not do their
\* work (_publish_registered_stage).
THEOREM RefusedUnderLockForCauseAlways == Spec => []RefusedUnderLockForCause
<1>1. ResidueInv => RefusedUnderLockForCause
    BY DEF ResidueInv
<1> QED BY <1>1, ResidueInvariance, PTL

-----------------------------------------------------------------------------
(* Recovery, when it is the forward path alone that fails *)

\* The clauses of pack.py undo whatever failed, unless they fail themselves, are
\* left by a KeyboardInterrupt, or die with their process.
OnlyForwardFails == Faults \subseteq {"io"}

\* The steps at which a process owns no stage: it made none yet, moved it, or
\* removed it.
OwnsNoStage(p) ==
    \/ pc[p] \in {"start", "registering", "rollback", "syncing", "verifying"} \cup Ended
    \/ pc[p] \in {"unlinking", "unlocking"} /\ error[p] = "none"

StageHasOwner == \A p \in Process : OwnsNoStage(p) => ~Exists(stage[p])

\* The rest of the strengthening of NothingLeftBehind: whatever is staged belongs to a
\* writer that is still going to remove it.
CleanInv == StageHasOwner /\ \A p \in Process : ~Unclean(p)

\* A process owns a stage from mkdtemp to the rename, again from the rename's
\* undoing on, and until rmtree.
LEMMA StageOwnerStep ==
    ASSUME OnlyForwardFails, IInv, StageHasOwner, [Next]_vars
    PROVE  StageHasOwner'
<1> USE DEF StageHasOwner, OwnsNoStage, Exists
<1>1. CASE UNCHANGED vars
    BY <1>1 DEF vars
<1>2. ASSUME NEW p \in Process, Program(p) \/ Fault(p), NEW q \in Process, OwnsNoStage(q)'
      PROVE  ~Exists(stage'[q])
  <2> USE DEF IInv, TypeOK, Goto, Raise, files, NoDirectory, Forward, Recovery, Ended
  <2>1. ErrorIsInFlight(p)
      BY DEF WriterKnowledge
  <2>2. CASE Begin(p) \/ RefuseEarly(p) \/ Seal(p) \/ TakeLock(p)
      BY <1>2, <2>2 DEF Begin, RefuseEarly, Seal, TakeLock
  <2>3. CASE Admit(p) \/ Refuse(p)
      BY <1>2, <2>3 DEF Admit, Refuse
  <2>4. CASE CreateTmp(p) \/ WriteTmp(p) \/ ReplaceRegistry(p)
      BY <1>2, <2>4 DEF CreateTmp, WriteTmp, ReplaceRegistry
  <2>5. CASE MoveStage(p) \/ RemoveStage(p)
      BY <1>2, <2>5 DEF MoveStage, RemoveStage
  <2>6. CASE RollBack(p)
      BY <1>2, <2>1, <2>6 DEF RollBack, ErrorIsInFlight
  <2>7. CASE Sync(p) \/ UnlinkTmp(p) \/ Unlock(p) \/ Verify(p)
      BY <1>2, <2>7 DEF Sync, UnlinkTmp, Unlock, Verify
  <2>8. CASE StepFails(p)
      BY <1>2, <2>8 DEF StepFails, Unwind
  <2>9. CASE RecoveryFails(p) \/ Interrupt(p) \/ Kill(p)
      BY <2>9 DEF RecoveryFails, Interrupt, Kill, OnlyForwardFails
  <2> QED
      BY <1>2, <2>2, <2>3, <2>4, <2>5, <2>6, <2>7, <2>8, <2>9 DEF Program, Fault
<1> QED BY <1>1, <1>2 DEF Next

\* When only the forward path fails, every clause does its work.
LEMMA CleanStep ==
    ASSUME OnlyForwardFails, IInv, CleanInv, [Next]_vars, NEW q \in Process
    PROVE  ~Unclean(q)'
<1>1. ~Unclean(q)
    BY DEF CleanInv
<1>2. CASE UNCHANGED vars
    BY <1>1, <1>2 DEF vars, Unclean
<1>3. ASSUME NEW p \in Process, Program(p) PROVE ~Unclean(q)'
    BY <1>1, <1>3
       DEF Program, Begin, RefuseEarly, Seal, TakeLock, Admit, Refuse, Refusal, CreateTmp, WriteTmp,
           MoveStage, ReplaceRegistry, Sync, RollBack, UnlinkTmp, Unlock, Verify, RemoveStage,
           Unclean, Goto, Raise, files, IInv, TypeOK
<1>4. ASSUME NEW p \in Process, Fault(p) PROVE ~Unclean(q)'
    BY <1>1, <1>4
       DEF Fault, StepFails, Unwind, RecoveryFails, Interrupt, Kill, OnlyForwardFails, Unclean,
           Goto, Raise, Forward, IInv, TypeOK
<1> QED BY <1>2, <1>3, <1>4 DEF Next

\* Recovery is complete: a stage has an owner, and nobody has left a clause out.
THEOREM CleanInvariance == ASSUME OnlyForwardFails PROVE Spec => []CleanInv
<1>1. Init => CleanInv
    BY DEF Init, CleanInv, StageHasOwner, Unclean, Exists, NoDirectory
<1>2. IInv /\ CleanInv /\ [Next]_vars => CleanInv'
    BY StageOwnerStep, CleanStep DEF CleanInv
<1> QED BY <1>1, <1>2, Invariance, PTL DEF Spec

\* When only the forward path fails, every directory under runs/ has its entry in
\* runs.json, or a writer that is about to add it or to take the directory back.
THEOREM NoOrphanRunAlways == ASSUME OnlyForwardFails PROVE Spec => []NoOrphanRun
<1>1. CleanInv /\ ResidueInv => NoOrphanRun
    BY DEF CleanInv, ResidueInv, OrphanHasCause, Between, NoOrphanRun
<1> QED BY <1>1, CleanInvariance, ResidueInvariance, PTL

\* When only the forward path fails, an ended invocation leaves no stage behind,
\* and no temporary registry is there when nobody holds the lock.
THEOREM NothingLeftBehindAlways == ASSUME OnlyForwardFails PROVE Spec => []NothingLeftBehind
<1>1. IInv /\ CleanInv /\ ResidueInv => NothingLeftBehind
  <2> SUFFICES ASSUME IInv, CleanInv, ResidueInv PROVE NothingLeftBehind
      OBVIOUS
  <2>1. \A p \in Process : ~Active(p) => ~Exists(stage[p])
      BY DEF CleanInv, StageHasOwner, OwnsNoStage, Active
  <2>2. ASSUME Exists(tmp) PROVE lock # Nobody
    <3>1. PICK p \in Process : HasTmp(p)
        BY <2>2 DEF CleanInv, ResidueInv, TmpHasCause
    <3>2. lock = p
        BY <3>1 DEF HasTmp, IInv, WriterKnowledge, Locked
    <3> QED BY <3>2, NobodyAssumption
  <2> QED BY <2>1, <2>2 DEF NothingLeftBehind
<1> QED BY <1>1, CleanInvariance, ResidueInvariance, Invariance, PTL

-----------------------------------------------------------------------------
(* Refinement of RunLedger *)

\* A reader that reaches packages only through entries sees exactly the entries.
VisibleIsLedger == Visible = registry.entries

\* Under the invariant the package behind an entry has the entry's digest.
LEMMA VisibleMatches == IInv => VisibleIsLedger
<1> SUFFICES ASSUME IInv PROVE VisibleIsLedger
    OBVIOUS
<1>1. ASSUME NEW e \in registry.entries PROVE dest[e.run_id].digest = e.digest
  <2>1. dest[e.run_id] = [state |-> "sealed", digest |-> e.digest]
      BY DEF IInv, RegisteredRunsAreSealed
  <2> QED BY ONLY <2>1
<1>2. \A e \in registry.entries : e = [run_id |-> e.run_id, digest |-> e.digest]
    BY DEF IInv, TypeOK, File, Entry
<1> QED BY <1>1, <1>2 DEF Visible, VisibleIsLedger

\* Publication as pack.py carries it out implements the atomic publication that
\* RunLedger specifies: the rename of runs.json is the publication, every other
\* step, failure or death is invisible.
THEOREM Refinement == Spec => PublicationIsAtomic
<1>1. Init => Ledger!Init
    BY DEF Init, NoFile, Visible, Ledger!Init
<1>2. ASSUME IInv, VisibleIsLedger, VisibleIsLedger', [Next]_vars
      PROVE  [Ledger!Next]_(Ledger!vars)
  <2>1. Visible = registry.entries /\ Visible' = registry'.entries
      BY <1>2 DEF VisibleIsLedger
  <2>2. CASE UNCHANGED <<dest, registry>>
      BY <2>1, <2>2 DEF Ledger!vars
  <2>3. ASSUME NEW p \in Process, MoveStage(p) \/ RollBack(p)
        PROVE  UNCHANGED Ledger!vars
      BY <1>2, <2>1, <2>3, MoveKeepsRegistered DEF Ledger!vars
  <2>4. ASSUME NEW p \in Process, ReplaceRegistry(p)
        PROVE  Ledger!Next
    <3>1. Ledger!Publish(job[p])
        BY <1>2, <2>1, <2>4, ReplaceAddsOwnEntry DEF Ledger!Publish
    <3>2. job[p] \in Ledger!Entry
        BY <1>2, <2>4, ReplaceAddsOwnEntry DEF Ledger!Entry, Entry
    <3> QED BY <3>1, <3>2 DEF Ledger!Next
  <2> QED BY <1>2, <2>2, <2>3, <2>4, VisibleSteps
<1> QED BY <1>1, <1>2, Invariance, VisibleMatches, PTL
        DEF Spec, PublicationIsAtomic, Ledger!Spec

-----------------------------------------------------------------------------
(* What the liveness properties rest on *)

\* What a writer's system calls need in order not to be refused: the flock, no
\* temporary file at open("xb"), and in the end its own sealed package.
Unhindered(p) ==
    /\ pc[p] = "waiting" => lock = Nobody
    /\ pc[p] = "creating" => ~Exists(tmp)
    /\ pc[p] = "verifying" => dest[job[p].run_id] = SealedDirectory(p)

\* Every living invocation can go on, or waits for a living one that can.
NobodyIsStuck ==
    \A p \in Process : Active(p) =>
        \/ Unhindered(p)
        \/ /\ pc[p] = "waiting"
           /\ \E q \in Process : lock = q /\ pc[q] \in Locked /\ Unhindered(q)

\* The strengthening: the lock has no absent holder, and the temporary file that
\* the writer looked for under the lock has not been created since.
HolderInv ==
    /\ \A p \in Process : lock = p => pc[p] \in Locked
    /\ \A p \in Process : pc[p] = "creating" => ~Exists(tmp)

\* Steps of p concern the holder of the lock only if p is that holder.
LEMMA HolderStep == ASSUME IInv, HolderInv, [Next]_vars PROVE HolderInv'
<1> USE DEF HolderInv, Exists, Locked
<1>1. CASE UNCHANGED vars
    BY <1>1 DEF vars
<1>2. ASSUME NEW p \in Process, Program(p) \/ Fault(p) PROVE HolderInv'
  <2> USE NobodyAssumption DEF IInv, TypeOK, Goto, Raise, files, NoFile, WriterKnowledge,
          Forward, Recovery, Ended
  <2>1. CASE Begin(p) \/ RefuseEarly(p) \/ Seal(p) \/ TakeLock(p)
      BY <2>1 DEF Begin, RefuseEarly, Seal, TakeLock
  <2>2. CASE Admit(p)
    <3>1. ~Exists(tmp)
        BY <2>2 DEF Admit, Refusal
    <3> QED BY <2>2, <3>1 DEF Admit
  <2>3. CASE Refuse(p) \/ MoveStage(p) \/ Sync(p) \/ RollBack(p)
      BY <2>3 DEF Refuse, MoveStage, Sync, RollBack
  <2>4. CASE CreateTmp(p) \/ WriteTmp(p)
      BY <2>4 DEF CreateTmp, WriteTmp
  <2>5. CASE ReplaceRegistry(p) \/ UnlinkTmp(p)
      BY <2>5 DEF ReplaceRegistry, UnlinkTmp
  <2>6. CASE Unlock(p) \/ Verify(p) \/ RemoveStage(p)
      BY <2>6 DEF Unlock, Verify, RemoveStage
  <2>7. CASE StepFails(p)
      BY <2>7 DEF StepFails, Unwind
  <2>8. CASE RecoveryFails(p)
      BY <2>8 DEF RecoveryFails, Unwind
  <2>9. CASE Interrupt(p)
      BY <2>9 DEF Interrupt, Unwind, Active
  <2>10. CASE Kill(p)
      BY <2>10 DEF Kill, Active
  <2> QED
      BY <1>2, <2>1, <2>2, <2>3, <2>4, <2>5, <2>6, <2>7, <2>8, <2>9, <2>10
         DEF Program, Fault
<1> QED BY <1>1, <1>2 DEF Next

\* The invariant that the next theorem needs: it holds whatever fails or dies.
THEOREM HolderInvariance == Spec => []HolderInv
<1>1. Init => HolderInv
    BY NobodyAssumption DEF Init, HolderInv
<1> QED BY <1>1, HolderStep, Invariance, PTL DEF Spec

\* No system call that an invocation is at waits or is refused for good: the
\* flock is free or held by a living invocation that goes on, the temporary file
\* the writer looked for has not appeared since, and verification finds the
\* package that was published, whatever fails or dies.
THEOREM NobodyIsStuckAlways == Spec => []NobodyIsStuck
<1>1. ASSUME IInv, HolderInv, NEW p \in Process, pc[p] = "verifying"
      PROVE  dest[job[p].run_id] = SealedDirectory(p)
  <2>1. job[p] \in registry.entries
      BY <1>1 DEF IInv, WriterKnowledge, ErrorIsInFlight, PublicationIsKnown, Forward
  <2> QED BY <2>1, <1>1 DEF IInv, RegisteredRunsAreSealed, SealedDirectory
<1>2. ASSUME IInv, HolderInv, NEW p \in Process, pc[p] # "waiting" PROVE Unhindered(p)
    BY <1>1, <1>2 DEF Unhindered, HolderInv
<1>3. ASSUME IInv, HolderInv, NEW p \in Process, pc[p] = "waiting", lock # Nobody
      PROVE  \E q \in Process : lock = q /\ pc[q] \in Locked /\ Unhindered(q)
  <2>1. PICK q \in Process : lock = q
      BY <1>3 DEF IInv, TypeOK
  <2>2. pc[q] \in Locked /\ pc[q] # "waiting"
      BY <1>3, <2>1 DEF HolderInv, Locked
  <2> QED BY <1>2, <1>3, <2>1, <2>2
<1>4. ASSUME NEW p \in Process, pc[p] = "waiting", lock = Nobody PROVE Unhindered(p)
    BY <1>4 DEF Unhindered
<1>5. IInv /\ HolderInv => NobodyIsStuck
    BY <1>2, <1>3, <1>4 DEF NobodyIsStuck
<1> QED BY <1>5, Invariance, HolderInvariance, PTL

\* How many steps an invocation has ahead of it at most.
StepsAhead(step) ==
    CASE step \in Ended -> 0
      [] step \in {"verifying", "cleanup"} -> 1
      [] step = "unlocking" -> 2
      [] step = "unlinking" -> 3
      [] step \in {"syncing", "rollback"} -> 4
      [] step = "registering" -> 5
      [] step = "moving" -> 6
      [] step = "writing" -> 7
      [] step = "creating" -> 8
      [] step = "admitting" -> 9
      [] step = "waiting" -> 10
      [] step = "staging" -> 11
      [] step = "start" -> 12

\* One invocation moves, and comes nearer to its end.
ComesNearer ==
    \E p \in Process :
        /\ StepsAhead(pc'[p]) < StepsAhead(pc[p])
        /\ \A q \in Process \ {p} : pc'[q] = pc[q]

\* The count for each step of the program.
LEMMA StepsAheadValues ==
    /\ StepsAhead("start") = 12 /\ StepsAhead("staging") = 11 /\ StepsAhead("waiting") = 10
    /\ StepsAhead("admitting") = 9 /\ StepsAhead("creating") = 8 /\ StepsAhead("writing") = 7
    /\ StepsAhead("moving") = 6 /\ StepsAhead("registering") = 5
    /\ StepsAhead("syncing") = 4 /\ StepsAhead("rollback") = 4
    /\ StepsAhead("unlinking") = 3 /\ StepsAhead("unlocking") = 2
    /\ StepsAhead("verifying") = 1 /\ StepsAhead("cleanup") = 1
    /\ StepsAhead("done") = 0 /\ StepsAhead("failed") = 0 /\ StepsAhead("dead") = 0
BY DEF StepsAhead, Ended

\* Wherever an exception goes from the step it is raised in, less is ahead.
LEMMA UnwindDescends ==
    ASSUME NEW step \in Forward \cup Recovery, NEW fault,
           step # "unlocking"
    PROVE  StepsAhead(Unwind(step, fault)) < StepsAhead(step)
<1>1. CASE step \in {"start", "verifying", "cleanup"}
    BY <1>1, StepsAheadValues DEF Unwind
<1>2. CASE step \in {"staging", "waiting"}
    BY <1>2, StepsAheadValues DEF Unwind
<1>3. CASE step \in {"admitting", "unlinking"}
    BY <1>3, StepsAheadValues DEF Unwind
<1>4. CASE step \in {"creating", "writing", "moving", "syncing", "rollback"}
    BY <1>4, StepsAheadValues DEF Unwind
<1>5. CASE step = "registering"
    BY <1>5, StepsAheadValues DEF Unwind
<1> QED BY <1>1, <1>2, <1>3, <1>4, <1>5 DEF Forward, Recovery

\* A step of one invocation to a place with less ahead.
LEMMA GoingNearer ==
    ASSUME TypeOK, NEW p \in Process, NEW step, Goto(p, step), StepsAhead(step) < StepsAhead(pc[p])
    PROVE  ComesNearer
<1>1. pc' = [pc EXCEPT ![p] = step] /\ pc \in [Process -> Forward \cup Recovery \cup Ended]
    BY DEF Goto, TypeOK
<1>2. pc'[p] = step /\ \A q \in Process \ {p} : pc'[q] = pc[q]
    BY <1>1
<1> QED BY <1>2 DEF ComesNearer

\* Every step that can be taken, a failure or an interrupt included, brings its
\* invocation nearer to its end: none of the clauses of pack.py retries, so with
\* N invocations nothing happens after 12 * N steps, and by NobodyIsStuck they
\* have all ended then.
THEOREM StepsAreBounded == Spec => [][ComesNearer]_vars
<1>1. ASSUME IInv, NEW p \in Process, Program(p) \/ Fault(p) PROVE ComesNearer
  <2>0. TypeOK
      BY <1>1 DEF IInv
  <2>1. pc[p] \in Forward \cup Recovery \cup Ended
      BY <2>0 DEF TypeOK
  <2>2. CASE Begin(p)
      BY <2>0, <2>2, GoingNearer, StepsAheadValues DEF Begin
  <2>3. CASE RefuseEarly(p)
      BY <2>0, <2>3, GoingNearer, StepsAheadValues DEF RefuseEarly
  <2>4. CASE Seal(p)
      BY <2>0, <2>4, GoingNearer, StepsAheadValues DEF Seal
  <2>5. CASE TakeLock(p)
      BY <2>0, <2>5, GoingNearer, StepsAheadValues DEF TakeLock
  <2>6. CASE Admit(p)
      BY <2>0, <2>6, GoingNearer, StepsAheadValues DEF Admit
  <2>7. CASE Refuse(p)
      BY <2>0, <2>7, GoingNearer, StepsAheadValues DEF Refuse
  <2>8. CASE CreateTmp(p)
      BY <2>0, <2>8, GoingNearer, StepsAheadValues DEF CreateTmp
  <2>9. CASE WriteTmp(p)
      BY <2>0, <2>9, GoingNearer, StepsAheadValues DEF WriteTmp
  <2>10. CASE MoveStage(p)
      BY <2>0, <2>10, GoingNearer, StepsAheadValues DEF MoveStage
  <2>11. CASE ReplaceRegistry(p)
      BY <2>0, <2>11, GoingNearer, StepsAheadValues DEF ReplaceRegistry
  <2>12. CASE Sync(p)
      BY <2>0, <2>12, GoingNearer, StepsAheadValues DEF Sync
  <2>13. CASE RollBack(p)
      BY <2>0, <2>13, GoingNearer, StepsAheadValues DEF RollBack
  <2>14. CASE UnlinkTmp(p)
      BY <2>0, <2>14, GoingNearer, StepsAheadValues DEF UnlinkTmp
  <2>15. CASE Verify(p)
      BY <2>0, <2>15, GoingNearer, StepsAheadValues DEF Verify
  <2>16. CASE RemoveStage(p)
      BY <2>0, <2>16, GoingNearer, StepsAheadValues DEF RemoveStage
  <2>17. CASE Unlock(p)
    <3>1. CASE error[p] = "none"
        BY <2>0, <2>17, <3>1, GoingNearer, StepsAheadValues DEF Unlock
    <3>2. CASE error[p] # "none"
        BY <2>0, <2>17, <3>2, GoingNearer, StepsAheadValues DEF Unlock
    <3> QED BY <3>1, <3>2
  <2>18. CASE StepFails(p)
    <3>1. pc[p] \in Forward \cup Recovery /\ pc[p] # "unlocking" /\ Goto(p, Unwind(pc[p], "io"))
        BY <2>1, <2>18 DEF StepFails, Forward
    <3> QED BY <2>0, <3>1, UnwindDescends, GoingNearer
  <2>19. CASE RecoveryFails(p)
    <3>1. pc[p] \in Forward \cup Recovery /\ pc[p] # "unlocking" /\ Goto(p, Unwind(pc[p], "recovery"))
        BY <2>1, <2>19 DEF RecoveryFails, Recovery
    <3> QED BY <2>0, <3>1, UnwindDescends, GoingNearer
  <2>20. CASE Interrupt(p)
    <3>1. pc[p] \in Forward \cup Recovery /\ pc[p] # "unlocking" /\ Goto(p, Unwind(pc[p], "interrupt"))
        BY <2>1, <2>20 DEF Interrupt, Active
    <3> QED BY <2>0, <3>1, UnwindDescends, GoingNearer
  <2>21. CASE Kill(p)
    <3>1. StepsAhead(pc[p]) > 0 /\ StepsAhead("dead") = 0 /\ Goto(p, "dead")
        BY <2>1, <2>21, StepsAheadValues DEF Kill, Active, Forward, Recovery, Ended
    <3> QED BY <2>0, <3>1, GoingNearer
  <2> QED
      BY <1>1, <2>2, <2>3, <2>4, <2>5, <2>6, <2>7, <2>8, <2>9, <2>10, <2>11, <2>12, <2>13,
         <2>14, <2>15, <2>16, <2>17, <2>18, <2>19, <2>20, <2>21
         DEF Program, Fault
<1>2. IInv /\ [Next]_vars => [ComesNearer]_vars
    BY <1>1 DEF Next
<1> QED BY <1>2, Invariance, PTL DEF Spec

-----------------------------------------------------------------------------
(* What the refusals leave behind *)

\* An invocation that met a fault, died, or found the data root unusable.
Troubled(q) ==
    \/ error[q] \in {"fault", "recovery", "interrupt", "unreadable", "stale_tmp"}
    \/ pc[q] = "dead"

\* A taken destination is a registered run, or the work of an invocation that is
\* between the two renames or in trouble.
Excused(r) ==
    \/ Registered(r)
    \/ \E q \in Process : job[q].run_id = r /\ (pc[q] = "registering" \/ Troubled(q))

ExcuseInv ==
    /\ \A r \in RunId : Exists(dest[r]) => Excused(r)
    /\ \A p \in Process :
           error[p] \in {"exists", "exists_locked", "registered"} => Excused(job[p].run_id)
    /\ \A p \in Process : pc[p] = "failed" => error[p] # "none"

\* Once all invocations have ended, every run somebody wanted is registered,
\* except where an invocation for that run was in trouble: the safety half of
\* WantedRunsArePublished, for every set of faults.
SettledRunsArePublished ==
    (\A q \in Process : ~Active(q)) =>
        \A p \in Process :
            \/ Registered(job[p].run_id)
            \/ \E q \in Process : job[q].run_id = job[p].run_id /\ Troubled(q)

\* A fault that was met stays the reason: a later clause raises no other refusal.
LEMMA TroubleStays ==
    ASSUME IInv, [Next]_vars, NEW q \in Process, Troubled(q)
    PROVE  Troubled(q)'
<1> USE DEF Troubled
<1>1. CASE UNCHANGED vars
    BY <1>1 DEF vars
<1>2. ASSUME NEW p \in Process, Program(p) \/ Fault(p) PROVE Troubled(q)'
  <2> USE DEF IInv, TypeOK, Goto, Raise, files
  <2>1. CASE RefuseEarly(p) \/ Refuse(p)
    <3>1. p # q
        BY <2>1 DEF RefuseEarly, Refuse, WriterKnowledge, ErrorIsInFlight, Forward
    <3> QED BY <2>1, <3>1 DEF RefuseEarly, Refuse
  <2>2. CASE Fault(p)
      BY <2>2 DEF Fault, StepFails, RecoveryFails, Interrupt, Kill, Forward, Recovery, Active,
             Ended
  <2>3. CASE Program(p) /\ error' = error
      BY <2>3 DEF Program, Begin, RefuseEarly, Seal, TakeLock, Admit, Refuse, CreateTmp, WriteTmp,
             MoveStage, ReplaceRegistry, Sync, RollBack, UnlinkTmp, Unlock, Verify, RemoveStage
  <2>4. Program(p) => error' = error \/ RefuseEarly(p) \/ Refuse(p)
      BY DEF Program, Begin, Seal, TakeLock, Admit, CreateTmp, WriteTmp,
             MoveStage, ReplaceRegistry, Sync, RollBack, UnlinkTmp, Unlock, Verify, RemoveStage
  <2> QED BY <1>2, <2>1, <2>2, <2>3, <2>4
<1> QED BY <1>1, <1>2 DEF Next

\* Who is between the two renames registers the run next, or is in trouble.
LEMMA RegisteringEnds ==
    ASSUME IInv, [Next]_vars, NEW q \in Process, pc[q] = "registering"
    PROVE  pc'[q] = "registering" \/ Troubled(q)' \/ Registered(job[q].run_id)'
<1>1. CASE UNCHANGED vars
    BY <1>1 DEF vars
<1>2. ASSUME NEW p \in Process, p # q, Program(p) \/ Fault(p) PROVE pc'[q] = pc[q]
    BY <1>2 DEF Program, Fault, Begin, RefuseEarly, Seal, TakeLock, Admit, Refuse, CreateTmp,
           WriteTmp, MoveStage, ReplaceRegistry, Sync, RollBack, UnlinkTmp, Unlock, Verify,
           RemoveStage, StepFails, RecoveryFails, Interrupt, Kill, Goto, IInv, TypeOK
<1>3. CASE ReplaceRegistry(q)
  <2>1. job[q] \in registry'.entries /\ job' = job
      BY <1>3, ReplaceAddsOwnEntry DEF ReplaceRegistry
  <2> QED BY <2>1 DEF Registered
<1>4. CASE Fault(q)
    BY <1>4 DEF Fault, StepFails, RecoveryFails, Interrupt, Kill, Goto, Raise, IInv, TypeOK,
           Troubled
<1>5. Program(q) => ReplaceRegistry(q)
    BY DEF Program, Begin, RefuseEarly, Seal, TakeLock, Admit, Refuse, CreateTmp,
           WriteTmp, MoveStage, Sync, RollBack, UnlinkTmp, Unlock, Verify, RemoveStage
<1> QED BY <1>1, <1>2, <1>3, <1>4, <1>5 DEF Next

\* An excuse is never withdrawn.
LEMMA ExcuseStays ==
    ASSUME IInv, [Next]_vars, NEW r, Excused(r)
    PROVE  Excused(r)'
<1>1. job' = job /\ (Registered(r) => Registered(r)')
    BY RegisteredStays
<1>2. ASSUME NEW q \in Process, job[q].run_id = r, Troubled(q) PROVE Excused(r)'
  <2>1. Troubled(q)' /\ job'[q].run_id = r
      BY <1>1, <1>2, TroubleStays
  <2> QED BY <2>1 DEF Excused
<1>3. ASSUME NEW q \in Process, job[q].run_id = r, pc[q] = "registering" PROVE Excused(r)'
  <2>1. job'[q].run_id = r
      BY <1>1, <1>3
  <2>2. pc'[q] = "registering" \/ Troubled(q)' \/ Registered(r)'
      BY <1>3, <2>1, RegisteringEnds DEF Registered
  <2> QED BY <2>1, <2>2 DEF Excused
<1> QED BY <1>1, <1>2, <1>3 DEF Excused

\* A destination appears with the first rename, whose writer is registering then.
LEMMA DestinationExcused ==
    ASSUME IInv, ExcuseInv, [Next]_vars, NEW r \in RunId, Exists(dest'[r])
    PROVE  Excused(r)'
<1>1. CASE Exists(dest[r])
    BY <1>1, ExcuseStays DEF ExcuseInv
<1>2. CASE ~Exists(dest[r])
  <2>1. dest' # dest
      BY <1>2
  <2>2. PICK p \in Process : MoveStage(p) \/ ReplaceRegistry(p) \/ RollBack(p)
      BY <2>1, VisibleSteps
  <2>3. MoveStage(p)
      BY <1>2, <2>1, <2>2 DEF ReplaceRegistry, RollBack, IInv, TypeOK, Exists, NoDirectory
  <2>4. job[p].run_id = r
      BY <1>2, <2>3 DEF MoveStage, IInv, TypeOK
  <2>5. job' = job /\ pc'[p] = "registering"
      BY <2>3 DEF MoveStage, Goto, IInv, TypeOK
  <2> QED BY <2>4, <2>5 DEF Excused
<1> QED BY <1>1, <1>2

\* A refusal for a taken run is raised on a look at the directory or the registry.
LEMMA RefusalExcused ==
    ASSUME IInv, ExcuseInv, [Next]_vars, NEW p \in Process, NEW r, r = job[p].run_id,
           error'[p] \in {"exists", "exists_locked", "registered"}
    PROVE  Excused(r)'
<1>1. r \in RunId
    BY DEF IInv, TypeOK, Entry
<1>2. SUFFICES Excused(r)
    BY ExcuseStays
<1>3. CASE error[p] \in {"exists", "exists_locked", "registered"}
    BY <1>3 DEF ExcuseInv
<1>4. CASE error[p] \notin {"exists", "exists_locked", "registered"}
  <2>1. error'[p] # error[p]
      BY <1>4
  <2>2. ASSUME NEW q \in Process, Program(q), ~RefuseEarly(q), ~Refuse(q) PROVE error' = error
      BY <2>2 DEF Program, Begin, Seal, TakeLock, Admit, CreateTmp, WriteTmp, MoveStage,
             ReplaceRegistry, Sync, RollBack, UnlinkTmp, Unlock, Verify, RemoveStage
  <2>3. ASSUME NEW q \in Process, Fault(q)
        PROVE  error'[p] \in {error[p], "fault", "recovery", "interrupt"}
      BY <2>3 DEF Fault, StepFails, RecoveryFails, Interrupt, Kill, Raise, IInv, TypeOK
  <2>4. PICK q \in Process : RefuseEarly(q) \/ Refuse(q)
      BY <2>1, <2>2, <2>3 DEF Next, vars
  <2>5. q = p
      BY <2>1, <2>4 DEF RefuseEarly, Refuse, Raise, IInv, TypeOK
  <2>6. CASE RefuseEarly(p)
      BY <1>1, <2>6 DEF RefuseEarly, ExcuseInv
  <2>7. CASE Refuse(p)
    <3>1. error'[p] = Refusal(p)
        BY <2>7 DEF Refuse, Raise, IInv, TypeOK
    <3>2. Exists(dest[r]) \/ Registered(r)
        BY <3>1 DEF Refusal
    <3> QED BY <1>1, <3>2 DEF ExcuseInv, Excused
  <2> QED BY <2>4, <2>5, <2>6, <2>7
<1> QED BY <1>3, <1>4

\* An invocation that ends with exit status 1 has an exception.
LEMMA FailedHasError ==
    ASSUME IInv, ExcuseInv, [Next]_vars, NEW q \in Process, pc'[q] = "failed"
    PROVE  error'[q] # "none"
<1> USE DEF IInv, TypeOK, Goto, Raise, files, WriterKnowledge, ErrorIsInFlight
<1>1. CASE UNCHANGED vars
    BY <1>1 DEF vars, ExcuseInv
<1>2. ASSUME NEW p \in Process, Program(p) PROVE error'[q] # "none"
  <2>1. CASE Begin(p) \/ RefuseEarly(p) \/ Seal(p) \/ TakeLock(p)
      BY <2>1 DEF Begin, RefuseEarly, Seal, TakeLock, ExcuseInv
  <2>2. CASE Admit(p) \/ Refuse(p)
      BY <2>2 DEF Admit, Refuse, ExcuseInv
  <2>3. CASE CreateTmp(p) \/ WriteTmp(p) \/ MoveStage(p) \/ ReplaceRegistry(p)
      BY <2>3 DEF CreateTmp, WriteTmp, MoveStage, ReplaceRegistry, ExcuseInv
  <2>4. CASE Sync(p) \/ RollBack(p) \/ UnlinkTmp(p) \/ Unlock(p) \/ Verify(p)
      BY <2>4 DEF Sync, RollBack, UnlinkTmp, Unlock, Verify, ExcuseInv
  <2>5. CASE RemoveStage(p)
      BY <2>5 DEF RemoveStage, ExcuseInv
  <2> QED BY <1>2, <2>1, <2>2, <2>3, <2>4, <2>5 DEF Program
<1>3. ASSUME NEW p \in Process, Fault(p) PROVE error'[q] # "none"
    BY <1>3 DEF Fault, StepFails, RecoveryFails, Interrupt, Kill, ExcuseInv
<1> QED BY <1>1, <1>2, <1>3 DEF Next

\* Whoever was refused for a run, somebody answers for that run.
THEOREM ExcuseInvariance == Spec => []ExcuseInv
<1>1. Init => ExcuseInv
    BY DEF Init, ExcuseInv, Exists, NoDirectory
<1>2. ASSUME IInv, ExcuseInv, [Next]_vars PROVE ExcuseInv'
  <2>1. \A r \in RunId : Exists(dest'[r]) => Excused(r)'
      BY <1>2, DestinationExcused
  <2>2. ASSUME NEW p \in Process, error'[p] \in {"exists", "exists_locked", "registered"}
        PROVE  Excused(job[p].run_id)'
    <3>1. PICK r : r = job[p].run_id
        OBVIOUS
    <3>2. Excused(r)'
        BY <1>2, <2>2, <3>1, RefusalExcused
    <3>3. job'[p].run_id = r
        BY <1>2, <3>1, RegisteredStays
    <3> QED BY <3>2, <3>3 DEF Excused, Registered
  <2>3. \A p \in Process : pc'[p] = "failed" => error'[p] # "none"
      BY <1>2, FailedHasError
  <2> QED BY <2>1, <2>2, <2>3 DEF ExcuseInv, Exists
<1> QED BY <1>1, <1>2, Invariance, PTL DEF Spec

\* When every invocation has ended, each wanted run is registered, or one of its
\* invocations met a fault, died, or found the data root unusable: nobody was
\* turned away in favour of a writer that then gave up without a reason.
THEOREM SettledRunsArePublishedAlways == Spec => []SettledRunsArePublished
<1>1. ASSUME IInv, ExcuseInv, \A q \in Process : ~Active(q), NEW p \in Process
      PROVE  \/ Registered(job[p].run_id)
             \/ \E q \in Process : job[q].run_id = job[p].run_id /\ Troubled(q)
  <2>1. \A q \in Process : pc[q] \in Ended /\ pc[q] # "registering"
      BY <1>1 DEF Active, Ended
  <2>2. CASE pc[p] = "done"
      BY <1>1, <2>2 DEF IInv, WriterKnowledge, ErrorIsInFlight, PublicationIsKnown, Registered
  <2>3. CASE pc[p] = "dead"
      BY <2>3 DEF Troubled
  <2>4. CASE pc[p] = "failed"
    <3>1. error[p] \in Error \ {"none"}
        BY <1>1, <2>4 DEF IInv, TypeOK, ExcuseInv
    <3>2. CASE error[p] \in {"fault", "recovery", "interrupt", "unreadable", "stale_tmp"}
        BY <3>2 DEF Troubled
    <3>3. CASE error[p] \in {"exists", "exists_locked", "registered"}
        BY <1>1, <2>1, <3>3 DEF ExcuseInv, Excused
    <3> QED BY <3>1, <3>2, <3>3 DEF Error
  <2> QED BY <2>1, <2>2, <2>3, <2>4 DEF Ended
<1>2. IInv /\ ExcuseInv => SettledRunsArePublished
    BY <1>1 DEF SettledRunsArePublished
<1> QED BY <1>2, Invariance, ExcuseInvariance, PTL
=============================================================================
