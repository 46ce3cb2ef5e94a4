------------------------- MODULE AcquisitionProofs --------------------------
(***************************************************************************)
(* What Acquisition guarantees for any number of invocations, any contents *)
(* a remote may serve, and any number of removed locks.                    *)
(***************************************************************************)
EXTENDS Acquisition, TLAPS

\* What an invocation may rely on at each of its steps: from the examination on
\* its tree is the pinned one, and once it placed its package the target is its.
Knowledge(p) ==
    /\ pc[p] \in {"sealing", "placing"} => temp[p] = Pinned
    /\ pc[p] \in {"cleaning", "releasing", "done"} /\ error[p] = "none" =>
           Placed /\ target.by = p
    /\ pc[p] = "done" => error[p] = "none"
    /\ error[p] = "lock_stays" => pc[p] = "failed"

PackageInv ==
    /\ AcquireTypeOK
    /\ \A p \in Process : Knowledge(p)
    /\ Placed => target.content = Pinned

\* The steps an invocation may take, failures and its death included.
Step(p) == Acquire(p) \/ StepFails(p) \/ Kill(p)

-----------------------------------------------------------------------------
\* What a step of one invocation leaves alone: what the others are at, and a
\* target that is there.
LEMMA StepIsLocal ==
    ASSUME AcquireTypeOK, NEW p \in Process, Step(p)
    PROVE  /\ \A q \in Process \ {p} : pc'[q] = pc[q] /\ error'[q] = error[q] /\ temp'[q] = temp[q]
           /\ Placed => target' = target
           /\ clears' = clears
  BY DEF AcquireTypeOK, Step, Acquire, Begin, TakeLock, Enter, Fetch, Examine, Seal, Place,
         Verify, Clean, Release, StepFails, Kill, Goto, Fail

\* A step keeps every variable in its type, and leads an invocation only to
\* steps of the program.
LEMMA StepType ==
    ASSUME AcquireTypeOK, NEW p \in Process, Knowledge(p), Step(p)
    PROVE  AcquireTypeOK'
<1> USE DEF AcquireTypeOK, Holding, Prepared, Ended, Error, Goto, Fail
<1> USE PinnedAssumption
<1>1. CASE Begin(p)
  BY <1>1 DEF Begin
<1>2. CASE TakeLock(p)
  BY <1>2 DEF TakeLock
<1>3. CASE Enter(p)
  BY <1>3 DEF Enter
<1>4. CASE Fetch(p)
  BY <1>4 DEF Fetch
<1>5. CASE Examine(p)
  BY <1>5 DEF Examine
<1>6. CASE Seal(p)
  BY <1>6 DEF Seal
<1>7. CASE Place(p)
  \* The tree is there: an invocation that examined it has it.
  <2>1. temp[p] \in Content
    BY <1>7 DEF Place, Knowledge
  <2> QED
    BY <1>7, <2>1 DEF Place, Package
<1>8. CASE Verify(p)
  BY <1>8 DEF Verify
<1>9. CASE Clean(p)
  BY <1>9 DEF Clean
<1>10. CASE Release(p)
  BY <1>10 DEF Release
<1>11. CASE StepFails(p)
  BY <1>11 DEF StepFails, Unwind
<1>12. CASE Kill(p)
  BY <1>12 DEF Kill
<1> QED
  BY <1>1, <1>2, <1>3, <1>4, <1>5, <1>6, <1>7, <1>8, <1>9, <1>10, <1>11, <1>12
  DEF Step, Acquire

\* The steps of one invocation keep what every invocation relies on.
LEMMA StepKnowledge ==
    ASSUME PackageInv, NEW p \in Process, Step(p)
    PROVE  /\ \A q \in Process : Knowledge(q)'
           /\ Placed' => target'.content = Pinned
<1> USE DEF PackageInv
<1>1. ASSUME NEW q \in Process \ {p}
      PROVE  Knowledge(q)'
  BY <1>1, StepIsLocal DEF Knowledge, Placed
<1>2. Knowledge(p)'
  <2> USE DEF Knowledge, AcquireTypeOK, Goto, Fail, Ended
  <2>1. CASE Begin(p) \/ TakeLock(p) \/ Enter(p) \/ Fetch(p)
    BY <2>1 DEF Begin, TakeLock, Enter, Fetch
  <2>2. CASE Examine(p) \/ Seal(p)
    BY <2>2 DEF Examine, Seal, MatchesPin
  <2>3. CASE Place(p)
    BY <2>3 DEF Place
  <2>4. CASE Verify(p)
    BY <2>4, PinnedAssumption DEF Verify, VerifiedFor, MatchesPin, Placed, NoPackage
  <2>5. CASE Clean(p) \/ Release(p)
    BY <2>5 DEF Clean, Release, Placed
  <2>6. CASE StepFails(p)
    BY <2>6 DEF StepFails, Unwind, Prepared, Holding, Error
  <2>7. CASE Kill(p)
    BY <2>7 DEF Kill
  <2> QED
    BY <2>1, <2>2, <2>3, <2>4, <2>5, <2>6, <2>7 DEF Step, Acquire
<1>3. Placed' => target'.content = Pinned
  <2>1. CASE Place(p)
    BY <2>1 DEF Place, Placed, Knowledge
  <2>2. CASE ~Place(p)
    <3>1. target' = target
      BY <2>2 DEF Step, Acquire, Begin, TakeLock, Enter, Fetch, Examine, Seal, Verify,
                  Clean, Release, StepFails, Kill
    <3> QED
      BY <3>1 DEF Placed
  <2> QED
    BY <2>1, <2>2
<1> QED
  BY <1>1, <1>2, <1>3

LEMMA PackageInvInit == Init => PackageInv
<1> SUFFICES ASSUME Init PROVE PackageInv
  OBVIOUS
<1>1. lock \in BOOLEAN
  BY Zenon DEF Init
<1>2. clears \in 0..MaxClears
  BY MaxClearsAssumption DEF Init
<1>3. AcquireTypeOK
  BY <1>1, <1>2 DEF Init, AcquireTypeOK, Error
<1> QED
  BY <1>3 DEF Init, PackageInv, Knowledge, Placed

LEMMA PackageInvStep == PackageInv /\ [Next]_acquireVars => PackageInv'
<1> SUFFICES ASSUME PackageInv, [Next]_acquireVars PROVE PackageInv'
  OBVIOUS
<1>1. ASSUME NEW p \in Process, Step(p) PROVE PackageInv'
  BY <1>1, StepType, StepKnowledge DEF PackageInv
<1>2. CASE ClearLock
  <2>1. lock' \in BOOLEAN
    BY <1>2, Zenon DEF ClearLock
  <2>2. clears' \in 0..MaxClears
    BY <1>2, MaxClearsAssumption DEF ClearLock, PackageInv, AcquireTypeOK
  <2> QED
    BY <1>2, <2>1, <2>2 DEF ClearLock, PackageInv, AcquireTypeOK, Knowledge, Placed
<1>3. CASE UNCHANGED acquireVars
  BY <1>3 DEF acquireVars, PackageInv, AcquireTypeOK, Knowledge, Placed
<1> QED
  BY <1>1, <1>2, <1>3 DEF Next, Step

\* Every variable of Acquisition keeps its type.
THEOREM AcquireTypeCorrect == Spec => []AcquireTypeOK
<1>1. PackageInv => AcquireTypeOK
  BY DEF PackageInv
<1> QED
  BY <1>1, PackageInvInit, PackageInvStep, PTL DEF Spec

\* However locks are lost or removed, at most one invocation reports success,
\* and what it placed is the content the registry pins.
THEOREM SuccessIsAlwaysOwn == Spec => []SuccessIsOwn
<1>1. PackageInv => SuccessIsOwn
  BY DEF PackageInv, SuccessIsOwn, Knowledge
<1> QED
  BY <1>1, PackageInvInit, PackageInvStep, PTL DEF Spec

\* A package that is at its target stays there as it is.
THEOREM TargetStays == Spec => TargetIsFinal
<1>1. PackageInv /\ [Next]_acquireVars => [Placed => target' = target]_acquireVars
  <2> SUFFICES ASSUME PackageInv, Next, Placed PROVE target' = target
    BY DEF acquireVars
  <2>1. ASSUME NEW p \in Process, Step(p) PROVE target' = target
    BY <2>1, StepIsLocal DEF PackageInv
  <2> QED
    BY <2>1 DEF Next, Step, ClearLock
<1> QED
  BY <1>1, PackageInvInit, PackageInvStep, PTL DEF Spec, TargetIsFinal

-----------------------------------------------------------------------------
(* The lock *)

LockInv == PackageInv /\ LockIsExclusive

\* Without a removal an invocation may only enter when no other is at work, and
\* the lock goes away only when the one that is at work removes it.
LEMMA StepExclusive ==
    ASSUME LockInv, NEW p \in Process, Step(p), clears = 0
    PROVE  LockIsExclusive'
<1> USE DEF LockInv, PackageInv, LockIsExclusive
<1>0. \A q \in Process \ {p} : pc'[q] = pc[q] /\ error'[q] = error[q]
  BY StepIsLocal
<1>a. pc \in [Process -> {"start", "locking"} \cup Holding \cup Ended] /\ error \in [Process -> Error]
  BY DEF AcquireTypeOK
<1>k. error[p] = "lock_stays" => pc[p] = "failed"
  BY DEF Knowledge
<1> USE DEF Goto, Fail
<1>1. CASE Begin(p)
  BY <1>0, <1>1, <1>a, <1>k DEF Begin, Holding, Prepared
<1>2. CASE TakeLock(p)
  BY <1>0, <1>2, <1>a, <1>k DEF TakeLock, Holding, Prepared
<1>3. CASE Release(p)
  BY <1>0, <1>3, <1>a, <1>k DEF Release, Holding, Prepared
<1>4. CASE Kill(p)
  BY <1>0, <1>4, <1>a, <1>k DEF Kill, Ended, Holding, Prepared
<1>5. CASE StepFails(p)
  <2>1. /\ lock' = lock
        /\ \/ pc[p] \in Holding /\ pc'[p] \in Holding
           \/ pc[p] \in {"start", "locking"} /\ pc'[p] = "failed"
           \/ pc[p] \in Holding /\ pc'[p] = "failed" /\ error'[p] = "lock_stays"
    BY <1>5, <1>a DEF StepFails, Unwind, Holding, Prepared, Ended
  <2> QED
    BY <1>0, <2>1, <1>a, <1>k DEF Holding, Prepared
<1>6. CASE Enter(p) \/ Fetch(p) \/ Examine(p) \/ Seal(p) \/ Place(p) \/ Verify(p) \/ Clean(p)
  <2>1. pc[p] \in Holding /\ pc'[p] \in Holding /\ lock' = lock
    BY <1>6, <1>a DEF Enter, Fetch, Examine, Seal, Place, Verify, Clean, Holding, Prepared
  <2> QED
    BY <1>0, <2>1, <1>a, <1>k DEF Holding, Prepared
<1> QED
  BY <1>1, <1>2, <1>3, <1>4, <1>5, <1>6 DEF Step, Acquire

LEMMA LockInvStep == LockInv /\ [Next]_acquireVars => LockInv'
<1> SUFFICES ASSUME LockInv, [Next]_acquireVars PROVE LockInv'
  OBVIOUS
<1>1. PackageInv'
  BY PackageInvStep DEF LockInv
<1>2. ASSUME NEW p \in Process, Step(p) PROVE LockIsExclusive'
  <2>1. clears' = clears
    BY <1>2, StepIsLocal DEF LockInv, PackageInv
  <2> QED
    BY <1>2, <2>1, StepExclusive DEF LockIsExclusive
<1>3. CASE ClearLock
  <2>1. clears' # 0
    BY <1>3 DEF ClearLock, LockInv, PackageInv, AcquireTypeOK
  <2> QED
    BY <1>1, <2>1 DEF LockInv, LockIsExclusive
<1>4. CASE UNCHANGED acquireVars
  BY <1>1, <1>4 DEF acquireVars, LockInv, LockIsExclusive
<1> QED
  BY <1>1, <1>2, <1>3, <1>4 DEF Next, Step, LockInv

\* As long as no operator removes a lock file, at most one invocation works on
\* the commit, and the lock is there as long as it does.
THEOREM LockExcludes == Spec => []LockIsExclusive
<1>1. Init => LockInv
  BY PackageInvInit DEF Init, LockInv, LockIsExclusive, Holding, Prepared
<1>2. LockInv => LockIsExclusive
  BY DEF LockInv
<1> QED
  BY <1>1, <1>2, LockInvStep, PTL DEF Spec
=============================================================================
