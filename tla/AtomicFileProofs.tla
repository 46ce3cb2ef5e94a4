-------------------------- MODULE AtomicFileProofs --------------------------
(***************************************************************************)
(* What TLAPS proves about AtomicFile, for any number of overlapping calls *)
(* and any faults.                                                         *)
(***************************************************************************)
EXTENDS AtomicFile, FiniteSetTheorems, TLAPS

\* The call's link has succeeded and nothing has failed since.
Linked(c) ==
    \/ pc[c] \in {"unlinking", "syncing", "done"}
    \/ pc[c] \in {"finally", "removing"} /\ error[c] = "none"

\* No exception is in flight in the steps before the finally clause.
NoErrorYet(c) == pc[c] \in {"open", "writing", "linking", "unlinking", "syncing"} => error[c] = "none"

\* The strengthening of OneWinner: the final name is taken from the first link
\* on, so that no second call can link.
LinkInv ==
    /\ \A c \in Call : NoErrorYet(c)
    /\ \A c \in Call : Linked(c) => path # NoInode
    /\ \A c, d \in Call : Linked(c) /\ Linked(d) => c = d

\* Each system call, failure or death leaves every variable in its type.
LEMMA TypeStep == ASSUME TypeOK, [Next]_vars PROVE TypeOK'
<1>1. CASE UNCHANGED vars
    BY <1>1 DEF vars, TypeOK
<1>2. ASSUME NEW c \in Call, Program(c) \/ Fault(c) PROVE TypeOK'
  <2> USE DEF TypeOK, Goto, Raise, Running, Ended, Error
  <2>1. CASE Open(c)
      BY <2>1 DEF Open, Meet, Others
  <2>2. CASE OpenRefused(c)
      BY <2>2 DEF OpenRefused, Meet, Others
  <2>3. CASE Write(c)
      BY <2>3 DEF Write
  <2>4. CASE Link(c)
      BY <2>4 DEF Link
  <2>5. CASE LinkRefused(c)
      BY <2>5 DEF LinkRefused
  <2>6. CASE Unlink(c)
      BY <2>6 DEF Unlink
  <2>7. CASE Sync(c)
      BY <2>7 DEF Sync
  <2>8. CASE Finally(c)
      BY <2>8 DEF Finally, Outcome
  <2>9. CASE Remove(c)
      BY <2>9 DEF Remove, Outcome
  <2>10. CASE OpenFails(c)
      BY <2>10 DEF OpenFails, Meet, Others
  <2>11. CASE StepFails(c) \/ FinallyFails(c) \/ Kill(c)
      BY <2>11 DEF StepFails, FinallyFails, Kill
  <2> QED
      BY <1>2, <2>1, <2>2, <2>3, <2>4, <2>5, <2>6, <2>7, <2>8, <2>9, <2>10, <2>11
         DEF Program, Fault
<1> QED BY <1>1, <1>2 DEF Next

\* Only the call whose os.link succeeded sets the path, and it does so once.
LEMMA LinkStep == ASSUME TypeOK, LinkInv, [Next]_vars PROVE LinkInv'
<1> USE DEF LinkInv, Linked, NoErrorYet
<1>1. CASE UNCHANGED vars
    BY <1>1 DEF vars
<1>2. ASSUME NEW c \in Call, Link(c) PROVE LinkInv'
  <2>1. /\ path = NoInode /\ path' \in Call
        /\ pc' = [pc EXCEPT ![c] = "unlinking"] /\ error' = error
      BY <1>2 DEF Link, Goto, TypeOK
  <2>2. \A d \in Call : ~Linked(d)
      BY <2>1
  <2>3. \A d \in Call : d # c => ~Linked(d)'
      BY <2>1, <2>2 DEF TypeOK
  <2>4. \A d \in Call : NoErrorYet(d)'
      BY <1>2, <2>1 DEF Link, TypeOK
  <2> QED BY <2>1, <2>3, <2>4, NoInodeAssumption
<1>3. ASSUME NEW c \in Call, (Program(c) /\ ~Link(c)) \/ Fault(c) PROVE LinkInv'
  <2>1. path' = path
      BY <1>3 DEF Program, Fault, OpenFails, StepFails, FinallyFails, Kill, Open,
                  OpenRefused, Write, LinkRefused, Unlink, Sync, Finally, Remove
  <2>2. \A d \in Call : Linked(d)' => Linked(d)
      BY <1>3 DEF Program, Fault, OpenFails, StepFails, FinallyFails, Kill, Open,
                  OpenRefused, Write, LinkRefused, Unlink, Sync, Finally, Remove, Outcome,
                  Goto, Raise, TypeOK, Running
  <2>3. \A d \in Call : NoErrorYet(d)'
      BY <1>3 DEF Program, Fault, OpenFails, StepFails, FinallyFails, Kill, Open,
                  OpenRefused, Write, LinkRefused, Unlink, Sync, Finally, Remove, Outcome,
                  Goto, Raise, TypeOK, Running
  <2> QED BY <2>1, <2>2, <2>3
<1> QED BY <1>1, <1>2, <1>3 DEF Next, Program

\* The variables of any number of calls keep their types.
THEOREM TypeCorrect == Spec => []TypeOK
<1>1. Init => TypeOK
    BY DEF Init, TypeOK, Error
<1>2. TypeOK /\ [Next]_vars => TypeOK'
    BY TypeStep
<1> QED BY <1>1, <1>2, PTL DEF Spec

\* A call that has linked holds the path, and no two calls ever have.
THEOREM LinkInvariance == Spec => []LinkInv
<1>1. Init => LinkInv
    BY DEF Init, LinkInv, Linked, NoErrorYet
<1>2. TypeOK /\ LinkInv /\ [Next]_vars => LinkInv'
    BY LinkStep
<1> QED BY <1>1, <1>2, TypeCorrect, PTL DEF Spec

\* However many calls race for a path, at most one of them reports success.
THEOREM AtMostOneWinner == Spec => []OneWinner
<1>1. LinkInv => OneWinner
    BY DEF LinkInv, OneWinner, Linked
<1> QED BY <1>1, LinkInvariance, PTL

\* No call, failing, recovering or dying, replaces or removes a file that has
\* its final name.
THEOREM FileIsNeverReplaced == Spec => NeverReplaced
<1>1. ASSUME [Next]_vars, path # NoInode PROVE path' = path
  <2>1. CASE UNCHANGED vars
      BY <2>1 DEF vars
  <2>2. ASSUME NEW c \in Call, Program(c) \/ Fault(c) PROVE path' = path
      BY <1>1, <2>2 DEF Program, Fault, OpenFails, StepFails, FinallyFails, Kill, Open,
                        OpenRefused, Write, Link, LinkRefused, Unlink, Sync, Finally, Remove
  <2> QED BY <1>1, <2>1, <2>2 DEF Next
<1>2. [Next]_vars => [path # NoInode => path' = path]_vars
    BY <1>1
<1> QED BY <1>2, PTL DEF Spec, NeverReplaced

-----------------------------------------------------------------------------
(* Which calls overlap *)

Started == {c \in Call : pc[c] # "open"}
Starts(c) == pc[c] = "open" /\ pc'[c] \in Running /\ Meet(c)
NobodyStarts ==
    /\ met' = met
    /\ \A c \in Call : /\ pc[c] = "open" <=> pc'[c] = "open"
                       /\ pc'[c] \in Running => pc[c] \in Running

\* met is what it is meant to be: two calls that run have met each other, and
\* finitely many calls have started, whatever the set of calls that may.
MeetInv ==
    /\ IsFiniteSet(Started)
    /\ \A c \in Call : met[c] \subseteq Started \ {c}
    /\ \A c, d \in Call : c # d /\ pc[c] \in Running /\ pc[d] \in Running => d \in met[c]

\* Calls start one at a time, by their attempt to create the temporary file.
LEMMA StartSteps ==
    ASSUME TypeOK, [Next]_vars
    PROVE  \/ NobodyStarts
           \/ \E c \in Call : Starts(c) /\ \A d \in Call \ {c} : pc'[d] = pc[d]
<1> USE DEF NobodyStarts, Starts, TypeOK, Goto, Running
<1>1. CASE UNCHANGED vars
    BY <1>1 DEF vars
<1>2. ASSUME NEW c \in Call, Open(c) \/ OpenRefused(c) \/ OpenFails(c)
      PROVE  Starts(c) /\ \A d \in Call \ {c} : pc'[d] = pc[d]
    BY <1>2 DEF Open, OpenRefused, OpenFails
<1>3. ASSUME NEW c \in Call, Write(c) \/ Link(c) \/ LinkRefused(c) \/ Sync(c) PROVE NobodyStarts
    BY <1>3 DEF Write, Link, LinkRefused, Sync
<1>4. ASSUME NEW c \in Call, Unlink(c) PROVE NobodyStarts
    BY <1>4 DEF Unlink
<1>5. ASSUME NEW c \in Call, Finally(c) \/ Remove(c) PROVE NobodyStarts
    BY <1>5 DEF Finally, Remove, Outcome
<1>6. ASSUME NEW c \in Call, StepFails(c) \/ FinallyFails(c) \/ Kill(c) PROVE NobodyStarts
    BY <1>6 DEF StepFails, FinallyFails, Kill
<1> QED BY <1>1, <1>2, <1>3, <1>4, <1>5, <1>6 DEF Next, Program, Fault

\* A call that starts and the calls that run are told of each other.
LEMMA MeetStep == ASSUME TypeOK, MeetInv, [Next]_vars PROVE MeetInv'
<1>1. CASE NobodyStarts
  <2>1. Started' = Started
      BY <1>1 DEF Started, NobodyStarts
  <2> QED BY <1>1, <2>1 DEF MeetInv, NobodyStarts
<1>2. ASSUME NEW c \in Call, Starts(c), \A d \in Call \ {c} : pc'[d] = pc[d] PROVE MeetInv'
  <2>1. Started' = Started \cup {c} /\ c \notin Started /\ pc[c] \notin Running
      BY <1>2 DEF Started, Starts, Running
  <2>2. Others(c) \subseteq Started \ {c}
      BY <2>1 DEF Others, Started, Running
  <2>3. IsFiniteSet(Started')
      BY <2>1, FS_AddElement DEF MeetInv
  <2>4. ASSUME NEW d \in Call PROVE met'[d] \subseteq Started' \ {d}
      BY <1>2, <2>1, <2>2 DEF MeetInv, Starts, Meet, Others
  <2>5. ASSUME NEW a \in Call, NEW b \in Call, a # b, pc'[a] \in Running, pc'[b] \in Running
        PROVE  b \in met'[a]
      BY <1>2, <2>5 DEF MeetInv, Starts, Meet, Others
  <2> QED BY <2>3, <2>4, <2>5 DEF MeetInv
<1> QED BY <1>1, <1>2, StartSteps

\* The calls a call has met are those that have run beside it.
THEOREM MeetInvariance == Spec => []MeetInv
<1>1. Init => MeetInv
  <2> SUFFICES ASSUME Init PROVE MeetInv
      OBVIOUS
  <2>1. Started = {}
      BY DEF Init, Started
  <2> QED BY <2>1, FS_EmptySet DEF Init, MeetInv, Running
<1>2. TypeOK /\ MeetInv /\ [Next]_vars => MeetInv'
    BY MeetStep
<1> QED BY <1>1, <1>2, TypeCorrect, PTL DEF Spec

-----------------------------------------------------------------------------
(* Whose file is at the path *)

MetTwo(c) == \E d, e \in met[c] : d # e

TmpIsOwn(c) ==
    pc[c] \in {"writing", "linking"} =>
        \/ tmp = c
        \/ tmp = NoInode /\ met[c] # {}
        \/ MetTwo(c)

\* The strengthening of WinnerWroteTheFile: the temporary name of a call that is
\* about to link can be gone once it has met another, and can be a stranger's
\* only when it has met one that removed it and one that created it anew.
OwnInv ==
    \A c \in Call :
        /\ pc[c] = "linking" \/ Linked(c) => data[c] = "whole"
        /\ TmpIsOwn(c)
        /\ Linked(c) => path = c \/ MetTwo(c)

\* A call never forgets whom it has met.
LEMMA MetGrows ==
    ASSUME TypeOK, MeetInv, [Next]_vars, NEW c \in Call, pc[c] # "open"
    PROVE  /\ met[c] \subseteq met'[c]
           /\ MetTwo(c) => MetTwo(c)'
<1>1. met[c] \subseteq met'[c]
  <2>1. CASE NobodyStarts
      BY <2>1 DEF NobodyStarts
  <2>2. ASSUME NEW d \in Call, Starts(d) PROVE met[c] \subseteq met'[c]
      BY <2>2 DEF Starts, Meet
  <2> QED BY <2>1, <2>2, StartSteps
<1> QED BY <1>1 DEF MetTwo

\* A step of one call, seen from another that is writing or about to link.
LEMMA TmpIsOwnStep ==
    ASSUME TypeOK, MeetInv, OwnInv, NEW x \in Call, Program(x) \/ Fault(x),
           NEW c \in Call, c # x
    PROVE  TmpIsOwn(c)'
<1> SUFFICES ASSUME pc'[c] \in {"writing", "linking"}
             PROVE  (tmp' = c) \/ (tmp' = NoInode /\ met'[c] # {}) \/ MetTwo(c)'
    BY DEF TmpIsOwn
<1>1. [Next]_vars
    BY DEF Next
<1>2. pc'[c] = pc[c]
    BY DEF Program, Fault, OpenFails, StepFails, FinallyFails, Kill, Open, OpenRefused,
           Write, Link, LinkRefused, Unlink, Sync, Finally, Remove, Goto, TypeOK
<1>3. pc[c] \in Running /\ pc[c] # "open"
    BY <1>2 DEF Running
<1>4. met[c] \subseteq met'[c] /\ (MetTwo(c) => MetTwo(c)')
    BY <1>1, <1>3, MetGrows
<1>5. (tmp = c) \/ (tmp = NoInode /\ met[c] # {}) \/ MetTwo(c)
    BY <1>2 DEF OwnInv, TmpIsOwn
<1>6. CASE Open(x)
  <2>1. tmp = NoInode /\ x \notin met[c]
      BY <1>6 DEF Open, MeetInv, Started
  <2>2. x \in met'[c]
      BY <1>3, <1>6 DEF Open, Meet, Others
  <2>3. met[c] # {} \/ MetTwo(c)
      BY <1>5, <2>1, NoInodeAssumption
  <2> QED BY <1>4, <2>1, <2>2, <2>3 DEF MetTwo
<1>7. CASE Unlink(x) \/ Remove(x)
  <2>1. tmp' = NoInode /\ pc[x] \in Running
      BY <1>7 DEF Unlink, Remove, Running
  <2>2. x \in met[c]
      BY <1>3, <2>1 DEF MeetInv
  <2> QED BY <1>4, <2>1, <2>2
<1>8. CASE ~Open(x) /\ ~Unlink(x) /\ ~Remove(x)
  <2>1. tmp' = tmp
      BY <1>8 DEF Program, Fault, OpenFails, StepFails, FinallyFails, Kill, OpenRefused,
                  Write, Link, LinkRefused, Sync, Finally
  <2> QED BY <1>4, <1>5, <2>1
<1> QED BY <1>6, <1>7, <1>8

\* A call links its own whole value, unless two others meddled.
LEMMA OwnStep == ASSUME TypeOK, MeetInv, LinkInv, OwnInv, [Next]_vars PROVE OwnInv'
<1>1. CASE UNCHANGED vars
    BY <1>1 DEF vars, OwnInv, TmpIsOwn, MetTwo, Linked
<1>2. ASSUME NEW x \in Call, Program(x) \/ Fault(x), NEW c \in Call
      PROVE  /\ pc'[c] = "linking" \/ Linked(c)' => data'[c] = "whole"
             /\ TmpIsOwn(c)'
             /\ Linked(c)' => path' = c \/ MetTwo(c)'
  <2>1. [Next]_vars
      BY <1>2 DEF Next
  <2>2. pc[c] # "open" => (MetTwo(c) => MetTwo(c)')
      BY <2>1, MetGrows
  <2>3. pc'[c] = "linking" \/ Linked(c)' => data'[c] = "whole"
    <3> USE DEF OwnInv, Linked, TypeOK, Goto, Raise, LinkInv, NoErrorYet
    <3>1. CASE Open(x)
        BY <1>2, <3>1 DEF Open
    <3>2. CASE OpenRefused(x)
        BY <1>2, <3>2 DEF OpenRefused
    <3>3. CASE Write(x) \/ Link(x) \/ LinkRefused(x) \/ Sync(x)
        BY <1>2, <3>3 DEF Write, Link, LinkRefused, Sync
    <3>4. CASE Unlink(x)
        BY <1>2, <3>4 DEF Unlink
    <3>5. CASE Finally(x) \/ Remove(x)
        BY <1>2, <3>5 DEF Finally, Remove, Outcome
    <3>6. CASE Fault(x)
        BY <1>2, <3>6 DEF Fault, OpenFails, StepFails, FinallyFails, Kill
    <3> QED BY <1>2, <3>1, <3>2, <3>3, <3>4, <3>5, <3>6 DEF Program
  <2>4. TmpIsOwn(c)'
    <3>1. CASE c # x
        BY <1>2, <3>1, TmpIsOwnStep
    <3>2. CASE c = x /\ Open(x)
        BY <3>2 DEF Open, TmpIsOwn
    <3>3. CASE c = x /\ Write(x)
        BY <3>3, <2>2 DEF Write, OwnInv, TmpIsOwn, TypeOK, Goto, MetTwo
    <3>4. CASE c = x /\ ~Open(x) /\ ~Write(x)
      <4>1. pc'[c] \notin {"writing", "linking"}
          BY <1>2, <3>4 DEF Program, Fault, OpenFails, StepFails, FinallyFails, Kill,
                            OpenRefused, Link, LinkRefused, Unlink, Sync, Finally, Remove,
                            Outcome, Goto, TypeOK
      <4> QED BY <4>1 DEF TmpIsOwn
    <3> QED BY <3>1, <3>2, <3>3, <3>4
  <2>5. ASSUME Linked(c)' PROVE path' = c \/ MetTwo(c)'
    <3>1. CASE c = x /\ Link(x)
      <4>1. pc[c] = "linking" /\ tmp # NoInode /\ path' = tmp
          BY <3>1 DEF Link
      <4>2. tmp = c \/ MetTwo(c)
          BY <4>1 DEF OwnInv, TmpIsOwn
      <4> QED BY <2>2, <4>1, <4>2
    <3>2. CASE ~(c = x /\ Link(x))
      <4>1. Linked(c)
          BY <1>2, <2>5, <3>2
             DEF Program, Fault, OpenFails, StepFails, FinallyFails, Kill, Open, OpenRefused,
                 Write, Link, LinkRefused, Unlink, Sync, Finally, Remove, Outcome, Goto,
                 Raise, TypeOK, Linked, LinkInv, NoErrorYet
      <4>2. path # NoInode /\ pc[c] # "open"
          BY <4>1 DEF LinkInv, Linked
      <4>3. path' = path
          BY <1>2, <4>2 DEF Program, Fault, OpenFails, StepFails, FinallyFails, Kill, Open,
                            OpenRefused, Write, Link, LinkRefused, Unlink, Sync, Finally,
                            Remove
      <4> QED BY <2>2, <4>1, <4>2, <4>3 DEF OwnInv
    <3> QED BY <3>1, <3>2
  <2> QED BY <2>3, <2>4, <2>5
<1> QED BY <1>1, <1>2 DEF Next, OwnInv

\* A set with two members is not a set of at most one.
LEMMA TwoMembers ==
    ASSUME NEW S, IsFiniteSet(S), NEW d \in S, NEW e \in S, d # e
    PROVE  Cardinality(S) > 1
<1>1. Cardinality(S) \in Nat
    BY FS_CardinalityType
<1>2. Cardinality(S) # 0
    BY FS_EmptySet
<1>3. Cardinality(S) # 1
  <2> SUFFICES ASSUME Cardinality(S) = 1 PROVE FALSE
      OBVIOUS
  <2>1. PICK x : S = {x}
      BY FS_Singleton
  <2> QED BY <2>1
<1> QED BY <1>1, <1>2, <1>3

\* What a call that succeeds has put at the path is its own whole value, if it
\* overlapped with at most one other, however many calls there were before.
THEOREM WinnerWroteTheFileAlways == Spec => []WinnerWroteTheFile
<1>1. Init => OwnInv
    BY DEF Init, OwnInv, TmpIsOwn, Linked
<1>2. TypeOK /\ MeetInv /\ LinkInv /\ OwnInv /\ [Next]_vars => OwnInv'
    BY OwnStep
<1>3. MeetInv /\ OwnInv => WinnerWroteTheFile
  <2> SUFFICES ASSUME MeetInv, OwnInv, NEW c \in Call, pc[c] = "done", Cardinality(met[c]) <= 1
               PROVE  path = c /\ data[c] = "whole"
      BY DEF WinnerWroteTheFile
  <2>1. IsFiniteSet(met[c])
      BY FS_Subset DEF MeetInv
  <2>2. Cardinality(met[c]) \in Nat
      BY <2>1, FS_CardinalityType
  <2>3. ~MetTwo(c)
    <3> SUFFICES ASSUME NEW d \in met[c], NEW e \in met[c], d # e PROVE FALSE
        BY DEF MetTwo
    <3>1. Cardinality(met[c]) > 1
        BY <2>1, TwoMembers
    <3> QED BY <2>2, <3>1
  <2> QED BY <2>3 DEF OwnInv, Linked
<1> QED BY <1>1, <1>2, <1>3, TypeCorrect, LinkInvariance, MeetInvariance, PTL DEF Spec

-----------------------------------------------------------------------------
(* What a call that leaves its temporary file costs *)

\* The calls that may have left the temporary file for good.
Gone == {c \in Call : pc[c] \in {"dead", "stuck"}}
RefusedAlone == {c \in Call : error[c] = "tmp_exists" /\ met[c] = {}}

\* The temporary file is of a call that still runs, or of one that left it.
TmpHasOwner == tmp # NoInode => pc[tmp] \in Running \cup {"dead", "stuck"}

\* A file that was left and that no call refused alone is about to remove.
Stale == tmp \in Gone /\ \A c \in RefusedAlone : pc[c] \notin Running

\* The calls refused alone so far, and NoInode for the next one when there must be one.
Debts == RefusedAlone \cup {x \in {NoInode} : Stale}

\* The strengthening of StaleTmpCostsOneRetry: a file that was left is a
\* debt of one refusal already, which the refused call takes over and pays.
DebtInv == TmpHasOwner /\ Cardinality(Debts) <= Cardinality(Gone)

DebtsAreFinite == IsFiniteSet(Debts) /\ IsFiniteSet(Gone)

\* Both sets are finite, in a state with finitely many started calls.
LEMMA FiniteDebts == TypeOK /\ LinkInv /\ MeetInv => DebtsAreFinite
<1> SUFFICES ASSUME TypeOK, LinkInv, MeetInv PROVE DebtsAreFinite
    OBVIOUS
<1>1. Gone \subseteq Started /\ RefusedAlone \subseteq Started
    BY DEF Gone, RefusedAlone, Started, LinkInv, NoErrorYet
<1>2. IsFiniteSet(Started \cup {NoInode})
    BY FS_AddElement DEF MeetInv
<1>3. Debts \subseteq Started \cup {NoInode} /\ Gone \subseteq Started \cup {NoInode}
    BY <1>1 DEF Debts
<1> QED BY <1>2, <1>3, FS_Subset DEF DebtsAreFinite

\* Exchanging one member for another does not make a set larger.
LEMMA Exchanged ==
    ASSUME NEW S, IsFiniteSet(S), NEW d \in S, NEW y, NEW T, T \subseteq (S \ {d}) \cup {y}
    PROVE  Cardinality(T) <= Cardinality(S)
<1>1. IsFiniteSet(S \ {d}) /\ Cardinality(S \ {d}) = Cardinality(S) - 1
    BY FS_RemoveElement
<1>2. /\ IsFiniteSet((S \ {d}) \cup {y})
      /\ \/ Cardinality((S \ {d}) \cup {y}) = Cardinality(S \ {d})
         \/ Cardinality((S \ {d}) \cup {y}) = Cardinality(S \ {d}) + 1
    BY <1>1, FS_AddElement
<1>3. IsFiniteSet(T) /\ Cardinality(T) <= Cardinality((S \ {d}) \cup {y})
    BY <1>2, FS_Subset
<1>4. Cardinality(S) \in Nat /\ Cardinality(T) \in Nat
    BY <1>3, FS_CardinalityType
<1> QED BY <1>1, <1>2, <1>3, <1>4

\* A call that ends has removed the temporary file, or found that it is gone.
LEMMA OwnerStep == ASSUME TypeOK, TmpHasOwner, [Next]_vars PROVE TmpHasOwner'
<1> USE DEF TmpHasOwner, TypeOK, Goto, Running
<1>1. CASE UNCHANGED vars
    BY <1>1 DEF vars
<1>2. ASSUME NEW c \in Call, Open(c) \/ Unlink(c) \/ Remove(c) PROVE TmpHasOwner'
    BY <1>2 DEF Open, Unlink, Remove
<1>3. ASSUME NEW c \in Call, OpenRefused(c) \/ Write(c) \/ Link(c) \/ LinkRefused(c) \/ Sync(c)
      PROVE  TmpHasOwner'
    BY <1>3 DEF OpenRefused, Write, Link, LinkRefused, Sync
<1>4. ASSUME NEW c \in Call, Finally(c) PROVE TmpHasOwner'
    BY <1>4 DEF Finally
<1>5. ASSUME NEW c \in Call, Fault(c) PROVE TmpHasOwner'
    BY <1>5 DEF Fault, OpenFails, StepFails, FinallyFails, Kill
<1> QED BY <1>1, <1>2, <1>3, <1>4, <1>5 DEF Next, Program

\* Only a call that starts, and meets nobody, joins the calls refused alone.
LEMMA RefusedAloneSteps ==
    ASSUME TypeOK, LinkInv, MeetInv, [Next]_vars, NEW c \in RefusedAlone', c \notin RefusedAlone
    PROVE  OpenRefused(c) /\ Others(c) = {}
<1>1. c \in Call /\ error'[c] = "tmp_exists" /\ met'[c] = {}
    BY DEF RefusedAlone
<1>2. CASE pc[c] = "open"
  <2>1. error[c] = "none"
      BY <1>1, <1>2 DEF LinkInv, NoErrorYet
  <2>2. OpenRefused(c)
      BY <1>1, <1>2, <2>1 DEF Next, Program, vars, Fault, OpenFails, StepFails, FinallyFails,
                              Kill, Open, OpenRefused, Write, Link, LinkRefused, Unlink,
                              Sync, Finally, Remove, Raise, TypeOK
  <2> QED BY <1>1, <2>2 DEF OpenRefused, Meet
<1>3. CASE pc[c] # "open"
  <2>1. met[c] = {}
      BY <1>1, <1>3, MetGrows
  <2>2. error[c] # "tmp_exists"
      BY <1>1, <2>1 DEF RefusedAlone
  <2> QED BY <1>1, <1>3, <2>2
             DEF Next, Program, vars, Fault, OpenFails, StepFails, FinallyFails, Kill, Open,
                 OpenRefused, Write, Link, LinkRefused, Unlink, Sync, Finally, Remove, Raise,
                 TypeOK
<1> QED BY <1>2, <1>3

\* A call refused alone turns the debt of the stale file into its own.
LEMMA AloneStep ==
    ASSUME TypeOK, LinkInv, MeetInv, DebtInv, NEW x \in Call, OpenRefused(x), Others(x) = {}
    PROVE  NoInode \in Debts /\ Debts' \subseteq (Debts \ {NoInode}) \cup {x}
<1>1. /\ pc[x] = "open" /\ tmp # NoInode /\ tmp' = tmp
      /\ pc' = [pc EXCEPT ![x] = "finally"]
      /\ error' = [error EXCEPT ![x] = "tmp_exists"]
      /\ met'[x] = {}
    BY DEF OpenRefused, Goto, Raise, Meet
<1>2. \A c \in Call : pc[c] \notin Running
    BY <1>1 DEF Others, Running
<1>3. Stale
    BY <1>1, <1>2 DEF DebtInv, TmpHasOwner, TypeOK, Stale, Gone, RefusedAlone
<1>4. ~Stale'
    BY <1>1 DEF Stale, RefusedAlone, TypeOK, Running
<1>5. RefusedAlone' \subseteq RefusedAlone \cup {x}
  <2>1. [Next]_vars
      BY DEF Next, Program
  <2>2. ASSUME NEW c \in RefusedAlone', c \notin RefusedAlone PROVE c = x
    <3>1. OpenRefused(c)
        BY <2>1, <2>2, RefusedAloneSteps
    <3> QED BY <1>1, <2>2, <3>1 DEF OpenRefused, Goto, RefusedAlone, TypeOK
  <2> QED BY <2>2
<1>6. NoInode \notin RefusedAlone
    BY NoInodeAssumption DEF RefusedAlone
<1> QED BY <1>3, <1>4, <1>5, <1>6 DEF Debts

\* Any other step adds no debt that it does not take from a call, or pays for.
LEMMA OtherStep ==
    ASSUME TypeOK, LinkInv, MeetInv, DebtInv,
           NEW x \in Call, Program(x) \/ OpenFails(x) \/ StepFails(x),
           ~(OpenRefused(x) /\ Others(x) = {})
    PROVE  \/ Debts' \subseteq Debts
           \/ \E d \in Debts : Debts' \subseteq (Debts \ {d}) \cup {NoInode}
<1>1. [Next]_vars
    BY DEF Next, Fault
<1>2. RefusedAlone' \subseteq RefusedAlone
  <2> SUFFICES ASSUME NEW c \in RefusedAlone', c \notin RefusedAlone PROVE FALSE
      OBVIOUS
  <2>1. OpenRefused(c) /\ Others(c) = {} /\ c \in Call
      BY <1>1, RefusedAloneSteps DEF RefusedAlone
  <2>2. c # x
      BY <2>1
  <2>3. error'[c] = "tmp_exists" /\ error[c] = "none"
      BY <2>1 DEF RefusedAlone, OpenRefused, LinkInv, NoErrorYet
  <2> QED BY <2>1, <2>2, <2>3
             DEF Program, OpenFails, StepFails, Open, OpenRefused, Write, Link, LinkRefused,
                 Unlink, Sync, Finally, Remove, Raise, TypeOK
<1>3. CASE ~Stale' \/ Stale
    BY <1>2, <1>3 DEF Debts
<1>4. CASE Stale' /\ ~Stale
  <2>1. tmp' \in Call /\ pc'[tmp'] \in {"dead", "stuck"} /\ tmp' # NoInode
      BY <1>4, NoInodeAssumption DEF Stale, Gone
  <2>2. ~Open(x) /\ ~Unlink(x) /\ ~Remove(x)
      BY <2>1 DEF Open, Unlink, Remove, Goto, TypeOK
  <2>3. tmp' = tmp
      BY <2>2 DEF Program, OpenFails, StepFails, OpenRefused, Write, Link, LinkRefused, Sync,
                  Finally
  <2>4. \A c \in Call : pc'[c] \in {"dead", "stuck"} => pc[c] \in {"dead", "stuck"}
      BY <2>1, <2>2, <2>3 DEF Program, OpenFails, StepFails, OpenRefused, Write, Link,
                              LinkRefused, Sync, Finally, Outcome, Goto, TypeOK
  <2>5. \A c \in Call : pc[c] \in Running => pc'[c] \in Running
      BY <2>1, <2>2, <2>3 DEF Program, OpenFails, StepFails, OpenRefused, Write, Link,
                              LinkRefused, Sync, Finally, Outcome, Goto, TypeOK, Running
  <2>6. tmp \in Gone
      BY <2>1, <2>3, <2>4 DEF Gone
  <2>7. PICK f \in RefusedAlone : pc[f] \in Running
      BY <1>4, <2>6 DEF Stale
  <2>8. f \notin RefusedAlone'
      BY <1>4, <2>5, <2>7 DEF Stale, RefusedAlone
  <2> QED BY <1>2, <2>7, <2>8 DEF Debts
<1> QED BY <1>3, <1>4

\* A death, or a failed removal, is one more call that is gone and leaves at most one file.
LEMMA GoneStep ==
    ASSUME TypeOK, LinkInv, MeetInv, NEW x \in Call, FinallyFails(x) \/ Kill(x)
    PROVE  Debts' \subseteq Debts \cup {NoInode} /\ Gone' = Gone \cup {x} /\ x \notin Gone
BY DEF FinallyFails, Kill, Debts, Stale, RefusedAlone, Gone, Goto, TypeOK, Running

\* A call that is gone stays gone.
LEMMA GoneStays ==
    ASSUME TypeOK, NEW x \in Call, Program(x) \/ OpenFails(x) \/ StepFails(x)
    PROVE  Gone \subseteq Gone'
BY DEF Gone, Program, OpenFails, StepFails, Open, OpenRefused, Write, Link, LinkRefused,
       Unlink, Sync, Finally, Remove, Goto, TypeOK

\* No step makes the debts more than the calls that are gone.
LEMMA DebtStep ==
    ASSUME TypeOK, LinkInv, MeetInv, DebtInv, DebtsAreFinite, DebtsAreFinite', [Next]_vars
    PROVE  DebtInv'
<1>1. IsFiniteSet(Debts) /\ IsFiniteSet(Gone)
    BY DEF DebtsAreFinite
<1>2. IsFiniteSet(Debts') /\ IsFiniteSet(Gone')
    BY DEF DebtsAreFinite
<1>3. /\ Cardinality(Debts) \in Nat /\ Cardinality(Gone) \in Nat
      /\ Cardinality(Debts') \in Nat /\ Cardinality(Gone') \in Nat
    BY <1>1, <1>2, FS_CardinalityType
<1>4. Cardinality(Debts) <= Cardinality(Gone)
    BY DEF DebtInv
<1>5. CASE UNCHANGED vars
  <2>1. Debts' = Debts /\ Gone' = Gone
      BY <1>5 DEF vars, Debts, Gone, Stale, RefusedAlone
  <2> QED BY <1>4, <2>1, OwnerStep DEF DebtInv
<1>6. ASSUME NEW x \in Call, Program(x) \/ OpenFails(x) \/ StepFails(x)
      PROVE  Cardinality(Debts') <= Cardinality(Gone')
  <2>1. Cardinality(Gone) <= Cardinality(Gone')
      BY <1>2, <1>6, GoneStays, FS_Subset
  <2>2. Cardinality(Debts') <= Cardinality(Debts)
    <3>1. CASE OpenRefused(x) /\ Others(x) = {}
        BY <1>1, <3>1, AloneStep, Exchanged
    <3>2. CASE Debts' \subseteq Debts
        BY <1>1, <3>2, FS_Subset
    <3>3. CASE \E d \in Debts : Debts' \subseteq (Debts \ {d}) \cup {NoInode}
        BY <1>1, <3>3, Exchanged
    <3> QED BY <1>6, <3>1, <3>2, <3>3, OtherStep
  <2> QED BY <1>3, <1>4, <2>1, <2>2
<1>7. ASSUME NEW x \in Call, FinallyFails(x) \/ Kill(x)
      PROVE Cardinality(Debts') <= Cardinality(Gone')
  <2>1. Cardinality(Gone') = Cardinality(Gone) + 1
      BY <1>1, <1>7, GoneStep, FS_AddElement
  <2>2. /\ IsFiniteSet(Debts \cup {NoInode})
        /\ \/ Cardinality(Debts \cup {NoInode}) = Cardinality(Debts)
           \/ Cardinality(Debts \cup {NoInode}) = Cardinality(Debts) + 1
      BY <1>1, FS_AddElement
  <2>3. Cardinality(Debts') <= Cardinality(Debts \cup {NoInode})
      BY <1>7, <2>2, GoneStep, FS_Subset
  <2> QED BY <1>3, <1>4, <2>1, <2>2, <2>3
<1> QED BY <1>5, <1>6, <1>7, OwnerStep DEF Next, Fault, DebtInv

\* The calls that are refused though they run alone are never more than the calls
\* that died or could not remove the temporary file, which a refusal removes.
THEOREM StaleTmpCostsOneRetryAlways == Spec => []StaleTmpCostsOneRetry
<1>1. Init => DebtInv
  <2> SUFFICES ASSUME Init PROVE DebtInv
      OBVIOUS
  <2>1. Gone = {} /\ Debts = {}
      BY NoInodeAssumption DEF Init, Gone, Debts, RefusedAlone, Stale
  <2> QED BY <2>1, FS_EmptySet DEF Init, DebtInv, TmpHasOwner
<1>2. /\ TypeOK /\ LinkInv /\ MeetInv /\ DebtInv /\ [Next]_vars
      /\ DebtsAreFinite /\ DebtsAreFinite'
      => DebtInv'
    BY DebtStep
<1>3. TypeOK /\ LinkInv /\ MeetInv /\ DebtInv => StaleTmpCostsOneRetry
  <2> SUFFICES ASSUME TypeOK, LinkInv, MeetInv, DebtInv
               PROVE  Cardinality(RefusedAlone) <= Cardinality(Gone)
      BY DEF StaleTmpCostsOneRetry, RefusedAlone, Gone
  <2>1. IsFiniteSet(Debts) /\ IsFiniteSet(Gone)
      BY FiniteDebts DEF DebtsAreFinite
  <2>2. IsFiniteSet(RefusedAlone) /\ Cardinality(RefusedAlone) <= Cardinality(Debts)
      BY <2>1, FS_Subset DEF Debts
  <2>3. /\ Cardinality(RefusedAlone) \in Nat /\ Cardinality(Debts) \in Nat
        /\ Cardinality(Gone) \in Nat
      BY <2>1, <2>2, FS_CardinalityType
  <2> QED BY <2>2, <2>3 DEF DebtInv
<1> QED
    BY <1>1, <1>2, <1>3, FiniteDebts, TypeCorrect, LinkInvariance, MeetInvariance, PTL DEF Spec
=============================================================================
