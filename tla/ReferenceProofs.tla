----------------------------- MODULE ReferenceProofs ------------------------
(***************************************************************************)
(* The payloads that were acquired, the packages that were published, and  *)
(* the demos that ended, for every number of acquisitions and demos and    *)
(* for all profiles; and what a closed reference graph says of its build,  *)
(* and a comparison of two graphs, for all builds.                         *)
(***************************************************************************)
EXTENDS ReferencePackage, ReferenceGraph, TLAPS

-----------------------------------------------------------------------------
(* Acquisitions *)

Placed(q, x) == payloads[x] = [content |-> "pinned", by |-> q]
Nth(q, n) == Payloads[wanted[q]][n]

\* The temporary file of an acquisition that is at work is at the step where its payload
\* is; what it has placed stays until somebody touches a payload.
AcquirerInv(q) ==
    /\ next[q] \in 1..Len(Payloads[wanted[q]])
    /\ acquiring[q] \in {"looking", "downloading", "acquired"} => part[q] = Absent
    /\ acquiring[q] = "linking" => part[q] = [content |-> "pinned", of |-> Absent]
    /\ touched = 0 /\ acquiring[q] \in {"looking", "downloading", "linking", "unlinking"} =>
           \A n \in 1..(next[q] - 1) : Placed(q, Nth(q, n))
    /\ touched = 0 /\ acquiring[q] = "unlinking" => Placed(q, At(q))
    /\ touched = 0 /\ acquiring[q] = "acquired" =>
           \A n \in 1..Len(Payloads[wanted[q]]) : Placed(q, Nth(q, n))

AcquireTypes ==
    /\ wanted \in [Acquirer -> Profiles]
    /\ acquiring \in [Acquirer -> {"looking", "downloading", "linking", "unlinking",
                                   "unwinding", "acquired", "failed", "dead"}]
    /\ next \in [Acquirer -> Nat]
    /\ part = [q \in Acquirer |-> part[q]]
    /\ payloads \in [AllPayloads ->
                        {Absent} \cup [content : {"pinned", "other"}, by : Acquirer \cup {Absent}]]
    /\ touched \in Nat

AcquireInv == AcquireTypes /\ \A q \in Acquirer : AcquirerInv(q)

\* A payload of a profile is a payload.
LEMMA NthIsPayload ==
    ASSUME AcquireTypes, NEW q \in Acquirer, NEW n \in 1..Len(Payloads[wanted[q]])
    PROVE  Nth(q, n) \in AllPayloads
  BY DEF AcquireTypes, Nth, AllPayloads, PayloadsOf

\* What an acquisition does leaves the others as they are, if what they placed stays.
LEMMA OthersKeepInv ==
    ASSUME NEW q \in Acquirer, AcquirerInv(q), touched \in Nat, touched' \in Nat,
           acquiring'[q] = acquiring[q], next'[q] = next[q], part'[q] = part[q],
           wanted' = wanted,
           touched' = 0 => touched = 0 /\ \A x : Placed(q, x) => Placed(q, x)'
    PROVE  AcquirerInv(q)'
<1>1. \A n : Nth(q, n)' = Nth(q, n)
  BY DEF Nth
<1>2. At(q)' = At(q)
  BY DEF At
<1> QED
  BY <1>1, <1>2 DEF AcquirerInv

LEMMA AcquireInitInv == ReferenceInit => AcquireInv
<1> SUFFICES ASSUME ReferenceInit PROVE AcquireInv
  OBVIOUS
<1>1. AcquireTypes
  BY DEF ReferenceInit, AcquireTypes
<1>2. \A q \in Acquirer : AcquirerInv(q)
  BY PayloadAssumption DEF ReferenceInit, AcquirerInv, Profiles
<1> QED
  BY <1>1, <1>2 DEF AcquireInv

\* A step that changes nothing but where an acquisition is keeps the invariant.
LEMMA MoveKeepsInv ==
    ASSUME AcquireInv, NEW r \in Acquirer, NEW step, NEW n \in Nat,
           step \in {"looking", "downloading", "linking", "unlinking",
                     "unwinding", "acquired", "failed", "dead"},
           acquiring' = [acquiring EXCEPT ![r] = step],
           next' = [next EXCEPT ![r] = n],
           part' = [part EXCEPT ![r] = part'[r]],
           UNCHANGED <<wanted, payloads, touched>>,
           AcquirerInv(r)'
    PROVE  AcquireInv'
<1>1. AcquireTypes'
  BY DEF AcquireInv, AcquireTypes
<1>2. ASSUME NEW q \in Acquirer, q # r PROVE AcquirerInv(q)'
  <2>1. acquiring'[q] = acquiring[q] /\ next'[q] = next[q] /\ part'[q] = part[q]
    BY <1>2 DEF AcquireInv, AcquireTypes
  <2>2. \A x : Placed(q, x) => Placed(q, x)'
    BY DEF Placed
  <2>3. touched \in Nat /\ touched' = touched /\ wanted' = wanted /\ AcquirerInv(q)
    BY DEF AcquireInv, AcquireTypes
  <2> QED
    BY <2>1, <2>2, <2>3, OthersKeepInv
<1> QED
  BY <1>1, <1>2 DEF AcquireInv

\* Where a step leaves payloads, they are placed as before.
LEMMA PlacedStays ==
    ASSUME NEW r, UNCHANGED <<wanted, payloads>>
    PROVE  \A n : Nth(r, n)' = Nth(r, n) /\ (Placed(r, Nth(r, n))' <=> Placed(r, Nth(r, n)))
  BY DEF Nth, Placed

LEMMA LookKeepsInv ==
    ASSUME AcquireInv, NEW r \in Acquirer, LookForPayload(r)
    PROVE  AcquireInv'
<1> DEFINE step == IF InPlace(At(r)) THEN "failed" ELSE "downloading"
<1>1. /\ acquiring[r] = "looking" /\ acquiring' = [acquiring EXCEPT ![r] = step]
      /\ UNCHANGED <<wanted, next, part, payloads, touched>>
  BY DEF LookForPayload, AcquireTo
<1>2. step \in {"failed", "downloading"}
  OBVIOUS
<1> HIDE DEF step
<1>3. acquiring'[r] = step /\ next[r] \in Nat /\ next' = [next EXCEPT ![r] = next[r]]
      /\ part' = [part EXCEPT ![r] = part'[r]]
  BY <1>1 DEF AcquireInv, AcquireTypes
<1>4. AcquirerInv(r)'
  BY <1>1, <1>2, <1>3, PlacedStays DEF AcquireInv, AcquirerInv
<1> QED
  BY <1>1, <1>2, <1>3, <1>4, MoveKeepsInv

LEMMA DownloadKeepsInv ==
    ASSUME AcquireInv, NEW r \in Acquirer, Download(r)
    PROVE  AcquireInv'
<1>1. PICK c \in {"pinned", "other"} :
          /\ part' = [part EXCEPT ![r] = [content |-> c, of |-> Absent]]
          /\ AcquireTo(r, IF c = "pinned" THEN "linking" ELSE "unwinding")
  BY DEF Download
<1> DEFINE step == IF c = "pinned" THEN "linking" ELSE "unwinding"
<1>2. /\ acquiring[r] = "downloading" /\ acquiring' = [acquiring EXCEPT ![r] = step]
      /\ UNCHANGED <<wanted, next, payloads, touched>>
  BY <1>1 DEF Download, AcquireTo
<1>3. step \in {"linking", "unwinding"} /\ (step = "linking" => c = "pinned")
  OBVIOUS
<1> HIDE DEF step
<1>4. acquiring'[r] = step /\ next[r] \in Nat /\ next' = [next EXCEPT ![r] = next[r]]
      /\ part'[r] = [content |-> c, of |-> Absent] /\ part' = [part EXCEPT ![r] = part'[r]]
  BY <1>1, <1>2 DEF AcquireInv, AcquireTypes
<1>5. AcquirerInv(r)'
  BY <1>2, <1>3, <1>4, PlacedStays DEF AcquireInv, AcquirerInv
<1> QED
  BY <1>2, <1>3, <1>4, <1>5, MoveKeepsInv

\* The link is made only where there is no payload.
LEMMA LinkKeepsInv ==
    ASSUME AcquireInv, NEW r \in Acquirer, LinkPayload(r)
    PROVE  AcquireInv'
<1>1. acquiring[r] = "linking" /\ UNCHANGED <<wanted, next, touched>>
  BY DEF LinkPayload
<1>2. next[r] \in Nat /\ next' = [next EXCEPT ![r] = next[r]]
  BY <1>1 DEF AcquireInv, AcquireTypes
<1>3. CASE InPlace(At(r))
  <2>1. acquiring' = [acquiring EXCEPT ![r] = "unwinding"] /\ UNCHANGED <<part, payloads>>
    BY <1>3 DEF LinkPayload, AcquireTo
  <2>2. acquiring'[r] = "unwinding" /\ part' = [part EXCEPT ![r] = part'[r]]
    BY <2>1 DEF AcquireInv, AcquireTypes
  <2>3. AcquirerInv(r)'
    BY <1>1, <2>2 DEF AcquireInv, AcquirerInv
  <2> QED
    BY <1>1, <1>2, <2>1, <2>2, <2>3, MoveKeepsInv
<1>4. CASE ~ InPlace(At(r))
  <2> DEFINE new == [content |-> "pinned", by |-> r]
  <2>1. part[r] = [content |-> "pinned", of |-> Absent]
    BY <1>1 DEF AcquireInv, AcquirerInv
  <2>2. /\ payloads' = [payloads EXCEPT ![At(r)] = new]
        /\ acquiring' = [acquiring EXCEPT ![r] = "unlinking"]
        /\ part' = [part EXCEPT ![r].of = At(r)]
    BY <1>4, <2>1 DEF LinkPayload, AcquireTo
  <2>3. At(r) \in AllPayloads
    BY NthIsPayload DEF AcquireInv, AcquirerInv, At, Nth
  <2>4. \A q, x : Placed(q, x) /\ q \in Acquirer /\ x \in AllPayloads => Placed(q, x)'
    BY <1>4, <2>2, AbsentAssumption DEF Placed, InPlace
  <2>5. AcquireTypes'
    BY <1>1, <2>2, <2>3 DEF AcquireInv, AcquireTypes
  <2>6. acquiring'[r] = "unlinking" /\ Placed(r, At(r))'
    BY <1>1, <2>2, <2>3 DEF AcquireInv, AcquireTypes, Placed, At
  <2>7. ASSUME NEW q \in Acquirer, NEW n \in 1..Len(Payloads[wanted[q]]), Placed(q, Nth(q, n))
        PROVE  Placed(q, Nth(q, n))'
    <3>1. Nth(q, n)' = Nth(q, n) /\ Nth(q, n) \in AllPayloads
      BY <1>1, NthIsPayload DEF Nth, AcquireInv
    <3> QED
      BY <2>4, <2>7, <3>1 DEF Placed
  <2>8. AcquirerInv(r)'
    <3>1. next[r] \in 1..Len(Payloads[wanted[r]]) /\ Len(Payloads[wanted[r]]) \in Nat
      BY PayloadAssumption DEF AcquireInv, AcquireTypes, AcquirerInv, Profiles
    <3>2. touched = 0 => \A n \in 1..(next[r] - 1) : Placed(r, Nth(r, n))'
      BY <1>1, <2>7, <3>1 DEF AcquireInv, AcquirerInv
    <3> QED
      BY <1>1, <2>6, <3>1, <3>2 DEF AcquirerInv
  <2>9. ASSUME NEW q \in Acquirer, q # r PROVE AcquirerInv(q)'
    <3>1. acquiring'[q] = acquiring[q] /\ next'[q] = next[q] /\ part'[q] = part[q]
      BY <1>1, <2>2, <2>9 DEF AcquireInv, AcquireTypes
    <3>2. next[q] \in 1..Len(Payloads[wanted[q]]) /\ Len(Payloads[wanted[q]]) \in Nat
      BY PayloadAssumption DEF AcquireInv, AcquireTypes, AcquirerInv, Profiles
    <3>3. \A n \in 1..Len(Payloads[wanted[q]]) : Placed(q, Nth(q, n)) => Placed(q, Nth(q, n))'
      BY <2>7
    <3>4. Placed(q, At(q)) => Placed(q, At(q))'
      BY <1>1, <3>1, <3>2, <3>3 DEF At, Nth
    <3>5. AcquirerInv(q)
      BY DEF AcquireInv
    <3> QED
      BY <1>1, <3>1, <3>2, <3>3, <3>4, <3>5 DEF AcquirerInv
  <2> QED
    BY <2>5, <2>8, <2>9 DEF AcquireInv
<1> QED
  BY <1>3, <1>4

LEMMA UnlinkKeepsInv ==
    ASSUME AcquireInv, NEW r \in Acquirer, UnlinkPart(r)
    PROVE  AcquireInv'
<1> DEFINE last == next[r] = Len(Payloads[wanted[r]])
<1>1. /\ acquiring[r] = "unlinking" /\ Proceed(r)
      /\ part' = [part EXCEPT ![r] = Absent]
      /\ UNCHANGED <<wanted, payloads, touched>>
  BY DEF UnlinkPart
<1>2. next[r] \in 1..Len(Payloads[wanted[r]]) /\ Len(Payloads[wanted[r]]) \in Nat
  BY PayloadAssumption DEF AcquireInv, AcquireTypes, AcquirerInv, Profiles
<1>3. part'[r] = Absent /\ part' = [part EXCEPT ![r] = part'[r]]
  BY <1>1 DEF AcquireInv, AcquireTypes
<1>4. touched = 0 => \A n \in 1..next[r] : Placed(r, Nth(r, n))'
  <2>1. touched = 0 => /\ \A n \in 1..(next[r] - 1) : Placed(r, Nth(r, n))
                       /\ Placed(r, Nth(r, next[r]))
    BY <1>1 DEF AcquireInv, AcquirerInv, At, Nth
  <2>2. \A n \in 1..next[r] : n = next[r] \/ n \in 1..(next[r] - 1)
    BY <1>2
  <2> QED
    BY <1>1, <2>1, <2>2, PlacedStays
<1>5. next[r] \in Nat /\ next[r] + 1 \in Nat /\ UNCHANGED <<wanted, payloads, touched>>
  BY <1>1, <1>2
<1>6. CASE last
  <2>1. acquiring' = [acquiring EXCEPT ![r] = "acquired"] /\ next' = next
    BY <1>1, <1>6 DEF Proceed, AcquireTo
  <2>2. acquiring'[r] = "acquired" /\ next' = [next EXCEPT ![r] = next[r]]
    BY <2>1 DEF AcquireInv, AcquireTypes
  <2>3. touched' = 0 => \A n \in 1..Len(Payloads[wanted'[r]]) : Placed(r, Nth(r, n))'
    BY <1>1, <1>4, <1>6
  <2>4. next'[r] \in 1..Len(Payloads[wanted'[r]])
    BY <1>1, <1>2, <2>1
  <2>5. AcquirerInv(r)'
    BY <1>3, <2>2, <2>3, <2>4 DEF AcquirerInv
  <2> QED
    BY <1>3, <1>5, <2>1, <2>2, <2>5, MoveKeepsInv
<1>7. CASE ~ last
  <2>1. /\ acquiring' = [acquiring EXCEPT ![r] = "looking"]
        /\ next' = [next EXCEPT ![r] = next[r] + 1]
    BY <1>1, <1>7 DEF Proceed, AcquireTo
  <2>2. acquiring'[r] = "looking" /\ next'[r] = next[r] + 1
    BY <2>1 DEF AcquireInv, AcquireTypes
  <2>3. next'[r] \in 1..Len(Payloads[wanted'[r]]) /\ next'[r] - 1 = next[r]
    BY <1>1, <1>2, <1>7, <2>2
  <2>4. touched' = 0 => \A n \in 1..(next'[r] - 1) : Placed(r, Nth(r, n))'
    BY <1>1, <1>4, <2>3
  <2>5. AcquirerInv(r)'
    BY <1>3, <2>2, <2>3, <2>4 DEF AcquirerInv
  <2> QED
    BY <1>3, <1>5, <2>1, <2>2, <2>5, MoveKeepsInv
<1> QED
  BY <1>6, <1>7

\* A step that ends the work of an acquisition, or leads to its end.
LEMMA StopKeepsInv ==
    ASSUME AcquireInv, NEW r \in Acquirer, NEW step \in {"unwinding", "failed", "dead"},
           acquiring' = [acquiring EXCEPT ![r] = step],
           part' = [part EXCEPT ![r] = part'[r]],
           UNCHANGED <<wanted, next, payloads, touched>>
    PROVE  AcquireInv'
<1>1. acquiring'[r] = step /\ next[r] \in Nat /\ next' = [next EXCEPT ![r] = next[r]]
  BY DEF AcquireInv, AcquireTypes
<1>2. AcquirerInv(r)'
  BY <1>1 DEF AcquireInv, AcquirerInv
<1> QED
  BY <1>1, <1>2, MoveKeepsInv

LEMMA UnwindKeepsInv ==
    ASSUME AcquireInv, NEW r \in Acquirer, UnwindPart(r)
    PROVE  AcquireInv'
<1>1. part' = [part EXCEPT ![r] = part'[r]]
  BY DEF UnwindPart, AcquireInv, AcquireTypes
<1> QED
  BY <1>1, StopKeepsInv DEF UnwindPart, AcquireTo

\* A touched payload relieves the acquisitions of what they placed.
LEMMA TouchKeepsInv ==
    ASSUME AcquireInv, NEW x \in AllPayloads, Touch(x)
    PROVE  AcquireInv'
<1>1. /\ UNCHANGED <<acquiring, wanted, next, part>>
      /\ touched' = touched + 1 /\ touched \in Nat /\ touched' # 0
  BY DEF Touch, acquirerVars, AcquireInv, AcquireTypes
<1>2. payloads' \in [AllPayloads ->
                        {Absent} \cup [content : {"pinned", "other"}, by : Acquirer \cup {Absent}]]
  BY DEF Touch, InPlace, AcquireInv, AcquireTypes
<1>3. AcquireTypes'
  BY <1>1, <1>2 DEF AcquireInv, AcquireTypes
<1>4. ASSUME NEW q \in Acquirer PROVE AcquirerInv(q)'
  BY <1>1 DEF AcquireInv, AcquirerInv
<1> QED
  BY <1>3, <1>4 DEF AcquireInv

LEMMA AcquireNextInv == AcquireInv /\ [ReferenceNext]_referenceVars => AcquireInv'
<1> SUFFICES ASSUME AcquireInv, [ReferenceNext]_referenceVars PROVE AcquireInv'
  OBVIOUS
<1>1. ASSUME UNCHANGED <<acquirerVars, payloads, touched>> PROVE AcquireInv'
  BY <1>1 DEF acquirerVars, AcquireInv, AcquireTypes, AcquirerInv, Placed, Nth, At
<1>2. ASSUME NEW r \in Acquirer, LookForPayload(r) \/ Download(r) PROVE AcquireInv'
  BY <1>2, LookKeepsInv, DownloadKeepsInv
<1>3. ASSUME NEW r \in Acquirer, LinkPayload(r) \/ UnlinkPart(r) \/ UnwindPart(r) PROVE AcquireInv'
  BY <1>3, LinkKeepsInv, UnlinkKeepsInv, UnwindKeepsInv
<1>4. ASSUME NEW r \in Acquirer, PayloadFails(r) \/ AcquirerDies(r) PROVE AcquireInv'
  <2>1. part' = [part EXCEPT ![r] = part'[r]]
    BY <1>4 DEF PayloadFails, AcquirerDies, AcquireInv, AcquireTypes
  <2> QED
    BY <1>4, <2>1, StopKeepsInv DEF PayloadFails, AcquirerDies, AcquireTo
<1>5. ASSUME NEW d \in Demo,
             Analyze(d) \/ VerifyGraph(d) \/ StageInput(d) \/ PublishPackage(d) \/ NextProfile(d)
             \/ DemoStops(d)
      PROVE  AcquireInv'
  BY <1>1, <1>5 DEF Analyze, VerifyGraph, StageInput, PublishPackage, NextProfile, DemoStops, DemoOnly
<1>6. ASSUME NEW x \in AllPayloads, Touch(x) PROVE AcquireInv'
  BY <1>6, TouchKeepsInv
<1>7. CASE UNCHANGED referenceVars
  BY <1>1, <1>7 DEF referenceVars
<1> QED
  BY <1>2, <1>3, <1>4, <1>5, <1>6, <1>7 DEF ReferenceNext

\* An acquisition that reports success placed every payload, and each can be read; a good
\* payload that cannot be read has a second name, left by a call that did not succeed
\* (acquire_profile, _safe_input).
THEOREM AcquiredCanBeReadAlways == ReferenceSpec => []AcquiredCanBeRead
<1>1. AcquireInv => AcquiredCanBeRead
  <2> SUFFICES ASSUME AcquireInv PROVE AcquiredCanBeRead
    OBVIOUS
  <2>1. ASSUME NEW q \in Acquirer, acquiring[q] = "acquired"
        PROVE  part[q] = Absent /\ ~ \E x : LinkedBy(q, x)
    BY <2>1 DEF AcquireInv, AcquirerInv, LinkedBy
  <2>2. ASSUME NEW q \in Acquirer, acquiring[q] = "acquired", ~ touched > 0,
               NEW x \in PayloadsOf(wanted[q])
        PROVE  Readable(x) /\ payloads[x].by = q
    <3>1. touched = 0
      BY <2>2 DEF AcquireInv, AcquireTypes
    <3>2. PICK n \in 1..Len(Payloads[wanted[q]]) : x = Nth(q, n)
      BY DEF PayloadsOf, Nth
    <3>3. payloads[x] = [content |-> "pinned", by |-> q]
      BY <2>2, <3>1, <3>2 DEF AcquireInv, AcquirerInv, Placed
    <3>4. InPlace(x)
      BY <3>3, AbsentAssumption DEF InPlace
    <3>5. \A r \in Acquirer : ~ LinkedBy(r, x)
      BY <2>1, <2>2, <3>3 DEF LinkedBy
    <3>6. Names(x) = 1
      BY <3>5 DEF Names
    <3> QED
      BY <3>3, <3>4, <3>6 DEF Readable
  <2>3. ASSUME NEW x \in AllPayloads, InPlace(x), payloads[x].content = "pinned", ~ Readable(x)
        PROVE  \E q \in Acquirer : acquiring[q] # "acquired" /\ LinkedBy(q, x)
    <3>1. Names(x) # 1
      BY <2>3 DEF Readable
    <3>2. PICK q \in Acquirer : LinkedBy(q, x)
      BY <3>1 DEF Names
    <3> QED
      BY <2>1, <3>2
  <2> QED
    BY <2>2, <2>3 DEF AcquiredCanBeRead
<1> QED
  BY <1>1, AcquireInitInv, AcquireNextInv, PTL DEF ReferenceSpec

-----------------------------------------------------------------------------
(* Demos *)

AllPinned(n) == [i \in 1..n |-> "pinned"]
LastTurn == Len(DemoOrder)
LastOf(d) == Len(Payloads[Profile(d)])

\* The package of profile p is that of the demo, with the graph the demo made.
Has(d, p) ==
    /\ packages[p] # Absent
    /\ packages[p].by = d /\ packages[p].graph = analysed[d][p]

\* The stage of a demo has the pinned payloads it has read, and the demo has published
\* the packages of the profiles whose turn is over.
DemoInv(d) ==
    /\ turn[d] \in 1..LastTurn /\ reading[d] \in 1..LastOf(d)
    /\ building[d] \in {"packaging", "published"} => reading[d] = 1
    /\ building[d] \in {"analysing", "verifying", "published"} => staged[d] = <<>>
    /\ building[d] = "staging" => staged[d] = AllPinned(reading[d] - 1)
    /\ building[d] = "packaging" => staged[d] = AllPinned(LastOf(d))
    /\ \A t \in 1..(turn[d] - 1) : Has(d, DemoOrder[t])
    /\ building[d] \in {"published", "compared"} => Has(d, Profile(d))
    /\ building[d] = "compared" => turn[d] = LastTurn

DemoTypes ==
    /\ building \in [Demo -> {"analysing", "verifying", "staging", "packaging",
                              "published", "compared", "failed"}]
    /\ turn \in [Demo -> Nat] /\ reading \in [Demo -> Nat]
    /\ staged = [d \in Demo |-> staged[d]]
    /\ analysed = [d \in Demo |-> analysed[d]]
    /\ \A d \in Demo : analysed[d] = [p \in Profiles |-> analysed[d][p]]
    /\ packages = [p \in Profiles |-> packages[p]]

\* A package is Absent or has the pinned payloads.
PackagesInv ==
    \A p \in Profiles : packages[p] # Absent =>
        /\ packages[p].graph = packages[p].inputs
        /\ packages[p].graph = AllPinned(Len(Payloads[p]))

ReferenceInv == DemoTypes /\ PackagesInv /\ \A d \in Demo : DemoInv(d)

LEMMA TurnsAreProfiles ==
    /\ LastTurn \in Nat \ {0} /\ DOMAIN DemoOrder = 1..LastTurn
    /\ \A t \in 1..LastTurn : DemoOrder[t] \in Profiles
    /\ \A p \in Profiles : Len(Payloads[p]) \in Nat \ {0}
  BY OrderAssumption, PayloadAssumption DEF LastTurn, Profiles

LEMMA NoPinned == AllPinned(0) = <<>>
  BY DEF AllPinned

LEMMA OneMorePinned ==
    ASSUME NEW n \in Nat
    PROVE  Append(AllPinned(n), "pinned") = AllPinned(n + 1)
<1>1. AllPinned(n) \in Seq({"pinned"}) /\ Len(AllPinned(n)) = n
  BY DEF AllPinned
<1> QED
  BY <1>1 DEF AllPinned

LEMMA DemoInitInv == ReferenceInit => ReferenceInv
<1> SUFFICES ASSUME ReferenceInit PROVE ReferenceInv
  OBVIOUS
<1>1. DemoTypes /\ PackagesInv
  BY DEF ReferenceInit, DemoTypes, PackagesInv
<1>2. ASSUME NEW d \in Demo PROVE DemoInv(d)
  BY TurnsAreProfiles DEF ReferenceInit, DemoInv, LastOf, Profile
<1> QED
  BY <1>1, <1>2 DEF ReferenceInv

\* What one demo does leaves the others as they are, if packages stay.
LEMMA OtherDemosKeepInv ==
    ASSUME ReferenceInv, NEW d \in Demo, DemoTypes', PackagesInv', DemoInv(d)',
           building' = [building EXCEPT ![d] = building'[d]],
           turn' = [turn EXCEPT ![d] = turn'[d]],
           reading' = [reading EXCEPT ![d] = reading'[d]],
           staged' = [staged EXCEPT ![d] = staged'[d]],
           analysed' = [analysed EXCEPT ![d] = analysed'[d]],
           \A p \in Profiles : packages[p] # Absent => packages'[p] = packages[p]
    PROVE  ReferenceInv'
<1>1. ASSUME NEW e \in Demo, e # d PROVE DemoInv(e)'
  <2>1. /\ building'[e] = building[e] /\ turn'[e] = turn[e] /\ reading'[e] = reading[e]
        /\ staged'[e] = staged[e] /\ analysed'[e] = analysed[e]
    BY <1>1 DEF ReferenceInv, DemoTypes
  <2>2. Profile(e)' = Profile(e) /\ LastOf(e)' = LastOf(e)
    BY <2>1 DEF Profile, LastOf
  <2>3. DemoInv(e)
    BY DEF ReferenceInv
  <2>4. \A p \in Profiles : Has(e, p) => Has(e, p)'
    BY <2>1 DEF Has
  <2>5. Profile(e) \in Profiles /\ \A t \in 1..(turn[e] - 1) : DemoOrder[t] \in Profiles
    BY <2>3, TurnsAreProfiles DEF DemoInv, Profile
  <2> QED
    BY <2>1, <2>2, <2>3, <2>4, <2>5 DEF DemoInv
<1> QED
  BY <1>1 DEF ReferenceInv

\* Where a demo is: at a profile, whose turn it was not before, and at one of its payloads.
LEMMA WhereDemoIs ==
    ASSUME ReferenceInv, NEW d \in Demo
    PROVE  /\ turn[d] \in 1..LastTurn /\ turn[d] \in Nat
           /\ Profile(d) \in Profiles
           /\ LastOf(d) \in Nat \ {0} /\ reading[d] \in 1..LastOf(d) /\ reading[d] \in Nat
           /\ \A t \in 1..(turn[d] - 1) : DemoOrder[t] \in Profiles /\ DemoOrder[t] # Profile(d)
<1>1. DemoInv(d)
  BY DEF ReferenceInv
<1>2. turn[d] \in 1..LastTurn /\ turn[d] \in Nat /\ Profile(d) \in Profiles
  BY <1>1, TurnsAreProfiles DEF DemoInv, Profile
<1>3. LastOf(d) \in Nat \ {0} /\ reading[d] \in 1..LastOf(d) /\ reading[d] \in Nat
  BY <1>1, <1>2, TurnsAreProfiles DEF DemoInv, LastOf
<1>4. ASSUME NEW t \in 1..(turn[d] - 1)
      PROVE  DemoOrder[t] \in Profiles /\ DemoOrder[t] # Profile(d)
  <2>1. t \in 1..LastTurn /\ t # turn[d]
    BY <1>2, TurnsAreProfiles
  <2> QED
    BY <1>2, <2>1, TurnsAreProfiles, OrderAssumption DEF Profile
<1> QED
  BY <1>2, <1>3, <1>4

\* The next payload, or the next step after the last.
LEMMA AdvanceIs ==
    ASSUME ReferenceInv, NEW d \in Demo, NEW step, Advance(d, step)
    PROVE  /\ building' = [building EXCEPT ![d] = building'[d]]
           /\ reading' = [reading EXCEPT ![d] = reading'[d]]
           /\ reading'[d] \in 1..LastOf(d) /\ reading'[d] \in Nat
           /\ \/ reading[d] = LastOf(d) /\ reading'[d] = 1 /\ building'[d] = step
              \/ reading'[d] = reading[d] + 1 /\ building'[d] = building[d]
<1>1. /\ LastOf(d) \in Nat \ {0} /\ reading[d] \in 1..LastOf(d) /\ reading[d] \in Nat
      /\ DOMAIN building = Demo /\ DOMAIN reading = Demo
  BY WhereDemoIs DEF ReferenceInv, DemoTypes
<1>2. CASE reading[d] = LastOf(d)
  BY <1>1, <1>2 DEF Advance, IsLast, LastOf, BuildTo, ReferenceInv, DemoTypes
<1>3. CASE reading[d] # LastOf(d)
  BY <1>1, <1>3 DEF Advance, IsLast, LastOf, BuildTo, ReferenceInv, DemoTypes
<1> QED
  BY <1>2, <1>3

\* A demo that has failed has but to be at a profile.
LEMMA FailedKeepsInv ==
    ASSUME ReferenceInv, NEW d \in Demo,
           building' = [building EXCEPT ![d] = "failed"],
           staged' = [staged EXCEPT ![d] = staged'[d]],
           UNCHANGED <<turn, reading, analysed, packages>>
    PROVE  ReferenceInv'
<1>1. building'[d] = "failed" /\ Profile(d)' = Profile(d) /\ LastOf(d)' = LastOf(d)
  BY DEF ReferenceInv, DemoTypes, Profile, LastOf
<1>2. DemoTypes' /\ PackagesInv'
  BY DEF ReferenceInv, DemoTypes, PackagesInv
<1>3. \A p : Has(d, p)' <=> Has(d, p)
  BY DEF Has
<1>4. DemoInv(d)'
  BY <1>1, <1>3 DEF ReferenceInv, DemoInv
<1>5. /\ building' = [building EXCEPT ![d] = building'[d]]
      /\ turn' = [turn EXCEPT ![d] = turn'[d]]
      /\ reading' = [reading EXCEPT ![d] = reading'[d]]
      /\ analysed' = [analysed EXCEPT ![d] = analysed'[d]]
  BY <1>1 DEF ReferenceInv, DemoTypes
<1> QED
  BY <1>2, <1>4, <1>5, OtherDemosKeepInv

\* A demo that goes on at its profile, and has staged what it should have.
LEMMA ReadKeepsInv ==
    ASSUME ReferenceInv, NEW d \in Demo, NEW step \in {"verifying", "staging", "packaging"},
           building[d] \in {"analysing", "verifying", "staging"},
           Advance(d, step),
           staged' = [staged EXCEPT ![d] = staged'[d]],
           analysed' = [analysed EXCEPT ![d] = analysed'[d]],
           analysed'[d] = [p \in Profiles |-> analysed'[d][p]],
           \A p \in Profiles : p # Profile(d) => analysed'[d][p] = analysed[d][p],
           UNCHANGED <<turn, packages>>,
           building'[d] \in {"analysing", "verifying"} => staged'[d] = <<>>,
           building'[d] = "staging" => staged'[d] = AllPinned(reading'[d] - 1),
           building'[d] = "packaging" => staged'[d] = AllPinned(LastOf(d))
    PROVE  ReferenceInv'
<1>1. /\ building' = [building EXCEPT ![d] = building'[d]]
      /\ reading' = [reading EXCEPT ![d] = reading'[d]]
      /\ reading'[d] \in 1..LastOf(d) /\ reading'[d] \in Nat
      /\ (building'[d] = step /\ reading'[d] = 1) \/ building'[d] = building[d]
  BY AdvanceIs
<1>2. Profile(d)' = Profile(d) /\ LastOf(d)' = LastOf(d) /\ turn'[d] = turn[d]
  BY DEF Profile, LastOf
<1>3. /\ building'[d] \in {"analysing", "verifying", "staging", "packaging"}
      /\ building'[d] = "packaging" => reading'[d] = 1
  <2>1. CASE building'[d] = step /\ reading'[d] = 1
    BY <2>1
  <2>2. CASE building'[d] = building[d]
    BY <2>2
  <2> QED
    BY <1>1, <2>1, <2>2
<1>4. DemoTypes' /\ PackagesInv'
  <2>1. /\ building' \in [Demo -> {"analysing", "verifying", "staging", "packaging",
                                   "published", "compared", "failed"}]
        /\ turn' \in [Demo -> Nat] /\ reading' \in [Demo -> Nat]
    BY <1>1, <1>3 DEF ReferenceInv, DemoTypes
  <2>2. /\ staged' = [e \in Demo |-> staged'[e]]
        /\ analysed' = [e \in Demo |-> analysed'[e]]
        /\ \A e \in Demo : analysed'[e] = [p \in Profiles |-> analysed'[e][p]]
    BY DEF ReferenceInv, DemoTypes
  <2>3. PackagesInv' /\ packages' = [p \in Profiles |-> packages'[p]]
    BY DEF ReferenceInv, DemoTypes, PackagesInv
  <2> QED
    BY <2>1, <2>2, <2>3 DEF DemoTypes
<1>5. /\ \A t \in 1..(turn[d] - 1) : DemoOrder[t] \in Profiles /\ DemoOrder[t] # Profile(d)
      /\ turn[d] \in 1..LastTurn
  BY WhereDemoIs
<1>6. \A t \in 1..(turn[d] - 1) : Has(d, DemoOrder[t])'
  BY <1>5 DEF Has, ReferenceInv, DemoInv
<1>7. DemoInv(d)'
  BY <1>1, <1>2, <1>3, <1>5, <1>6 DEF DemoInv
<1>8. turn' = [turn EXCEPT ![d] = turn'[d]]
  BY DEF ReferenceInv, DemoTypes
<1> QED
  BY <1>1, <1>4, <1>7, <1>8, OtherDemosKeepInv

LEMMA AnalyzeKeepsInv ==
    ASSUME ReferenceInv, NEW d \in Demo, Analyze(d)
    PROVE  ReferenceInv'
<1>1. /\ building[d] = "analysing" /\ UNCHANGED <<turn, staged, packages>>
      /\ staged' = [staged EXCEPT ![d] = staged'[d]]
  BY DEF Analyze, ReferenceInv, DemoTypes
<1>2. CASE Readable(Reads(d))
  <2>1. /\ analysed' = [analysed EXCEPT ![d][Profile(d)] = Append(@, Seen(d))]
        /\ Advance(d, "verifying")
    BY <1>2 DEF Analyze
  <2>2. /\ analysed' = [analysed EXCEPT ![d] = analysed'[d]]
        /\ analysed'[d] = [p \in Profiles |-> analysed'[d][p]]
        /\ \A p \in Profiles : p # Profile(d) => analysed'[d][p] = analysed[d][p]
    BY <2>1, WhereDemoIs DEF ReferenceInv, DemoTypes
  <2>3. staged'[d] = <<>> /\ building'[d] \in {"analysing", "verifying"}
    BY <1>1, <2>1, AdvanceIs DEF ReferenceInv, DemoInv
  <2> QED
    BY <1>1, <2>1, <2>2, <2>3, ReadKeepsInv
<1>3. CASE ~ Readable(Reads(d))
  BY <1>1, <1>3, FailedKeepsInv DEF Analyze, DemoFails, BuildTo
<1> QED
  BY <1>2, <1>3

LEMMA VerifyKeepsInv ==
    ASSUME ReferenceInv, NEW d \in Demo, VerifyGraph(d)
    PROVE  ReferenceInv'
<1>1. /\ building[d] = "verifying" /\ UNCHANGED <<turn, analysed, staged, packages>>
      /\ staged' = [staged EXCEPT ![d] = staged'[d]]
      /\ analysed' = [analysed EXCEPT ![d] = analysed'[d]]
      /\ analysed'[d] = [p \in Profiles |-> analysed'[d][p]]
  BY DEF VerifyGraph, ReferenceInv, DemoTypes
<1>2. CASE Advance(d, "staging")
  <2>1. \/ building'[d] = "verifying"
        \/ building'[d] = "staging" /\ reading'[d] = 1
    BY <1>1, <1>2, AdvanceIs
  <2>2. staged'[d] = <<>> /\ AllPinned(1 - 1) = <<>>
    BY <1>1, NoPinned DEF ReferenceInv, DemoInv
  <2> QED
    BY <1>1, <1>2, <2>1, <2>2, ReadKeepsInv
<1>3. CASE DemoFails(d)
  BY <1>1, <1>3, FailedKeepsInv DEF DemoFails, BuildTo
<1> QED
  BY <1>2, <1>3 DEF VerifyGraph

\* An input is staged only if it is the pinned one.
LEMMA StageKeepsInv ==
    ASSUME ReferenceInv, NEW d \in Demo, StageInput(d)
    PROVE  ReferenceInv'
<1>1. /\ building[d] = "staging" /\ UNCHANGED <<turn, analysed, packages>>
      /\ analysed' = [analysed EXCEPT ![d] = analysed'[d]]
      /\ analysed'[d] = [p \in Profiles |-> analysed'[d][p]]
  BY DEF StageInput, ReferenceInv, DemoTypes
<1>2. CASE Readable(Reads(d))
  <2>1. staged' = [staged EXCEPT ![d] = Append(@, Seen(d))] /\ Advance(d, "packaging")
    BY <1>2 DEF StageInput
  <2>2. Seen(d) = "pinned"
    BY <1>2 DEF Readable, Seen
  <2>3. /\ reading[d] \in 1..LastOf(d) /\ reading[d] \in Nat /\ LastOf(d) \in Nat
        /\ reading[d] - 1 \in Nat /\ (reading[d] - 1) + 1 = reading[d]
    BY WhereDemoIs
  <2>4. staged[d] = AllPinned(reading[d] - 1)
    BY <1>1 DEF ReferenceInv, DemoInv
  <2>5. Append(AllPinned(reading[d] - 1), "pinned") = AllPinned(reading[d])
    BY <2>3, OneMorePinned
  <2>6. staged'[d] = AllPinned(reading[d]) /\ staged' = [staged EXCEPT ![d] = staged'[d]]
    BY <2>1, <2>2, <2>4, <2>5 DEF ReferenceInv, DemoTypes
  <2>7. \/ building'[d] = "packaging" /\ reading[d] = LastOf(d)
        \/ building'[d] = "staging" /\ reading'[d] - 1 = reading[d]
    BY <1>1, <2>1, <2>3, AdvanceIs
  <2> QED
    BY <1>1, <2>1, <2>6, <2>7, ReadKeepsInv
<1>3. CASE ~ Readable(Reads(d))
  <2>1. DemoFails(d) /\ staged' = [staged EXCEPT ![d] = <<>>]
    BY <1>3 DEF StageInput
  <2>2. staged' = [staged EXCEPT ![d] = staged'[d]]
    BY <2>1 DEF ReferenceInv, DemoTypes
  <2> QED
    BY <1>1, <2>1, <2>2, FailedKeepsInv DEF DemoFails, BuildTo
<1> QED
  BY <1>2, <1>3

\* A package is published only where there is none.
LEMMA PublishKeepsInv ==
    ASSUME ReferenceInv, NEW d \in Demo, PublishPackage(d)
    PROVE  ReferenceInv'
<1> DEFINE p == Profile(d)
           new == [by |-> d, inputs |-> staged[d], graph |-> analysed[d][p]]
<1>1. /\ building[d] = "packaging" /\ UNCHANGED <<turn, reading, analysed>>
      /\ staged' = [staged EXCEPT ![d] = <<>>]
      /\ staged'[d] = <<>> /\ staged' = [staged EXCEPT ![d] = staged'[d]]
  BY DEF PublishPackage, ReferenceInv, DemoTypes
<1>2. CASE staged[d] = analysed[d][p] /\ packages[p] = Absent
  <2>1. packages' = [packages EXCEPT ![p] = new] /\ building' = [building EXCEPT ![d] = "published"]
    BY <1>2 DEF PublishPackage, BuildTo
  <2>2. p \in Profiles
    BY WhereDemoIs
  <2>3. /\ packages'[p] = new /\ building'[d] = "published"
        /\ \A q \in Profiles : q # p => packages'[q] = packages[q]
        /\ building' = [building EXCEPT ![d] = building'[d]]
    BY <2>1, <2>2 DEF ReferenceInv, DemoTypes
  <2>4. staged[d] = AllPinned(LastOf(d)) /\ reading[d] = 1
    BY <1>1 DEF ReferenceInv, DemoInv
  <2>5. DemoTypes'
    BY <1>1, <2>1, <2>2 DEF ReferenceInv, DemoTypes
  <2>6. new.graph = AllPinned(Len(Payloads[p])) /\ new.inputs = new.graph
    BY <1>2, <2>4 DEF LastOf
  <2>7. PackagesInv'
    BY <2>3, <2>6 DEF PackagesInv, ReferenceInv
  <2>8. \A q \in Profiles : packages[q] # Absent => packages'[q] = packages[q]
    BY <1>2, <2>3
  <2>9. Has(d, p)'
    <3>1. AllPinned(LastOf(d)) \in Seq({"pinned"})
      BY WhereDemoIs DEF AllPinned
    <3>2. staged[d] \in Seq({"pinned"}) /\ analysed[d][p] = staged[d]
      BY <1>2, <2>4, <3>1
    <3>3. new \in [by : Demo, inputs : Seq({"pinned"}), graph : Seq({"pinned"})]
      BY <3>2
    <3> HIDE DEF p, new
    <3>4. new # Absent
      BY <3>3, AbsentAssumption
    <3>5. new.by = d /\ new.graph = analysed[d][p]
      BY DEF new
    <3>6. p' = p
      BY <1>1 DEF p, Profile
    <3> QED
      BY <1>1, <2>3, <3>4, <3>5, <3>6 DEF Has
  <2>10. \A t \in 1..(turn[d] - 1) : Has(d, DemoOrder[t])'
    BY <1>1, <2>8, WhereDemoIs DEF Has, ReferenceInv, DemoInv
  <2>11. DemoInv(d)'
    BY <1>1, <2>3, <2>4, <2>9, <2>10, WhereDemoIs DEF DemoInv, Profile, LastOf
  <2>12. /\ turn' = [turn EXCEPT ![d] = turn'[d]] /\ reading' = [reading EXCEPT ![d] = reading'[d]]
         /\ analysed' = [analysed EXCEPT ![d] = analysed'[d]]
    BY <1>1 DEF ReferenceInv, DemoTypes
  <2> QED
    BY <1>1, <2>3, <2>5, <2>7, <2>8, <2>11, <2>12, OtherDemosKeepInv
<1>3. CASE ~ (staged[d] = analysed[d][p] /\ packages[p] = Absent)
  <2>1. building' = [building EXCEPT ![d] = "failed"] /\ packages' = packages
    BY <1>3 DEF PublishPackage, BuildTo
  <2> QED
    BY <1>1, <2>1, FailedKeepsInv
<1> QED
  BY <1>2, <1>3

LEMMA NextProfileKeepsInv ==
    ASSUME ReferenceInv, NEW d \in Demo, NextProfile(d)
    PROVE  ReferenceInv'
<1>1. building[d] = "published" /\ UNCHANGED <<reading, analysed, staged, packages>>
  BY DEF NextProfile
<1>2. /\ reading[d] = 1 /\ staged[d] = <<>> /\ Has(d, Profile(d))
      /\ \A t \in 1..(turn[d] - 1) : Has(d, DemoOrder[t])
      /\ turn[d] \in 1..LastTurn /\ turn[d] \in Nat
  BY <1>1, WhereDemoIs DEF ReferenceInv, DemoInv
<1>3. \A p : Has(d, p)' <=> Has(d, p)
  BY <1>1 DEF Has
<1>4. /\ reading' = [reading EXCEPT ![d] = reading'[d]]
      /\ staged' = [staged EXCEPT ![d] = staged'[d]]
      /\ analysed' = [analysed EXCEPT ![d] = analysed'[d]]
  BY <1>1 DEF ReferenceInv, DemoTypes
<1>5. PackagesInv'
  BY <1>1 DEF ReferenceInv, PackagesInv
<1>6. CASE turn[d] < LastTurn
  <2>1. building' = [building EXCEPT ![d] = "analysing"] /\ turn' = [turn EXCEPT ![d] = turn[d] + 1]
    BY <1>6 DEF NextProfile, BuildTo, LastTurn
  <2>2. /\ building'[d] = "analysing" /\ turn'[d] = turn[d] + 1
        /\ building' = [building EXCEPT ![d] = building'[d]]
        /\ turn' = [turn EXCEPT ![d] = turn'[d]]
    BY <2>1 DEF ReferenceInv, DemoTypes
  <2>3. DemoTypes'
    BY <1>1, <1>2, <2>1 DEF ReferenceInv, DemoTypes
  <2>4. turn'[d] \in 1..LastTurn /\ \A t \in 1..(turn'[d] - 1) : t = turn[d] \/ t \in 1..(turn[d] - 1)
    BY <1>2, <1>6, <2>2, TurnsAreProfiles
  <2>5. \A t \in 1..(turn'[d] - 1) : Has(d, DemoOrder[t])'
    BY <1>2, <1>3, <2>4 DEF Profile
  <2>6. reading'[d] \in 1..(LastOf(d)')
    BY <1>1, <1>2, <2>4, TurnsAreProfiles DEF LastOf, Profile
  <2>7. DemoInv(d)'
    BY <1>1, <1>2, <2>2, <2>4, <2>5, <2>6 DEF DemoInv
  <2> QED
    BY <1>1, <1>4, <1>5, <2>2, <2>3, <2>7, OtherDemosKeepInv
<1>7. CASE ~ turn[d] < LastTurn
  <2>1. building' = [building EXCEPT ![d] = "compared"] /\ turn' = turn
    BY <1>7 DEF NextProfile, BuildTo, LastTurn
  <2>2. /\ building'[d] = "compared" /\ turn'[d] = turn[d]
        /\ building' = [building EXCEPT ![d] = building'[d]]
        /\ turn' = [turn EXCEPT ![d] = turn'[d]]
    BY <2>1 DEF ReferenceInv, DemoTypes
  <2>3. DemoTypes'
    BY <1>1, <2>1 DEF ReferenceInv, DemoTypes
  <2>4. turn[d] = LastTurn
    BY <1>2, <1>7, TurnsAreProfiles
  <2>5. Profile(d)' = Profile(d) /\ LastOf(d)' = LastOf(d) /\ reading[d] \in 1..LastOf(d)
    BY <2>1, WhereDemoIs DEF Profile, LastOf
  <2>6. DemoInv(d)'
    BY <1>1, <1>2, <1>3, <2>2, <2>4, <2>5 DEF DemoInv
  <2> QED
    BY <1>1, <1>4, <1>5, <2>2, <2>3, <2>6, OtherDemosKeepInv
<1> QED
  BY <1>6, <1>7

LEMMA DemoNextInv == ReferenceInv /\ [ReferenceNext]_referenceVars => ReferenceInv'
<1> SUFFICES ASSUME ReferenceInv, [ReferenceNext]_referenceVars PROVE ReferenceInv'
  OBVIOUS
<1>1. ASSUME UNCHANGED demoVars PROVE ReferenceInv'
  BY <1>1 DEF demoVars, ReferenceInv, DemoTypes, PackagesInv, DemoInv, Has, Profile, LastOf
<1>2. ASSUME NEW q \in Acquirer,
             LookForPayload(q) \/ Download(q) \/ LinkPayload(q) \/ UnlinkPart(q)
             \/ PayloadFails(q) \/ UnwindPart(q) \/ AcquirerDies(q)
      PROVE  ReferenceInv'
  BY <1>1, <1>2 DEF LookForPayload, Download, LinkPayload, UnlinkPart, PayloadFails, UnwindPart,
     AcquirerDies
<1>3. ASSUME NEW d \in Demo, Analyze(d) \/ VerifyGraph(d) \/ StageInput(d) PROVE ReferenceInv'
  BY <1>3, AnalyzeKeepsInv, VerifyKeepsInv, StageKeepsInv
<1>4. ASSUME NEW d \in Demo, PublishPackage(d) \/ NextProfile(d) PROVE ReferenceInv'
  BY <1>4, PublishKeepsInv, NextProfileKeepsInv
<1>5. ASSUME NEW d \in Demo, DemoStops(d) PROVE ReferenceInv'
  <2>1. /\ building' = [building EXCEPT ![d] = "failed"]
        /\ UNCHANGED <<turn, reading, analysed, packages>>
        /\ staged' = [staged EXCEPT ![d] = staged'[d]]
    BY <1>5 DEF DemoStops, BuildTo, ReferenceInv, DemoTypes
  <2> QED
    BY <2>1, FailedKeepsInv
<1>6. ASSUME NEW x \in AllPayloads, Touch(x) PROVE ReferenceInv'
  BY <1>1, <1>6 DEF Touch
<1>7. CASE UNCHANGED referenceVars
  BY <1>1, <1>7 DEF referenceVars
<1> QED
  BY <1>2, <1>3, <1>4, <1>5, <1>6, <1>7 DEF ReferenceNext

\* A published package has the pinned payloads and the graph made of them, however often
\* payloads are edited between the readings (analyze_reference, snapshot_profile_inputs,
\* write_reference_package).
THEOREM PackageIsOfItsProfileAlways == ReferenceSpec => []PackageIsOfItsProfile
<1>1. ReferenceInv => PackageIsOfItsProfile
  BY DEF ReferenceInv, PackagesInv, PackageIsOfItsProfile, AllPinned
<1> QED
  BY <1>1, DemoInitInv, DemoNextInv, PTL DEF ReferenceSpec

\* A demo that ends has published the package of every profile it compared
\* (yocto-reference-demo).
THEOREM ComparedIsPublishedAlways == ReferenceSpec => []ComparedIsPublished
<1>1. ReferenceInv => ComparedIsPublished
  <2> SUFFICES ASSUME ReferenceInv, NEW d \in Demo, building[d] = "compared", NEW p \in Profiles
               PROVE  packages[p].by = d /\ packages[p].graph = analysed[d][p]
    BY DEF ComparedIsPublished
  <2>1. /\ turn[d] = LastTurn /\ Has(d, Profile(d))
        /\ \A t \in 1..(LastTurn - 1) : Has(d, DemoOrder[t])
    BY DEF ReferenceInv, DemoInv
  <2>2. PICK t \in 1..LastTurn : DemoOrder[t] = p
    BY OrderAssumption, TurnsAreProfiles DEF Profiles
  <2>3. t = LastTurn \/ t \in 1..(LastTurn - 1)
    BY TurnsAreProfiles
  <2>4. Has(d, p)
    BY <2>1, <2>2, <2>3 DEF Profile
  <2> QED
    BY <2>4 DEF Has
<1> QED
  BY <1>1, DemoInitInv, DemoNextInv, PTL DEF ReferenceSpec

-----------------------------------------------------------------------------
(* Sets with one element *)

\* The only element of a set that has one.
LEMMA OnlyIsMember ==
    ASSUME NEW S, NEW x \in S, ~ Several(S), NEW other
    PROVE  Only(S, other) = x
  BY DEF Only, Several

\* What Only returns, if that is not the default, is in the set.
LEMMA OnlyIsIn ==
    ASSUME NEW S, NEW other, Only(S, other) # other
    PROVE  Only(S, other) \in S
  BY DEF Only

-----------------------------------------------------------------------------
(* Files *)

\* The hash at the path of a file that is the only one with it.
LEMMA HashOfTheOnly ==
    ASSUME NEW files, NEW f \in files, \A e \in files : e.path = f.path => e = f
    PROVE  HashAt(files, f.path) = f.hash
<1>1. (CHOOSE e \in files : e.path = f.path) = f
  OBVIOUS
<1> QED
  BY <1>1 DEF HashAt

\* The document has one entry for each path.
LEMMA ExpectedHash ==
    ASSUME NEW b, NEW f \in b.rootFiles, NEW path, path = b.files[f].path
    PROVE  /\ \E e \in Expected(b) : e.path = path
           /\ HashAt(Expected(b), path) = Only(Known(HashesAt(b, path)), Unknown)
<1> DEFINE E(q) == [path |-> q, hash |-> Only(Known(HashesAt(b, q)), Unknown),
                    owners |-> Owners(b, q)]
<1>1. E(path) \in Expected(b)
  BY DEF Expected
<1>2. ASSUME NEW e \in Expected(b), e.path = path
      PROVE  e = E(path)
  <2>1. PICK q \in {b.files[g].path : g \in b.rootFiles} : e = E(q)
    BY DEF Expected
  <2>2. q = path
    BY <1>2, <2>1
  <2> QED
    BY <2>1, <2>2
<1>3. E(path).path = path /\ E(path).hash = Only(Known(HashesAt(b, path)), Unknown)
  OBVIOUS
<1> HIDE DEF E
<1>4. HashAt(Expected(b), E(path).path) = E(path).hash
  BY <1>1, <1>2, <1>3, HashOfTheOnly
<1> QED
  BY <1>1, <1>3, <1>4

\* The archive has one member for each path.
LEMMA ObservedHash ==
    ASSUME NEW b, ArchiveAdmitted(b), NEW x \in b.archive, x.kind = "file"
    PROVE  /\ \E o \in Observed(b) : o.path = x.path
           /\ HashAt(Observed(b), x.path) = x.content
<1> DEFINE O(y) == [path |-> y.path, hash |-> y.content]
<1>1. O(x) \in Observed(b)
  BY DEF Observed
<1>2. ASSUME NEW o \in Observed(b), o.path = x.path
      PROVE  o = O(x)
  <2>1. PICK y \in b.archive : y.kind = "file" /\ o = O(y)
    BY DEF Observed
  <2>2. y = x
    BY <1>2, <2>1 DEF ArchiveAdmitted
  <2> QED
    BY <2>1, <2>2
<1>3. O(x).path = x.path /\ O(x).hash = x.content
  OBVIOUS
<1> HIDE DEF O
<1>4. HashAt(Observed(b), O(x).path) = O(x).hash
  BY <1>1, <1>2, <1>3, HashOfTheOnly
<1> QED
  BY <1>1, <1>3, <1>4

-----------------------------------------------------------------------------
(* A closed graph *)

\* The state of a closed graph is that of its findings.
LEMMA ClosedMatches ==
    ASSUME NEW b, NEW g, GraphVerifies(g, b), g.state = "CLOSED"
    PROVE  /\ \A f \in ComponentFindings(Lanes(b)) : f.status = "MATCHED"
           /\ \A f \in FileFindings(Lanes(b)) : f.status = "MATCHED"
<1> DEFINE all == ComponentFindings(Lanes(b)) \cup FileFindings(Lanes(b))
<1>1. g.state = Verdict(all)
  BY DEF GraphVerifies, Graph
<1>2. \A f \in all : f.status = "MATCHED"
  BY <1>1 DEF Verdict
<1> QED
  BY <1>2

\* Every path of the document and of the archive is matched.
LEMMA PathsMatch ==
    ASSUME NEW b, \A f \in FileFindings(Lanes(b)) : f.status = "MATCHED",
           NEW path,
           (\E e \in Expected(b) : e.path = path) \/ (\E o \in Observed(b) : o.path = path)
    PROVE  /\ \E e \in Expected(b) : e.path = path
           /\ \E o \in Observed(b) : o.path = path
           /\ HashAt(Expected(b), path) # Unknown
           /\ HashAt(Expected(b), path) = HashAt(Observed(b), path)
<1> DEFINE l == Lanes(b)
<1>1. l.expected = Expected(b) /\ l.observed = Observed(b)
  BY DEF Lanes
<1>2. Finding("ROOTFS_FILE", [path |-> path], FileStatus(l, path)) \in FileFindings(l)
  BY <1>1 DEF FileFindings
<1>3. FileStatus(l, path) = "MATCHED"
  BY <1>2 DEF Finding
<1> QED
  BY <1>1, <1>3 DEF FileStatus

\* The files of a closed graph.
LEMMA FilesSayTheSame ==
    ASSUME NEW b, Admitted(b), \A f \in FileFindings(Lanes(b)) : f.status = "MATCHED"
    PROVE  /\ \A f \in b.rootFiles :
                  \E x \in b.archive : /\ x.kind = "file" /\ x.path = b.files[f].path
                                       /\ b.files[f].hash \in {x.content, Unknown}
           /\ \A x \in b.archive : x.kind = "file" =>
                  \E f \in b.rootFiles : b.files[f].path = x.path /\ b.files[f].hash = x.content
<1> USE DEF Admitted
<1>1. ASSUME NEW f \in b.rootFiles
      PROVE  \E x \in b.archive : /\ x.kind = "file" /\ x.path = b.files[f].path
                                  /\ b.files[f].hash \in {x.content, Unknown}
  <2> DEFINE path == b.files[f].path
             known == Known(HashesAt(b, path))
  <2>1. /\ \E o \in Observed(b) : o.path = path
        /\ Only(known, Unknown) = HashAt(Observed(b), path)
    BY ExpectedHash, PathsMatch
  <2>2. PICK x \in b.archive : x.kind = "file" /\ x.path = path
    BY <2>1 DEF Observed
  <2>3. HashAt(Observed(b), path) = x.content
    BY <2>2, ObservedHash
  <2>4. CASE b.files[f].hash = Unknown
    BY <2>2, <2>4
  <2>5. CASE b.files[f].hash # Unknown
    <3>1. b.files[f].hash \in known
      BY <2>5 DEF Known, HashesAt
    <3>2. ~ Several(known)
      BY DEF DocumentAdmitted
    <3>3. Only(known, Unknown) = b.files[f].hash
      BY <3>1, <3>2, OnlyIsMember
    <3> QED
      BY <2>1, <2>2, <2>3, <3>3
  <2> QED
    BY <2>4, <2>5
<1>2. ASSUME NEW x \in b.archive, x.kind = "file"
      PROVE  \E f \in b.rootFiles : b.files[f].path = x.path /\ b.files[f].hash = x.content
  <2> DEFINE known == Known(HashesAt(b, x.path))
  <2>1. /\ \E o \in Observed(b) : o.path = x.path
        /\ HashAt(Observed(b), x.path) = x.content
    BY <1>2, ObservedHash
  <2>2. /\ \E e \in Expected(b) : e.path = x.path
        /\ HashAt(Expected(b), x.path) # Unknown
        /\ HashAt(Expected(b), x.path) = x.content
    BY <2>1, PathsMatch
  <2>3. PICK f \in b.rootFiles : b.files[f].path = x.path
    BY <2>2 DEF Expected
  <2>4. HashAt(Expected(b), x.path) = Only(known, Unknown)
    BY <2>3, ExpectedHash
  <2>5. x.content \in known
    BY <2>2, <2>4, OnlyIsIn
  <2> QED
    BY <2>5 DEF Known, HashesAt
<1> QED
  BY <1>1, <1>2

-----------------------------------------------------------------------------
(* The components of a closed graph *)

\* The SPDX packages that match an installed one.
LEMMA MatchesOfLanes ==
    ASSUME NEW b, NEW m
    PROVE  Matches(Lanes(b), m) = {i \in DOMAIN b.packages : b.packages[i].name = m.name}
<1> DEFINE l == Lanes(b)
<1>1. DOMAIN l.packages = DOMAIN b.packages
  BY DEF Lanes
<1>2. \A i \in DOMAIN b.packages : l.packages[i].name = b.packages[i].name
  BY DEF Lanes
<1> HIDE DEF l
<1> QED
  BY <1>1, <1>2 DEF Matches, l

\* Installed packages have distinct keys.
LEMMA KeysAreDistinct ==
    ASSUME NEW b, ManifestAdmitted(b), NEW m \in b.manifest, NEW n \in b.manifest,
           Key(m) = Key(n)
    PROVE  m = n
<1>1. Key(m).name = m.name /\ Key(n).name = n.name
  BY DEF Key
<1> QED
  BY <1>1 DEF ManifestAdmitted

\* Each installed package of a closed graph matches one SPDX package, with its producer.
LEMMA ComponentsMatch ==
    ASSUME NEW b, \A f \in ComponentFindings(Lanes(b)) : f.status = "MATCHED",
           NEW m \in b.manifest
    PROVE  Matched(Lanes(b), m) /\ Producer(Lanes(b), m) # Unknown
<1> DEFINE l == Lanes(b)
<1>1. l.manifest = b.manifest
  BY DEF Lanes
<1>2. Matched(l, m)
  <2> DEFINE status == IF Matches(l, m) = {} THEN "MISSING_FROM_SBOM"
                       ELSE IF Matched(l, m) THEN "MATCHED" ELSE "UNKNOWN"
  <2>1. Finding("COMPONENT_IDENTITY", Key(m), status) \in ComponentFindings(l)
    BY <1>1 DEF ComponentFindings
  <2>2. status = "MATCHED"
    BY <2>1 DEF Finding
  <2> QED
    BY <2>2
<1>3. Entry(l, m).producer # Unknown
  <2>1. SUFFICES ASSUME Entry(l, m).producer = Unknown PROVE FALSE
    OBVIOUS
  <2>2. Finding("COMPONENT_FIELD", Key(m), "UNKNOWN") \in ComponentFindings(l)
    BY <1>1, <2>1 DEF ComponentFindings
  <2> QED
    BY <2>2 DEF Finding
<1>4. Entry(l, m).producer = Producer(l, m)
  BY <1>2 DEF Entry
<1> QED
  BY <1>2, <1>3, <1>4

\* A closed graph has one SPDX package for each installed one and none besides.
LEMMA PackagesSayTheSame ==
    ASSUME NEW b, \A f \in ComponentFindings(Lanes(b)) : f.status = "MATCHED"
    PROVE  /\ \A m \in b.manifest : \E i \in DOMAIN b.packages :
                  /\ b.packages[i].producer # Unknown
                  /\ \A j \in DOMAIN b.packages : (b.packages[j].name = m.name) <=> (j = i)
           /\ \A i \in DOMAIN b.packages : \E m \in b.manifest : m.name = b.packages[i].name
<1> DEFINE l == Lanes(b)
<1>1. DOMAIN l.packages = DOMAIN b.packages /\ l.manifest = b.manifest
  BY DEF Lanes
<1>2. \A i \in DOMAIN b.packages : /\ l.packages[i].name = b.packages[i].name
                                   /\ l.packages[i].producer = b.packages[i].producer
  BY DEF Lanes
<1>3. ASSUME NEW m \in b.manifest
      PROVE  \E i \in DOMAIN b.packages :
                 /\ b.packages[i].producer # Unknown
                 /\ \A j \in DOMAIN b.packages : (b.packages[j].name = m.name) <=> (j = i)
  <2>1. Matched(l, m) /\ Producer(l, m) # Unknown
    BY ComponentsMatch
  <2>2. Matches(l, m) = {i \in DOMAIN b.packages : b.packages[i].name = m.name}
    BY MatchesOfLanes
  <2> HIDE DEF l
  <2>3. Producer(l, m) \in {l.packages[i].producer : i \in Matches(l, m)}
    BY <2>1, OnlyIsIn DEF Producer
  <2>4. PICK i \in Matches(l, m) : l.packages[i].producer # Unknown
    BY <2>1, <2>3
  <2>5. \A j \in Matches(l, m) : j = i
    BY <2>1 DEF Matched, Several
  <2> QED
    BY <1>2, <2>2, <2>4, <2>5
<1>4. ASSUME NEW i \in DOMAIN b.packages
      PROVE  \E m \in b.manifest : m.name = b.packages[i].name
  <2>1. SUFFICES ASSUME \A m \in b.manifest : m.name # b.packages[i].name PROVE FALSE
    OBVIOUS
  <2>2. Finding("COMPONENT_IDENTITY", [id |-> i], "NOT_IN_RELEASE") \in ComponentFindings(l)
    BY <1>1, <1>2, <1>4, <2>1 DEF ComponentFindings
  <2> QED
    BY <2>2 DEF Finding
<1> QED
  BY <1>3, <1>4

\* The dependencies in a closed graph are those between the packages.
LEMMA DependenciesSayTheSame ==
    ASSUME NEW b, ManifestAdmitted(b),
           \A f \in ComponentFindings(Lanes(b)) : f.status = "MATCHED",
           NEW m \in b.manifest, NEW n \in b.manifest
    PROVE  [from |-> Key(m), relation |-> "DEPENDS_ON", to |-> Key(n)] \in Relations(Lanes(b))
           <=> \E d \in b.dependencies :
                  /\ {d.from, d.to} \subseteq DOMAIN b.packages
                  /\ b.packages[d.from].name = m.name /\ b.packages[d.to].name = n.name
<1> DEFINE l == Lanes(b)
           R(p) == [from |-> Key(p[1]), relation |-> "DEPENDS_ON", to |-> Key(p[2])]
           Linked(p) == \E d \in l.dependencies :
                           Matches(l, p[1]) = {d.from} /\ Matches(l, p[2]) = {d.to}
           C(x) == [from |-> Image, relation |-> "CONTAINS", to |-> Key(x)]
<1>1. /\ l.manifest = b.manifest
      /\ l.dependencies = {d \in b.dependencies : {d.from, d.to} \subseteq DOMAIN b.packages}
  BY DEF Lanes
<1>2. \A x \in b.manifest :
          /\ Matches(l, x) = {i \in DOMAIN b.packages : b.packages[i].name = x.name}
          /\ Matched(l, x)
  BY MatchesOfLanes, ComponentsMatch
<1>3. Relations(l) = {C(x) : x \in l.manifest} \cup {R(p) : p \in {p \in l.manifest \X l.manifest : Linked(p)}}
  BY DEF Relations
<1> HIDE DEF l
<1>4. ASSUME R(<<m, n>>) \in Relations(l)
      PROVE  Linked(<<m, n>>)
  <2>1. \A x : R(<<m, n>>) # C(x)
    OBVIOUS
  <2>2. PICK p \in b.manifest \X b.manifest : Linked(p) /\ R(<<m, n>>) = R(p)
    BY <1>1, <1>3, <1>4, <2>1
  <2>3. Key(m) = Key(p[1]) /\ Key(n) = Key(p[2])
    BY <2>2
  <2>4. m = p[1] /\ n = p[2]
    BY <2>3, KeysAreDistinct
  <2>5. p = <<m, n>>
    BY <2>2, <2>4
  <2> QED
    BY <2>2, <2>5
<1>5. Linked(<<m, n>>) => R(<<m, n>>) \in Relations(l)
  BY <1>1, <1>3
<1>6. Linked(<<m, n>>)
      <=> \E d \in b.dependencies :
             /\ {d.from, d.to} \subseteq DOMAIN b.packages
             /\ b.packages[d.from].name = m.name /\ b.packages[d.to].name = n.name
  <2>1. \A x \in b.manifest, i \in DOMAIN b.packages :
            (Matches(l, x) = {i}) <=> (b.packages[i].name = x.name)
    BY <1>2 DEF Matched, Several
  <2> QED
    BY <1>1, <2>1
<1> QED
  BY <1>4, <1>5, <1>6 DEF l

\* A closed graph that verifies says what its build says three times (verify_reference_graph).
THEOREM ClosedGraphSaysTheSame ==
    ASSUME NEW b, NEW g, GraphVerifies(g, b), g.state = "CLOSED"
    PROVE  SaysTheSame(b, g)
<1>1. /\ \A f \in ComponentFindings(Lanes(b)) : f.status = "MATCHED"
      /\ \A f \in FileFindings(Lanes(b)) : f.status = "MATCHED"
  BY ClosedMatches
<1>2. Admitted(b) /\ ManifestAdmitted(b)
  BY DEF GraphVerifies, Admitted
<1>3. g.relations = Relations(Lanes(b))
  BY DEF GraphVerifies, Graph
<1>4. /\ \A f \in b.rootFiles :
             \E x \in b.archive : /\ x.kind = "file" /\ x.path = b.files[f].path
                                  /\ b.files[f].hash \in {x.content, Unknown}
      /\ \A x \in b.archive : x.kind = "file" =>
             \E f \in b.rootFiles : b.files[f].path = x.path /\ b.files[f].hash = x.content
  BY <1>1, <1>2, FilesSayTheSame
<1>5. /\ \A m \in b.manifest : \E i \in DOMAIN b.packages :
             /\ b.packages[i].producer # Unknown
             /\ \A j \in DOMAIN b.packages : (b.packages[j].name = m.name) <=> (j = i)
      /\ \A i \in DOMAIN b.packages : \E m \in b.manifest : m.name = b.packages[i].name
  BY <1>1, PackagesSayTheSame
<1>6. \A m, n \in b.manifest :
          [from |-> Key(m), relation |-> "DEPENDS_ON", to |-> Key(n)] \in g.relations
          <=> \E d \in b.dependencies :
                 /\ {d.from, d.to} \subseteq DOMAIN b.packages
                 /\ b.packages[d.from].name = m.name /\ b.packages[d.to].name = n.name
  BY <1>1, <1>2, <1>3, DependenciesSayTheSame
<1> QED
  BY <1>4, <1>5, <1>6 DEF SaysTheSame

\* In every behaviour, a CLOSED graph that verifies against its build's payloads is exact,
\* whatever somebody has made of the graph's file (verify_reference_graph, _build_population,
\* _reconcile_files).
THEOREM ClosedReferenceIsExactAlways == GraphSpec => []ClosedReferenceIsExact
<1>1. ClosedReferenceIsExact
  BY ClosedGraphSaysTheSame DEF ClosedReferenceIsExact
<1> QED
  BY <1>1, PTL

-----------------------------------------------------------------------------
(* What a graph lists *)

\* The lanes are those of payloads that were admitted.
OfPayloads(l) == \E b \in Build : Admitted(b) /\ l = Lanes(b)

Versioned(g, key) == [key |-> key, version |-> VersionOf(g, key)]
FileAt(g, path) == [path |-> path, hash |-> HashAt(g.lanes.observed, path)]

\* The version that a graph has for a key is that of the manifest's package with the key.
LEMMA VersionsAreInstalled ==
    ASSUME NEW g, g.population = Population(g.lanes), OfPayloads(g.lanes)
    PROVE  Installed(g.lanes) = {Versioned(g, key) : key \in Keys(g)}
<1> DEFINE l == g.lanes
<1>1. PICK b \in Build : ManifestAdmitted(b) /\ l.manifest = b.manifest
  BY DEF OfPayloads, Admitted, Lanes
<1>2. \A m : Entry(l, m).key = Key(m) /\ Entry(l, m).version = m.version
  BY DEF Entry
<1>3. g.population = {Entry(l, m) : m \in l.manifest}
  BY DEF Population
<1> HIDE DEF l
<1>4. Keys(g) = {Key(m) : m \in l.manifest}
  BY <1>2, <1>3 DEF Keys
<1>5. ASSUME NEW m \in l.manifest
      PROVE  VersionOf(g, Key(m)) = m.version
  <2>1. Entry(l, m) \in g.population /\ Entry(l, m).key = Key(m)
    BY <1>2, <1>3
  <2>2. \A e \in g.population : e.key = Key(m) => e = Entry(l, m)
    BY <1>1, <1>2, <1>3, KeysAreDistinct
  <2>3. (CHOOSE e \in g.population : e.key = Key(m)) = Entry(l, m)
    BY <2>1, <2>2
  <2> QED
    BY <1>2, <2>3 DEF VersionOf
<1>6. Installed(l) = {[key |-> Key(m), version |-> m.version] : m \in l.manifest}
  BY DEF Installed
<1>7. Installed(l) = {Versioned(g, key) : key \in Keys(g)}
  BY <1>4, <1>5, <1>6 DEF Versioned
<1> QED
  BY <1>7 DEF l

\* The files of a graph are one for each path.
LEMMA FilesAreObserved ==
    ASSUME NEW g, OfPayloads(g.lanes)
    PROVE  g.lanes.observed = {FileAt(g, path) : path \in Paths(g)}
<1> DEFINE seen == g.lanes.observed
<1>1. PICK b \in Build : ArchiveAdmitted(b) /\ seen = Observed(b)
  BY DEF OfPayloads, Admitted, Lanes
<1>2. Paths(g) = {o.path : o \in seen}
  BY DEF Paths
<1>3. \A path : FileAt(g, path) = [path |-> path, hash |-> HashAt(seen, path)]
  BY DEF FileAt
<1> HIDE DEF seen
<1>4. ASSUME NEW o \in seen
      PROVE  o = FileAt(g, o.path)
  <2>1. PICK x \in b.archive : x.kind = "file" /\ o = [path |-> x.path, hash |-> x.content]
    BY <1>1 DEF Observed
  <2>2. HashAt(seen, x.path) = x.content
    BY <1>1, <2>1, ObservedHash
  <2> QED
    BY <1>3, <2>1, <2>2
<1>5. seen = {FileAt(g, path) : path \in Paths(g)}
  BY <1>2, <1>4
<1> QED
  BY <1>5 DEF seen

-----------------------------------------------------------------------------
(* The difference *)

\* The packages of the difference of two graphs that were derived from payloads.
LEMMA PackageDifference ==
    ASSUME NEW g, g.population = Population(g.lanes), OfPayloads(g.lanes),
           NEW h, h.population = Population(h.lanes), OfPayloads(h.lanes),
           NEW d, d = Difference(g, h)
    PROVE  Installed(h.lanes) =
               {m \in Installed(g.lanes) :
                   m.key \notin {u.key : u \in d.updated} \cup d.removed}
               \cup d.updated \cup d.added
<1> DEFINE both == Keys(g) \cap Keys(h)
           other == {k \in both : VersionOf(g, k) # VersionOf(h, k)}
<1>1. /\ d.updated = {Versioned(h, k) : k \in other}
      /\ d.added = {Versioned(h, k) : k \in Keys(h) \ Keys(g)}
      /\ d.removed = Keys(g) \ Keys(h)
  BY DEF Difference, Versioned
<1>2. /\ Installed(g.lanes) = {Versioned(g, k) : k \in Keys(g)}
      /\ Installed(h.lanes) = {Versioned(h, k) : k \in Keys(h)}
  BY VersionsAreInstalled
<1>3. \A k : Versioned(g, k).key = k /\ Versioned(h, k).key = k
  BY DEF Versioned
<1>4. \A k \in both \ other : Versioned(g, k) = Versioned(h, k)
  BY DEF Versioned
<1>5. {u.key : u \in d.updated} = other
  BY <1>1, <1>3
<1>6. {m \in Installed(g.lanes) : m.key \notin other \cup d.removed}
      = {Versioned(g, k) : k \in both \ other}
  BY <1>1, <1>2, <1>3
<1>7. {Versioned(g, k) : k \in both \ other} = {Versioned(h, k) : k \in both \ other}
  BY <1>4
<1>8. Keys(h) = ((both \ other) \cup other) \cup (Keys(h) \ Keys(g))
  OBVIOUS
<1> HIDE DEF both, other
<1>9. Installed(h.lanes) = {Versioned(h, k) : k \in both \ other} \cup d.updated \cup d.added
  BY <1>1, <1>2, <1>8
<1> QED
  BY <1>5, <1>6, <1>7, <1>9

\* The files of the difference of two graphs that were derived from payloads.
LEMMA FileDifference ==
    ASSUME NEW g, OfPayloads(g.lanes), NEW h, OfPayloads(h.lanes),
           NEW d, d = Difference(g, h)
    PROVE  /\ {o \in h.lanes.observed : o.path \notin d.filesAdded} =
                 {o \in g.lanes.observed :
                     o.path \notin {f.path : f \in d.filesModified} \cup d.filesRemoved}
                 \cup {[path |-> f.path, hash |-> f.to] : f \in d.filesModified}
           /\ d.filesAdded \subseteq {o.path : o \in h.lanes.observed}
<1> DEFINE both == Paths(g) \cap Paths(h)
           other == {p \in both : HashAt(g.lanes.observed, p) # HashAt(h.lanes.observed, p)}
           M(p) == [path |-> p, to |-> HashAt(h.lanes.observed, p)]
<1>1. d.filesModified = {M(p) : p \in other}
  BY DEF Difference, Modified
<1>2. d.filesAdded = Paths(h) \ Paths(g) /\ d.filesRemoved = Paths(g) \ Paths(h)
  BY DEF Difference
<1>3. /\ g.lanes.observed = {FileAt(g, p) : p \in Paths(g)}
      /\ h.lanes.observed = {FileAt(h, p) : p \in Paths(h)}
  BY FilesAreObserved
<1>4. \A p : FileAt(g, p).path = p /\ FileAt(h, p).path = p
  BY DEF FileAt
<1>5. \A p : M(p).path = p /\ [path |-> M(p).path, hash |-> M(p).to] = FileAt(h, p)
  BY DEF FileAt
<1>6. \A p \in both \ other : FileAt(g, p) = FileAt(h, p)
  BY DEF FileAt
<1>7. other \subseteq both
  OBVIOUS
<1>8. d.filesAdded \subseteq {o.path : o \in h.lanes.observed}
  BY <1>2 DEF Paths
<1> HIDE DEF other, M
<1>9. {f.path : f \in d.filesModified} = other
  BY <1>1, <1>5
<1>10. {[path |-> f.path, hash |-> f.to] : f \in d.filesModified} = {FileAt(h, p) : p \in other}
  BY <1>1, <1>5
<1>11. {o \in g.lanes.observed : o.path \notin other \cup d.filesRemoved}
       = {FileAt(g, p) : p \in both \ other}
  BY <1>2, <1>3, <1>4, <1>7
<1>12. {o \in h.lanes.observed : o.path \notin d.filesAdded} = {FileAt(h, p) : p \in both}
  BY <1>2, <1>3, <1>4
<1> HIDE DEF both
<1>13. {FileAt(h, p) : p \in both} = {FileAt(g, p) : p \in both \ other} \cup {FileAt(h, p) : p \in other}
  BY <1>6, <1>7
<1> QED
  BY <1>8, <1>9, <1>10, <1>11, <1>12, <1>13

-----------------------------------------------------------------------------
(* The comparison *)

\* A graph has its parts, and, changed or not, the lanes of payloads that were admitted; a
\* comparison is that of the two graphs, and they are derived from their lanes.
GraphInv ==
    /\ builds \in [{"from", "to"} -> Build]
    /\ DOMAIN graphs = {"from", "to"} /\ graphs = [n \in {"from", "to"} |-> graphs[n]]
    /\ \A n \in {"from", "to"} : graphs[n] # NoGraph =>
           /\ graphs[n] = [piece \in GraphPart |-> graphs[n][piece]]
           /\ OfPayloads(graphs[n].lanes)
    /\ difference # NoGraph =>
           /\ NoGraph \notin {graphs["from"], graphs["to"]}
           /\ StructureVerifies(graphs["from"]) /\ StructureVerifies(graphs["to"])
           /\ difference = Difference(graphs["from"], graphs["to"])

LEMMA GraphInitInv == GraphInit => GraphInv
  BY DEF GraphInit, GraphInv

\* The graph of a build is kept.
LEMMA AnalyzeBuildKeepsInv ==
    ASSUME GraphInv, NEW n \in {"from", "to"}, AnalyzeBuild(n)
    PROVE  GraphInv'
<1> DEFINE g == Graph(Lanes(builds[n]))
<1>1. g = [piece \in GraphPart |-> g[piece]] /\ g.lanes = Lanes(builds[n])
  BY DEF Graph, GraphPart
<1>2. OfPayloads(g.lanes)
  BY <1>1 DEF OfPayloads, GraphInv, AnalyzeBuild
<1>3. difference' = difference /\ difference = NoGraph /\ builds' = builds
  BY DEF AnalyzeBuild, GraphInv
<1>4. graphs' = [graphs EXCEPT ![n] = g]
  BY DEF AnalyzeBuild
<1> HIDE DEF g
<1> QED
  BY <1>1, <1>2, <1>3, <1>4 DEF GraphInv

\* The lanes of a changed graph are its own or those of the other.
LEMMA ChangeKeepsInv ==
    ASSUME GraphInv, NEW n \in {"from", "to"}, NEW piece \in GraphPart, ChangeGraph(n, piece)
    PROVE  GraphInv'
<1> DEFINE other == graphs[IF n = "from" THEN "to" ELSE "from"]
           g == [graphs[n] EXCEPT ![piece] = other[piece]]
<1>1. /\ graphs' = [graphs EXCEPT ![n] = g]
      /\ builds' = builds /\ difference' = difference /\ difference = NoGraph
      /\ graphs[n] # NoGraph /\ other # NoGraph
  BY DEF ChangeGraph, GraphInv
<1>2. OfPayloads(graphs[n].lanes) /\ OfPayloads(other.lanes)
      /\ graphs[n] = [p \in GraphPart |-> graphs[n][p]]
  BY <1>1 DEF GraphInv
<1>3. g = [p \in GraphPart |-> g[p]]
  BY <1>2
<1>4. g.lanes \in {graphs[n].lanes, other.lanes}
  BY <1>2 DEF GraphPart
<1> HIDE DEF g, other
<1>5. OfPayloads(g.lanes)
  BY <1>2, <1>4
<1> QED
  BY <1>1, <1>3, <1>5 DEF GraphInv

LEMMA GraphNextInv == GraphInv /\ [GraphNext]_graphVars => GraphInv'
<1> SUFFICES ASSUME GraphInv, [GraphNext]_graphVars PROVE GraphInv'
  OBVIOUS
<1>1. CASE \E n \in {"from", "to"} : AnalyzeBuild(n)
  BY <1>1, AnalyzeBuildKeepsInv
<1>2. CASE \E n \in {"from", "to"} : \E piece \in GraphPart : ChangeGraph(n, piece)
  BY <1>2, ChangeKeepsInv
<1>3. CASE CompareBuilds
  BY <1>3 DEF CompareBuilds, GraphInv, StructureVerifies
<1>4. CASE UNCHANGED graphVars
  BY <1>4 DEF graphVars, GraphInv, StructureVerifies
<1> QED
  BY <1>1, <1>2, <1>3, <1>4 DEF GraphNext

\* In every behaviour, a comparison that was made turns what the earlier payloads list into
\* what the later ones list, although parts of the graphs' files may have been exchanged
\* before it (diff_references, _verify_reference_graph_structure).
THEOREM DifferenceIsCompleteAlways == GraphSpec => []DifferenceIsComplete
<1>1. GraphInv => DifferenceIsComplete
  <2> SUFFICES ASSUME GraphInv, difference # NoGraph PROVE DifferenceIsComplete
    BY DEF DifferenceIsComplete
  <2> DEFINE g == graphs["from"]
             h == graphs["to"]
  <2>1. /\ g.population = Population(g.lanes) /\ OfPayloads(g.lanes)
        /\ h.population = Population(h.lanes) /\ OfPayloads(h.lanes)
    BY DEF GraphInv, StructureVerifies, Graph
  <2>2. difference = Difference(g, h)
    BY DEF GraphInv
  <2>3. Installed(h.lanes) =
            {m \in Installed(g.lanes) :
                m.key \notin {u.key : u \in difference.updated} \cup difference.removed}
            \cup difference.updated \cup difference.added
    BY <2>1, <2>2, PackageDifference
  <2>4. /\ {o \in h.lanes.observed : o.path \notin difference.filesAdded} =
              {o \in g.lanes.observed :
                  o.path \notin {f.path : f \in difference.filesModified}
                               \cup difference.filesRemoved}
              \cup {[path |-> f.path, hash |-> f.to] : f \in difference.filesModified}
        /\ difference.filesAdded \subseteq {o.path : o \in h.lanes.observed}
    BY <2>1, <2>2, FileDifference
  <2> QED
    BY <2>3, <2>4 DEF DifferenceIsComplete
<1> QED
  BY <1>1, GraphInitInv, GraphNextInv, PTL DEF GraphSpec
=============================================================================
