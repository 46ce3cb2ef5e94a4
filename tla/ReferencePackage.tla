-------------------------- MODULE ReferencePackage --------------------------
(***************************************************************************)
(* From the payloads of public Yocto builds to registered packages:        *)
(* acquire_profile and snapshot_profile_inputs in yocto.py,                *)
(* write_reference_package in reference_pack.py, and the commands          *)
(* acquire-yocto-reference and yocto-reference-demo in cli.py.             *)
(*                                                                         *)
(* A profile pins the hashes of its payloads.  An acquisition downloads    *)
(* each to a file of its own and gives it its name with a hard link, which *)
(* never replaces anything; the first name goes after that.  Whoever reads *)
(* a payload wants its hash, and no second name.  The demo command         *)
(* analyses and packages one profile after the other, and then compares    *)
(* the two graphs.                                                         *)
(*                                                                         *)
(* The graph is a function of the payloads (ReferenceGraph), and is        *)
(* represented by what was read of each.  Profiles whose graph is CLOSED   *)
(* are refused before anything is written, so those here are OPEN ones.    *)
(* Publication under the lock is RunPublication; it is one step here.      *)
(***************************************************************************)
EXTENDS Naturals, Sequences

CONSTANTS Payloads,      \* the payloads of each profile, in the order of their roles
          DemoOrder,     \* the profiles, in the order of their release
          Acquirer,      \* calls of acquire-yocto-reference
          Demo,          \* calls of yocto-reference-demo
          Absent,        \* no such file, or nobody
          MaxTouched,    \* bound on the payloads somebody edits or removes
          PayloadFaults  \* what the environment may do: "io" and "kill"

ASSUME PayloadAssumption ==
    /\ MaxTouched \in Nat
    /\ PayloadFaults \subseteq {"io", "kill"}
    /\ \A p \in DOMAIN Payloads : Len(Payloads[p]) \in Nat \ {0}

\* Each profile has one turn.
ASSUME OrderAssumption ==
    /\ DemoOrder \in Seq(DOMAIN Payloads) /\ DemoOrder # <<>>
    /\ \A m, n \in DOMAIN DemoOrder : DemoOrder[m] = DemoOrder[n] => m = n
    /\ \A p \in DOMAIN Payloads : \E n \in DOMAIN DemoOrder : DemoOrder[n] = p

\* What is absent is neither a file nor a package.
ASSUME AbsentAssumption ==
    /\ Absent \notin [content : {"pinned", "other"}, by : Acquirer \cup {Absent}]
    /\ Absent \notin [by : Demo, inputs : Seq({"pinned"}), graph : Seq({"pinned"})]

VARIABLES acquiring, \* the step each acquisition takes next
          wanted,    \* its profile
          next,      \* the number of the payload it is at
          part,      \* its .part file: content, and the payload it is linked to
          payloads,  \* the payloads in their places: content, and who put them there
          touched,   \* how often payloads were edited or removed
          building,  \* the step each demo takes next
          turn,      \* the number of the profile it is at
          reading,   \* the number of the payload it is at
          analysed,  \* what its analyses read, per profile
          staged,    \* the inputs in its stage
          packages   \* the published packages

acquirerVars == <<acquiring, wanted, next, part>>
demoVars == <<building, turn, reading, analysed, staged, packages>>
referenceVars == <<acquirerVars, payloads, touched, demoVars>>

Profiles == DOMAIN Payloads
PayloadsOf(p) == {Payloads[p][n] : n \in 1..Len(Payloads[p])}
AllPayloads == UNION {PayloadsOf(p) : p \in Profiles}
InPlace(x) == payloads[x] # Absent

ReferenceInit ==
    /\ acquiring = [q \in Acquirer |-> "looking"]
    /\ wanted \in [Acquirer -> Profiles]
    /\ next = [q \in Acquirer |-> 1]
    /\ part = [q \in Acquirer |-> Absent]
    /\ payloads \in [AllPayloads -> {Absent, [content |-> "pinned", by |-> Absent]}]
    /\ touched = 0
    /\ building = [d \in Demo |-> "analysing"]
    /\ turn = [d \in Demo |-> 1]
    /\ reading = [d \in Demo |-> 1]
    /\ analysed = [d \in Demo |-> [p \in Profiles |-> <<>>]]
    /\ staged = [d \in Demo |-> <<>>]
    /\ packages = [p \in Profiles |-> Absent]

-----------------------------------------------------------------------------
(* acquire_profile *)

At(q) == Payloads[wanted[q]][next[q]]
AcquireTo(q, step) == acquiring' = [acquiring EXCEPT ![q] = step]
Acquires(q) == acquiring[q] \notin {"acquired", "failed", "dead"}

\* The temporary file of q is a second name of payload x.
LinkedBy(q, x) == part[q] # Absent /\ part[q].of = x /\ InPlace(x) /\ payloads[x].by = q

\* _safe_destination
LookForPayload(q) ==
    /\ acquiring[q] = "looking"
    /\ AcquireTo(q, IF InPlace(At(q)) THEN "failed" ELSE "downloading")
    /\ UNCHANGED <<wanted, next, part, payloads, touched, demoVars>>

\* What the server sends is written and hashed.
Download(q) ==
    /\ acquiring[q] = "downloading"
    /\ \E c \in {"pinned", "other"} :
           /\ part' = [part EXCEPT ![q] = [content |-> c, of |-> Absent]]
           /\ AcquireTo(q, IF c = "pinned" THEN "linking" ELSE "unwinding")
    /\ UNCHANGED <<wanted, next, payloads, touched, demoVars>>

\* Faulty variant: the file is renamed to its place, whatever is there.
RenamePayload(q) ==
    /\ acquiring[q] = "linking"
    /\ payloads' = [payloads EXCEPT ![At(q)] = [content |-> part[q].content, by |-> q]]
    /\ AcquireTo(q, "unlinking")
    /\ UNCHANGED <<wanted, next, part, touched, demoVars>>

\* os.link fails if its target exists.
LinkPayload(q) ==
    /\ acquiring[q] = "linking"
    /\ IF InPlace(At(q))
       THEN AcquireTo(q, "unwinding") /\ UNCHANGED <<part, payloads>>
       ELSE /\ payloads' = [payloads EXCEPT ![At(q)] = [content |-> part[q].content, by |-> q]]
            /\ part' = [part EXCEPT ![q].of = At(q)]
            /\ AcquireTo(q, "unlinking")
    /\ UNCHANGED <<wanted, next, touched, demoVars>>

Proceed(q) ==
    IF next[q] = Len(Payloads[wanted[q]])
    THEN AcquireTo(q, "acquired") /\ UNCHANGED next
    ELSE AcquireTo(q, "looking") /\ next' = [next EXCEPT ![q] = @ + 1]

\* temporary.unlink()
UnlinkPart(q) ==
    /\ acquiring[q] = "unlinking"
    /\ part' = [part EXCEPT ![q] = Absent]
    /\ Proceed(q)
    /\ UNCHANGED <<wanted, payloads, touched, demoVars>>

\* Faulty variant: a temporary file that cannot be unlinked does not matter.
PayloadFailsUnlessPlaced(q) ==
    /\ "io" \in PayloadFaults
    /\ Acquires(q) /\ acquiring[q] # "unwinding"
    /\ IF acquiring[q] = "unlinking" THEN Proceed(q) ELSE AcquireTo(q, "unwinding") /\ UNCHANGED next
    /\ UNCHANGED <<wanted, part, payloads, touched, demoVars>>

\* A request, a write, a link or an unlink fails.
PayloadFails(q) ==
    /\ "io" \in PayloadFaults
    /\ Acquires(q) /\ acquiring[q] # "unwinding"
    /\ AcquireTo(q, "unwinding")
    /\ UNCHANGED <<wanted, next, part, payloads, touched, demoVars>>

\* The finally clause, which says nothing of a temporary file it cannot unlink.
UnwindPart(q) ==
    /\ acquiring[q] = "unwinding"
    /\ \/ part' = [part EXCEPT ![q] = Absent]
       \/ "io" \in PayloadFaults /\ UNCHANGED part
    /\ AcquireTo(q, "failed")
    /\ UNCHANGED <<wanted, next, payloads, touched, demoVars>>

AcquirerDies(q) ==
    /\ "kill" \in PayloadFaults
    /\ Acquires(q)
    /\ AcquireTo(q, "dead")
    /\ UNCHANGED <<wanted, next, part, payloads, touched, demoVars>>

-----------------------------------------------------------------------------
(* yocto-reference-demo *)

Names(x) == 1 + (IF \E q \in Acquirer : LinkedBy(q, x) THEN 1 ELSE 0)

\* Faulty variant: the hash is taken, but not compared.
ReadableByForm(x) == InPlace(x) /\ Names(x) = 1

\* _safe_input and _read_payload
Readable(x) == InPlace(x) /\ Names(x) = 1 /\ payloads[x].content = "pinned"

Profile(d) == DemoOrder[turn[d]]
Reads(d) == Payloads[Profile(d)][reading[d]]
IsLast(d) == reading[d] = Len(Payloads[Profile(d)])
Seen(d) == payloads[Reads(d)].content
BuildTo(d, step) == building' = [building EXCEPT ![d] = step]
Advance(d, step) ==
    IF IsLast(d) THEN BuildTo(d, step) /\ reading' = [reading EXCEPT ![d] = 1]
    ELSE reading' = [reading EXCEPT ![d] = @ + 1] /\ UNCHANGED building
DemoFails(d) == BuildTo(d, "failed") /\ UNCHANGED reading
DemoOnly == UNCHANGED <<acquirerVars, payloads, touched>>

\* analyze_reference reads one payload after the other.
Analyze(d) ==
    /\ building[d] = "analysing"
    /\ IF Readable(Reads(d))
       THEN /\ analysed' = [analysed EXCEPT ![d][Profile(d)] = Append(@, Seen(d))]
            /\ Advance(d, "verifying")
       ELSE DemoFails(d) /\ UNCHANGED analysed
    /\ UNCHANGED <<turn, staged, packages>> /\ DemoOnly

\* verify_reference_graph reads them again; then the look at the destination.
VerifyGraph(d) ==
    /\ building[d] = "verifying"
    /\ IF Readable(Reads(d)) /\ Seen(d) = analysed[d][Profile(d)][reading[d]]
          /\ (IsLast(d) => packages[Profile(d)] = Absent)
       THEN Advance(d, "staging") ELSE DemoFails(d)
    /\ UNCHANGED <<turn, analysed, staged, packages>> /\ DemoOnly

\* snapshot_profile_inputs
StageInput(d) ==
    /\ building[d] = "staging"
    /\ IF Readable(Reads(d))
       THEN staged' = [staged EXCEPT ![d] = Append(@, Seen(d))] /\ Advance(d, "packaging")
       ELSE DemoFails(d) /\ staged' = [staged EXCEPT ![d] = <<>>]
    /\ UNCHANGED <<turn, analysed, packages>> /\ DemoOnly

\* Faulty variant: a package that is there is as good as a new one.
PublishPackageUnlessThere(d) ==
    /\ building[d] = "packaging"
    /\ LET p == Profile(d)
       IN IF staged[d] = analysed[d][p]
          THEN /\ packages' = [packages EXCEPT ![p] =
                      IF @ = Absent
                      THEN [by |-> d, inputs |-> staged[d], graph |-> analysed[d][p]] ELSE @]
               /\ BuildTo(d, "published")
          ELSE BuildTo(d, "failed") /\ UNCHANGED packages
    /\ staged' = [staged EXCEPT ![d] = <<>>]
    /\ UNCHANGED <<turn, reading, analysed>> /\ DemoOnly

\* The staged inputs are analysed, the package is filled, sealed and registered.
PublishPackage(d) ==
    /\ building[d] = "packaging"
    /\ LET p == Profile(d)
       IN IF staged[d] = analysed[d][p] /\ packages[p] = Absent
          THEN /\ packages' = [packages EXCEPT ![p] =
                                  [by |-> d, inputs |-> staged[d], graph |-> analysed[d][p]]]
               /\ BuildTo(d, "published")
          ELSE BuildTo(d, "failed") /\ UNCHANGED packages
    /\ staged' = [staged EXCEPT ![d] = <<>>]
    /\ UNCHANGED <<turn, reading, analysed>> /\ DemoOnly

\* verify_reference_package, and the next profile; diff_references after the last.
NextProfile(d) ==
    /\ building[d] = "published"
    /\ IF turn[d] < Len(DemoOrder)
       THEN BuildTo(d, "analysing") /\ turn' = [turn EXCEPT ![d] = @ + 1]
       ELSE BuildTo(d, "compared") /\ UNCHANGED turn
    /\ UNCHANGED <<reading, analysed, staged, packages>> /\ DemoOnly

\* A failure or a death.  Only a death leaves the stage.
DemoStops(d) ==
    /\ building[d] \notin {"compared", "failed"}
    /\ BuildTo(d, "failed")
    /\ \/ "io" \in PayloadFaults /\ staged' = [staged EXCEPT ![d] = <<>>]
       \/ "kill" \in PayloadFaults /\ UNCHANGED staged
    /\ UNCHANGED <<turn, reading, analysed, packages>> /\ DemoOnly

-----------------------------------------------------------------------------
(* The environment *)

\* Somebody edits a payload in its place, or puts its content back, or removes it.
Touch(x) ==
    /\ touched < MaxTouched
    /\ InPlace(x)
    /\ \/ \E c \in {"pinned", "other"} \ {payloads[x].content} :
              payloads' = [payloads EXCEPT ![x].content = c]
       \/ payloads' = [payloads EXCEPT ![x] = Absent]
    /\ touched' = touched + 1
    /\ UNCHANGED <<acquirerVars, demoVars>>

ReferenceNext ==
    \/ \E q \in Acquirer :
          \/ LookForPayload(q) \/ Download(q) \/ LinkPayload(q) \/ UnlinkPart(q)
          \/ PayloadFails(q) \/ UnwindPart(q) \/ AcquirerDies(q)
    \/ \E d \in Demo :
          \/ Analyze(d) \/ VerifyGraph(d) \/ StageInput(d) \/ PublishPackage(d) \/ NextProfile(d)
          \/ DemoStops(d)
    \/ \E x \in AllPayloads : Touch(x)

ReferenceSpec == ReferenceInit /\ [][ReferenceNext]_referenceVars

-----------------------------------------------------------------------------
(* Properties *)

\* A published package has the pinned payloads and the graph that was made of them,
\* though they were read three times from a directory that anybody may write to.
PackageIsOfItsProfile ==
    \A p \in Profiles : packages[p] # Absent =>
        /\ packages[p].graph = packages[p].inputs
        /\ packages[p].graph = [n \in 1..Len(Payloads[p]) |-> "pinned"]

\* An acquisition that reports success placed every payload itself, and each can be
\* read unless somebody has touched one; of a payload that has its hash and cannot
\* be read, a call that failed or died, or is still at work, has left the second name.
AcquiredCanBeRead ==
    /\ \A q \in Acquirer : acquiring[q] = "acquired" =>
           \/ touched > 0
           \/ \A x \in PayloadsOf(wanted[q]) : Readable(x) /\ payloads[x].by = q
    /\ \A x \in AllPayloads :
           InPlace(x) /\ payloads[x].content = "pinned" /\ ~ Readable(x) =>
               \E q \in Acquirer : acquiring[q] # "acquired" /\ LinkedBy(q, x)

\* A demo that ends has published every package it compared.  So once a demo has
\* failed between two packages, no other ends: a package is there for good.
ComparedIsPublished ==
    \A d \in Demo : building[d] = "compared" =>
        \A p \in Profiles : packages[p].by = d /\ packages[p].graph = analysed[d][p]
=============================================================================
