----------------------------- MODULE MCSelftest -----------------------------
(* Small instances of the self-test and of what is done with its root: one   *)
(* behaviour scans, signs and hands off, narrows, or mixes files of roots.   *)
EXTENDS NarrowedDecisions

CONSTANTS Stages,                    \* the kinds of behaviour to check
          d2, d2b, d3, bad,          \* documents; d2b is d2 with another serial number
          v1, v2, v3                 \* VEX documents; v3 does not validate

VARIABLE stage

vars == <<stage, scanVars, signVars, handoffVars, narrowVars>>

-----------------------------------------------------------------------------
(* Documents *)

Lib(ref, release, arch) ==
    [ref |-> ref, version |-> release, cpe |-> Absent,
     purl |-> [base |-> "lib", version |-> release, arch |-> arch, id |-> ref]]
Zlib == [ref |-> "z", version |-> "3", purl |-> Absent, cpe |-> [form |-> "2.3", product |-> "zlib"]]
Product == [ref |-> "root", version |-> "1", purl |-> Absent, cpe |-> Absent]
Doc(components, edges) ==
    [root |-> Product, components |-> components, tools |-> {"syft"}, edges |-> edges]

MCContent ==
    [d \in Document |->
        CASE d \in {d2, d2b} -> Doc(<<Lib("a", "2", "x86"), Zlib>>, {[from |-> "a", to |-> "z"]})
          [] d = d3 -> Doc(<<Lib("a", "1", "x86"), Lib("b", "1", "arm"), Lib("c", "2", "x86")>>, {})
          [] d = bad -> Doc(<<Lib("a", "1", "x86")>>, {[from |-> "a", to |-> "syft"]})]

MCPrints == [v \in 0..1 |-> IF v = 0 THEN {d2, d3, bad} ELSE {d2}]

-----------------------------------------------------------------------------
(* VEX documents and hits, of the packages in d3 *)

Purl(ref, arch) == [base |-> "lib", version |-> "1", arch |-> arch, id |-> ref]
Statement(status, products) ==
    [vulnerability |-> "cve", status |-> status, justified |-> TRUE, products |-> products]

MCStatements ==
    [v \in VexDocument |->
        CASE v = v1 -> {Statement("not_affected", {Purl("a", "x86"), Purl("b", "arm")}),
                        Statement("affected", {Purl("b", "arm")})}
          [] v = v2 -> {Statement("not_affected", {Purl("b", "arm"), Absent})}
          [] v = v3 -> {[Statement("not_affected", {Purl("a", "x86")}) EXCEPT !.justified = FALSE]}]

Hit(ref, arch) == [vulnerability |-> "cve", purl |-> Purl(ref, arch)]
MCHitList == {{Hit("z", "x86"), Hit("b", "arm")}, {Hit("a", "mips")}}

-----------------------------------------------------------------------------

\* A reconciliation starts with the handoff of a root that verified.
HandoffBefore == [id |-> "handoff", sbom |-> d3]

Init ==
    /\ stage \in Stages
    /\ SignInit
    /\ IF stage = "scan"
       THEN ScanInit
       ELSE /\ pc = "done" /\ todo = <<>> /\ job = NoJob
            /\ root = IF stage = "narrow" THEN Absent ELSE RootOf[d2]
            /\ version = [t \in Versioned |-> 0]
            /\ edits = [t \in Thing |-> 0]
            /\ scanned = [p \in Profile |-> [input |-> 0, scanner |-> Pinned]]
    /\ IF stage = "send"
       THEN HandoffInit
       ELSE /\ sending = [s \in Sender |-> "start"]
            /\ binding = [s \in Sender |-> "VERIFIED"]
            /\ draft = [s \in Sender |-> NoDraft]
            /\ candidate = d2
            /\ handoffs = IF stage = "narrow" THEN {HandoffBefore} ELSE {}
            /\ replaced = 0
    /\ IF stage = "narrow"
       THEN /\ NarrowInit
            \* One reconciliation names the wrong issuer, if any, and intakes are alike.
            /\ \A r \in Reconciler : r > 1 => request[r].named
            /\ request[1].intake = 1
       ELSE /\ taking = [i \in Intake |-> "start"] /\ taken = [i \in Intake |-> Absent]
            /\ intakes = [i \in Intake |-> Absent]
            /\ vex = v1 /\ vexSig = v1 /\ hits = Absent /\ changes = 0 /\ unverified = {}
            /\ narrowing = [r \in Reconciler |-> "start"] /\ request = Absent
            /\ found = [r \in Reconciler |-> NothingFound] /\ records = {}

Scans ==
    /\ stage = "scan"
    /\ ScanNext
    /\ UNCHANGED <<stage, signVars, handoffVars, narrowVars>>

\* In the stage "send" one call may sign while one hands off, or two hand off while
\* the root or the candidate is replaced at most once.
OneSigns == \A c \in Signer : c > 1 => signing[c] = "start"
OneSends == \A s \in Sender : s > 1 => sending[s] = "start"
NobodySigned == \A c \in Signer : signing[c] = "start"
Limited == stage = "send" => (OneSigns /\ OneSends) \/ (NobodySigned /\ replaced < 2)

SignsPackage ==
    /\ stage \in {"sign", "send"}
    /\ SignNext
    /\ UNCHANGED <<stage, handoffVars, narrowVars>>
    /\ Limited'

SendsHandoff ==
    /\ stage = "send"
    /\ HandoffNext
    /\ UNCHANGED <<stage, signVars, pc, todo, job, World, scanned, narrowVars>>
    /\ Limited'

NarrowsHits ==
    /\ stage = "narrow"
    /\ NarrowNext
    /\ UNCHANGED <<stage, scanVars, signVars, handoffVars>>

Mixes ==
    /\ stage = "mix"
    /\ \E d \in {d2, d2b} : Restore(d)
    /\ UNCHANGED <<stage, pc, todo, job, World, scanned, signVars, handoffVars, narrowVars>>

Next == Scans \/ SignsPackage \/ SendsHandoff \/ NarrowsHits \/ Mixes

Spec == Init /\ [][Next]_vars
=============================================================================
