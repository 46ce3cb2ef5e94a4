--------------------------- MODULE MCAcquisition ---------------------------
(***************************************************************************)
(* Acquisition for TLC, and with it the other pipeline that starts with an *)
(* acquisition: one behaviour acquires a commit, acquires and packages the *)
(* payloads of two Yocto builds, or compares the graphs of two builds.     *)
(***************************************************************************)
EXTENDS Acquisition, ReferencePackage, ReferenceGraph

CONSTANTS Stages,                   \* the kinds of behaviour to check
          early, late, e1, e2, l1,  \* profiles and their payloads
          lib, app, f1, f2,         \* packages, and files of the document
          old, new, bin, etc, h1, h2, maker

VARIABLE stage

MCPayloads == [p \in {early, late} |-> IF p = early THEN <<e1, e2>> ELSE <<l1>>]
MCOrder == <<early, late>>

-----------------------------------------------------------------------------
(* Builds *)

Listed(name, version) == [name |-> name, architecture |-> "arm", version |-> version]
Native(name, producer, files) == [name |-> name, producer |-> producer, files |-> files]
File(path, hash) == [path |-> path, hash |-> hash]
Member(path, kind, content) == [path |-> path, kind |-> kind, content |-> content]

BuildOf(manifest, natives, files, archive) ==
    [ofProfile |-> TRUE, manifest |-> manifest, packages |-> natives, files |-> files,
     rootFiles |-> DOMAIN files, dependencies |-> {[from |-> 1, to |-> 2]}, archive |-> archive]

\* Up to two installed packages, two SPDX packages and two files, of each kind.
Manifests ==
    {{Listed(lib, old)}, {Listed(lib, old), Listed(app, old)}, {Listed(lib, old), Listed(lib, new)}}
Natives ==
    {[i \in {1} |-> Native(lib, maker, {f1})]}
    \cup {[i \in {1, 2} |-> IF i = 1 THEN Native(lib, maker, {f1}) ELSE Native(name, producer, {f1, f2})] :
            name \in {lib, app}, producer \in {maker, Unknown}}
Files == [{f1} -> {File(bin, h1)}] \cup [{f1, f2} -> [path: {bin, etc}, hash: {h1, h2, Unknown}]]
Archives ==
    {{Member(bin, kind, h1)} : kind \in {"file", "link"}}
    \cup {{Member(bin, "file", h1), Member(path, kind, hash)} :
            path \in {bin, etc}, kind \in {"file", "link"}, hash \in {h1, h2}}
OneBuild == {BuildOf(a, b, c, d) : a \in Manifests, b \in Natives, c \in Files, d \in Archives}

\* Builds of which two are compared.
SmallNatives == [i \in {1, 2} |-> Native(IF i = 1 THEN lib ELSE app, maker, {f1})]
SmallArchives ==
    {{Member(bin, "file", hash)} : hash \in {h1, h2}}
    \cup {{Member(bin, "file", h1), Member(etc, kind, h2)} : kind \in {"file", "link"}}
TwoBuilds ==
    {BuildOf(a, SmallNatives, [f \in {f1} |-> File(bin, h1)], d) :
        a \in {{Listed(lib, old)}, {Listed(lib, new)}, {Listed(app, new)},
               {Listed(lib, old), Listed(app, old)}},
        d \in SmallArchives}

MCBuild == OneBuild \cup TwoBuilds
Smallest == CHOOSE b \in TwoBuilds : b.manifest = {Listed(lib, old)}

-----------------------------------------------------------------------------

vars == <<stage, acquireVars, referenceVars, graphVars>>

MCInit ==
    /\ stage \in Stages
    /\ Init
    /\ IF stage = "packages"
       THEN ReferenceInit /\ wanted[1] = early
       ELSE /\ acquiring = [c \in Acquirer |-> "dead"]
            /\ wanted = [c \in Acquirer |-> late]
            /\ next = [c \in Acquirer |-> 1] /\ part = [c \in Acquirer |-> Absent]
            /\ payloads = [x \in AllPayloads |-> Absent] /\ touched = 0
            /\ building = [d \in Demo |-> "failed"]
            /\ turn = [d \in Demo |-> 1] /\ reading = [d \in Demo |-> 1]
            /\ analysed = [d \in Demo |-> [p \in Profiles |-> <<>>]]
            /\ staged = [d \in Demo |-> <<>>] /\ packages = [p \in Profiles |-> Absent]
    /\ graphs = [x \in {"from", "to"} |-> NoGraph] /\ difference = NoGraph /\ changed = 0
    /\ IF stage = "graphs"
       THEN \/ builds \in [{"from", "to"} -> TwoBuilds]
            \/ \E b \in OneBuild :
                   builds = [x \in {"from", "to"} |-> IF x = "from" THEN b ELSE Smallest]
       ELSE builds = [x \in {"from", "to"} |-> Smallest]

Commits == stage = "commit" /\ Next /\ UNCHANGED <<stage, referenceVars, graphVars>>
Packages == stage = "packages" /\ ReferenceNext /\ UNCHANGED <<stage, acquireVars, graphVars>>
Graphs == stage = "graphs" /\ GraphNext /\ UNCHANGED <<stage, acquireVars, referenceVars>>

MCSpec == MCInit /\ [][Commits \/ Packages \/ Graphs]_vars
=============================================================================
