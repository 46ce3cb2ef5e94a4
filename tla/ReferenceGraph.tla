--------------------------- MODULE ReferenceGraph ---------------------------
(***************************************************************************)
(* The graph of a public Yocto build, analyze_reference in yocto.py, and   *)
(* the comparison of two builds, diff_references.                          *)
(*                                                                         *)
(* A build says what it contains three times: the image manifest lists the *)
(* installed packages by name, the SPDX document of the build the packages *)
(* with their files, and the archive has the files.  The manifest decides  *)
(* what is in the population; the SPDX packages are matched with it by     *)
(* name, and the files of the document with those of the archive by path.  *)
(*                                                                         *)
(* Graphs are kept as files and compared later, by a caller who may not    *)
(* have the payloads.  So a comparison first derives everything in a graph *)
(* anew from the projections of the payloads that the graph itself has.    *)
(***************************************************************************)
EXTENDS Naturals

CONSTANTS Build,      \* builds: each a record of what its payloads say
          Unknown,    \* a producer or a hash that is not given
          NoGraph,    \* no such graph, or no comparison
          MaxChanged  \* bound on the parts of graphs that somebody changes

ASSUME MaxChangedAssumption == MaxChanged \in Nat

VARIABLES builds,     \* the two builds that are compared, earlier and later
          graphs,     \* the graph of each, as kept in its file
          difference, \* the comparison
          changed     \* how often a graph in its file was changed

graphVars == <<builds, graphs, difference, changed>>

Several(S) == \E x, y \in S : x # y
Known(S) == S \ {Unknown}

\* The only element of S, or other.
Only(S, other) == IF S # {} /\ ~ Several(S) THEN CHOOSE x \in S : TRUE ELSE other

-----------------------------------------------------------------------------
(* The payloads *)

\* _manifest_packages and _build_identity: names are unique, and test data and boot
\* configuration are those of the profile.
ManifestAdmitted(b) ==
    /\ b.ofProfile /\ b.manifest # {}
    /\ \A m, n \in b.manifest : m.name = n.name => m = n

\* _observe_rootfs: no two members of the archive have one path.
ArchiveAdmitted(b) == \A x, y \in b.archive : x.path = y.path => x = y
Observed(b) ==
    {[path |-> x.path, hash |-> x.content] : x \in {x \in b.archive : x.kind = "file"}}

HashesAt(b, path) == {b.files[f].hash : f \in {f \in b.rootFiles : b.files[f].path = path}}

\* _adapt_spdx: the image has files, and one path has one known hash.
DocumentAdmitted(b) ==
    /\ DOMAIN b.packages # {} /\ b.rootFiles # {}
    /\ \A f \in b.rootFiles : ~ Several(Known(HashesAt(b, b.files[f].path)))

Owners(b, path) ==
    {i \in DOMAIN b.packages :
        \E f \in b.packages[i].files \cap b.rootFiles : b.files[f].path = path}
Expected(b) ==
    {[path |-> path, hash |-> Only(Known(HashesAt(b, path)), Unknown), owners |-> Owners(b, path)] :
        path \in {b.files[f].path : f \in b.rootFiles}}

Admitted(b) == ManifestAdmitted(b) /\ DocumentAdmitted(b) /\ ArchiveAdmitted(b)

\* What the graph keeps of the payloads: the lanes.
Lanes(b) ==
    [manifest |-> b.manifest,
     packages |-> [i \in DOMAIN b.packages |->
                      [name |-> b.packages[i].name, producer |-> b.packages[i].producer]],
     dependencies |-> {d \in b.dependencies : {d.from, d.to} \subseteq DOMAIN b.packages},
     expected |-> Expected(b),
     observed |-> Observed(b)]

-----------------------------------------------------------------------------
(* _build_population *)

\* Faulty variant: of several packages of one name, one is as good as another.
MatchesAny(l, m) ==
    LET named == {i \in DOMAIN l.packages : l.packages[i].name = m.name}
    IN IF named = {} THEN {} ELSE {CHOOSE i \in named : TRUE}

Matches(l, m) == {i \in DOMAIN l.packages : l.packages[i].name = m.name}

Key(m) == [architecture |-> m.architecture, name |-> m.name]
Matched(l, m) == Matches(l, m) # {} /\ ~ Several(Matches(l, m))
Producer(l, m) == Only({l.packages[i].producer : i \in Matches(l, m)}, Unknown)

\* Version and files of an installed package; several matches are none.
Entry(l, m) ==
    [key |-> Key(m), version |-> m.version,
     producer |-> IF Matched(l, m) THEN Producer(l, m) ELSE Unknown,
     files |-> IF Matched(l, m)
               THEN {e.path : e \in {e \in l.expected : Matches(l, m) \subseteq e.owners}}
               ELSE {}]
Population(l) == {Entry(l, m) : m \in l.manifest}

Image == [image |-> TRUE]

\* The image contains every installed package; dependencies are those between matches.
Relations(l) ==
    {[from |-> Image, relation |-> "CONTAINS", to |-> Key(m)] : m \in l.manifest}
    \cup {[from |-> Key(p[1]), relation |-> "DEPENDS_ON", to |-> Key(p[2])] :
            p \in {p \in l.manifest \X l.manifest :
                      \E d \in l.dependencies :
                          Matches(l, p[1]) = {d.from} /\ Matches(l, p[2]) = {d.to}}}

Finding(type, subject, status) == [type |-> type, subject |-> subject, status |-> status]

ComponentFindings(l) ==
    {Finding("COMPONENT_IDENTITY", Key(m),
             IF Matches(l, m) = {} THEN "MISSING_FROM_SBOM"
             ELSE IF Matched(l, m) THEN "MATCHED" ELSE "UNKNOWN") : m \in l.manifest}
    \cup {Finding("COMPONENT_FIELD", Key(m), "UNKNOWN") :
            m \in {m \in l.manifest : Entry(l, m).producer = Unknown}}
    \cup {Finding("COMPONENT_IDENTITY", [id |-> i], "NOT_IN_RELEASE") :
            i \in {i \in DOMAIN l.packages :
                      \A m \in l.manifest : m.name # l.packages[i].name}}

-----------------------------------------------------------------------------
(* _reconcile_files, and the graph *)

HashAt(files, path) == (CHOOSE f \in files : f.path = path).hash

FileStatus(l, path) ==
    IF ~ \E e \in l.expected : e.path = path THEN "MISSING_FROM_SBOM"
    ELSE IF ~ \E o \in l.observed : o.path = path THEN "NOT_IN_RELEASE"
    ELSE IF HashAt(l.expected, path) = Unknown THEN "UNKNOWN"
    ELSE IF HashAt(l.expected, path) # HashAt(l.observed, path) THEN "CONFLICT" ELSE "MATCHED"

FileFindings(l) ==
    {Finding("ROOTFS_FILE", [path |-> path], FileStatus(l, path)) :
        path \in {f.path : f \in l.expected} \cup {f.path : f \in l.observed}}

Verdict(findings) ==
    IF \A f \in findings : f.status = "MATCHED" THEN "CLOSED" ELSE "OPEN"

\* analyze_reference, of the lanes.
Graph(l) ==
    LET findings == ComponentFindings(l) \cup FileFindings(l)
    IN [lanes |-> l, population |-> Population(l), relations |-> Relations(l),
        findings |-> findings, state |-> Verdict(findings)]

\* Faulty variant: only the findings are derived anew.
StructureVerifiesByFindings(g) ==
    /\ g.findings = Graph(g.lanes).findings
    /\ g.state = Graph(g.lanes).state

\* _verify_reference_graph_structure
StructureVerifies(g) == g = Graph(g.lanes)

\* verify_reference_graph, which has the payloads, too.
GraphVerifies(g, b) == StructureVerifies(g) /\ Admitted(b) /\ g = Graph(Lanes(b))

-----------------------------------------------------------------------------
(* diff_references *)

Keys(g) == {e.key : e \in g.population}
VersionOf(g, key) == (CHOOSE e \in g.population : e.key = key).version
Paths(g) == {f.path : f \in g.lanes.observed}

\* Faulty variant: a file that is in both builds is not looked at.
ModifiedByPath(g, h) == {}

Modified(g, h) ==
    {[path |-> path, to |-> HashAt(h.lanes.observed, path)] :
        path \in {path \in Paths(g) \cap Paths(h) :
                     HashAt(g.lanes.observed, path) # HashAt(h.lanes.observed, path)}}

Difference(g, h) ==
    [added |-> {[key |-> k, version |-> VersionOf(h, k)] : k \in Keys(h) \ Keys(g)},
     removed |-> Keys(g) \ Keys(h),
     updated |-> {[key |-> k, version |-> VersionOf(h, k)] :
                     k \in {k \in Keys(g) \cap Keys(h) : VersionOf(g, k) # VersionOf(h, k)}},
     filesAdded |-> Paths(h) \ Paths(g),
     filesRemoved |-> Paths(g) \ Paths(h),
     filesModified |-> Modified(g, h)]

-----------------------------------------------------------------------------
(* Graphs are made, kept, changed and compared *)

GraphInit ==
    /\ builds \in [{"from", "to"} -> Build]
    /\ graphs = [n \in {"from", "to"} |-> NoGraph]
    /\ difference = NoGraph
    /\ changed = 0

AnalyzeBuild(n) ==
    /\ graphs[n] = NoGraph
    /\ Admitted(builds[n])
    /\ graphs' = [graphs EXCEPT ![n] = Graph(Lanes(builds[n]))]
    /\ UNCHANGED <<builds, difference, changed>>

\* A part of a graph in its file is replaced by that of the other one, and the hash
\* that the graph has of itself made to match.
ChangeGraph(n, part) ==
    /\ NoGraph \notin {graphs["from"], graphs["to"]} /\ difference = NoGraph
    /\ changed < MaxChanged
    /\ changed' = changed + 1
    /\ LET other == graphs[IF n = "from" THEN "to" ELSE "from"]
       IN graphs' = [graphs EXCEPT ![n] = [@ EXCEPT ![part] = other[part]]]
    /\ UNCHANGED <<builds, difference>>

CompareBuilds ==
    /\ NoGraph \notin {graphs["from"], graphs["to"]} /\ difference = NoGraph
    /\ StructureVerifies(graphs["from"]) /\ StructureVerifies(graphs["to"])
    /\ difference' = Difference(graphs["from"], graphs["to"])
    /\ UNCHANGED <<builds, graphs, changed>>

GraphPart == {"lanes", "population", "relations", "findings", "state"}

GraphNext ==
    \/ \E n \in {"from", "to"} :
          AnalyzeBuild(n) \/ \E part \in GraphPart : ChangeGraph(n, part)
    \/ CompareBuilds

GraphSpec == GraphInit /\ [][GraphNext]_graphVars

-----------------------------------------------------------------------------
(* Properties *)

\* A graph that verifies is CLOSED only if its build says the same three times: one
\* SPDX package for each installed one and none besides, with its producer; the
\* regular files of the archive are those of the image, with their hashes; and the
\* dependencies in the graph are all those between the packages.
SaysTheSame(b, g) ==
    /\ \A m \in b.manifest : \E i \in DOMAIN b.packages :
           /\ b.packages[i].producer # Unknown
           /\ \A j \in DOMAIN b.packages : (b.packages[j].name = m.name) <=> (j = i)
    /\ \A i \in DOMAIN b.packages : \E m \in b.manifest : m.name = b.packages[i].name
    /\ \A f \in b.rootFiles :
           \E x \in b.archive : /\ x.kind = "file" /\ x.path = b.files[f].path
                                /\ b.files[f].hash \in {x.content, Unknown}
    /\ \A x \in b.archive : x.kind = "file" =>
           \E f \in b.rootFiles : b.files[f].path = x.path /\ b.files[f].hash = x.content
    /\ \A m, n \in b.manifest :
           [from |-> Key(m), relation |-> "DEPENDS_ON", to |-> Key(n)] \in g.relations
           <=> \E d \in b.dependencies :
                  /\ {d.from, d.to} \subseteq DOMAIN b.packages
                  /\ b.packages[d.from].name = m.name /\ b.packages[d.to].name = n.name

ClosedReferenceIsExact ==
    \A n \in DOMAIN builds :
        graphs[n] # NoGraph /\ GraphVerifies(graphs[n], builds[n]) /\ graphs[n].state = "CLOSED"
            => SaysTheSame(builds[n], graphs[n])

\* The difference of two graphs makes of what the earlier graph's payloads list what
\* the later one's list, also if somebody has changed a part of a graph meanwhile.
Installed(l) == {[key |-> Key(m), version |-> m.version] : m \in l.manifest}

DifferenceIsComplete ==
    difference # NoGraph =>
        LET before == graphs["from"].lanes
            after == graphs["to"].lanes
            replaced == {u.key : u \in difference.updated} \cup difference.removed
            rewritten == {f.path : f \in difference.filesModified} \cup difference.filesRemoved
        IN /\ Installed(after) =
                 {m \in Installed(before) : m.key \notin replaced}
                 \cup difference.updated \cup difference.added
           /\ {o \in after.observed : o.path \notin difference.filesAdded} =
                 {o \in before.observed : o.path \notin rewritten}
                 \cup {[path |-> f.path, hash |-> f.to] : f \in difference.filesModified}
           /\ difference.filesAdded \subseteq {o.path : o \in after.observed}
=============================================================================
