--------------------------- MODULE SelftestProofs ---------------------------
(***************************************************************************)
(* Scans, signatures, roots put together from several, handoffs and        *)
(* narrowed decisions: each alone, for any number of calls, any documents  *)
(* and any bounds.                                                         *)
(***************************************************************************)
EXTENDS NarrowedDecisions, FiniteSetTheorems, TLAPS

-----------------------------------------------------------------------------
(* Scanning *)

ScanSpec == ScanInit /\ [][ScanNext]_scanVars

\* What may be left of a phase.
Todo ==
    {InputOrder, <<"PORTABLE_RUNTIME", "OCI_ARCHIVE">>, <<"OCI_ARCHIVE">>,
     ScanOrder, <<"OCI_ARCHIVE", "PORTABLE_RUNTIME">>, <<"PORTABLE_RUNTIME">>}

\* How far the process is with a profile.
Ahead(p) == p \in Elements(todo)
Scanning == pc \in {"scan", "observe", "record"}
Sealing == pc \in {"seal", "receipt", "complete", "hash", "done"}
Checked == pc \in {"recheck_scanner", "compare"} \/ Sealing
Identified(p) == (pc = "identify" /\ ~ Ahead(p)) \/ Scanning \/ pc = "recheck" \/ Checked
Recorded(p) == (Scanning /\ ~ Ahead(p)) \/ pc = "recheck" \/ Checked
Observed(p) == Recorded(p) \/ (pc = "record" /\ p = Head(todo))
IsScanned(p) == Observed(p) \/ (pc = "observe" /\ p = Head(todo))
Rechecked(p) == (pc = "recheck" /\ ~ Ahead(p)) \/ Checked
Copied == pc = "identify" \/ Scanning \/ pc = "recheck" \/ Checked

\* A thing that was edited at most once has as version how often it was edited.
VersionInv ==
    /\ version \in [Versioned -> {0, 1}] /\ edits \in [Thing -> Nat]
    /\ \A t \in Versioned : edits[t] <= 1 => version[t] = edits[t]
    /\ pc \in {"start", "acquire", "snapshot"} => edits["copy"] = 0
    /\ pc \in {"acquire", "snapshot"} => root.scanner = Absent
    /\ Copied => root.scanner \in {0, 1} /\ (edits["copy"] <= 1 => root.scanner = edits["copy"])

\* So what was identified, scanned and identified again can only have grown.
InputInv(p) ==
    /\ Identified(p) =>
          job.identity[p] \in {0, 1} /\ (edits[p] <= 1 => job.identity[p] <= version[p])
    /\ IsScanned(p) =>
          /\ scanned[p].input \in {0, 1}
          /\ edits[p] <= 1 =>
                job.identity[p] <= scanned[p].input /\ scanned[p].input <= version[p]
    /\ Rechecked(p) => edits[p] > 1 \/ scanned[p].input = job.identity[p]

CopyInv(p) ==
    /\ IsScanned(p) =>
          scanned[p].scanner \in {0, 1}
          /\ (edits["copy"] <= 1 => scanned[p].scanner <= root.scanner)
    /\ pc = "compare" \/ Sealing => edits["copy"] > 1 \/ scanned[p].scanner = Pinned

ObservedInv(p) ==
    Observed(p) =>
        job.observations[p] = Observation(p, job.identity[p], job.observations[p].document)

\* A raw file is what it was, or damaged for good.
Later(x, y) == y \in {x, Damaged}
Files(raw) == [f \in Format |-> raw[f]]

RawInv(p) ==
    /\ IsScanned(p) => root.raw[p] = Files(root.raw[p])
    /\ Recorded(p) =>
          /\ job.rawSets[p] = Files(job.rawSets[p])
          /\ \A f \in Format : Later(job.rawSets[p][f], root.raw[p][f])
    /\ Sealing =>
          /\ job.raw[p] = Files(job.raw[p])
          /\ \A f \in Format : /\ Later(job.rawSets[p][f], job.raw[p][f])
                               /\ Later(job.raw[p][f], root.raw[p][f])

ScanTypes ==
    /\ pc \in {"start", "acquire", "snapshot", "identify", "scan", "observe", "record", "recheck",
               "recheck_scanner", "compare", "seal", "receipt", "complete", "hash", "done",
               "failing", "failed", "mute", "dead"}
    /\ pc \in {"identify", "recheck"} \/ Scanning => todo \in Todo
    /\ DOMAIN job = {"identity", "observations", "rawSets", "raw"} /\ job = [x \in DOMAIN job |-> job[x]]
    /\ job.identity = [p \in Profile |-> job.identity[p]]
    /\ job.observations = [p \in Profile |-> job.observations[p]]
    /\ job.rawSets = [p \in Profile |-> job.rawSets[p]]
    /\ Sealing => job.raw = [p \in Profile |-> job.raw[p]]
    /\ scanned = [p \in Profile |-> scanned[p]]
    /\ IF pc = "start" THEN root = Absent
       ELSE /\ root = [x \in DOMAIN EmptyRoot |-> root[x]]
            /\ root.raw = [p \in Profile |-> root.raw[p]]
            /\ \A p \in Profile : root.raw[p] # Absent => root.raw[p] = Files(root.raw[p])
    /\ pc = "failed" => root.failed = TRUE

\* What is known of a root with a receipt, also after a failure or a death.
SealedPackage ==
    root.package = Package(job.observations, job.identity["SOURCE_DIRECTORY"], job.raw)
SettledFor(p) ==
    /\ job.observations[p] = Observation(p, job.identity[p], job.observations[p].document)
    /\ edits[p] > 1 \/ scanned[p].input = job.identity[p]
    /\ edits["copy"] > 1 \/ scanned[p].scanner = Pinned
    /\ job.rawSets[p] = Files(job.rawSets[p]) /\ job.raw[p] = Files(job.raw[p])
    /\ root.raw[p] = Files(root.raw[p])
    /\ \A f \in Format : /\ Later(job.rawSets[p][f], job.raw[p][f])
                         /\ Later(job.raw[p][f], root.raw[p][f])
Settled ==
    /\ root.receipt = Receipt(job.observations, job.rawSets, root.package)
    /\ SealedPackage
    /\ job.raw = [p \in Profile |-> job.raw[p]]
    /\ \A p \in Profile : SettledFor(p)

ReceiptInv ==
    /\ pc \in {"acquire", "snapshot", "identify", "scan", "observe", "record", "recheck",
               "recheck_scanner", "compare", "seal", "receipt"} => root.receipt = Absent
    /\ pc = "receipt" => SealedPackage
    /\ pc # "start" /\ root.receipt # Absent => Settled

ScanInv ==
    /\ ScanTypes /\ VersionInv /\ ReceiptInv
    /\ \A p \in Profile : InputInv(p) /\ CopyInv(p) /\ ObservedInv(p) /\ RawInv(p)

LEMMA OneElement ==
    ASSUME NEW x
    PROVE  Len(<<x>>) = 1 /\ Head(<<x>>) = x /\ Elements(<<x>>) = {x}
<1>1. Len(<<x>>) = 1 /\ Head(<<x>>) = x /\ <<x>>[1] = x /\ 1..1 = {1}
  OBVIOUS
<1> QED
  BY <1>1 DEF Elements

LEMMA TwoElements ==
    ASSUME NEW x, NEW y
    PROVE  /\ Len(<<x, y>>) = 2 /\ Head(<<x, y>>) = x /\ Tail(<<x, y>>) = <<y>>
           /\ Elements(<<x, y>>) = {x, y}
<1>1. Len(<<x, y>>) = 2 /\ Head(<<x, y>>) = x /\ <<x, y>>[1] = x /\ <<x, y>>[2] = y /\ 1..2 = {1, 2}
  OBVIOUS
<1>2. Tail(<<x, y>>) = <<y>>
  OBVIOUS
<1> QED
  BY <1>1, <1>2 DEF Elements

LEMMA ThreeElements ==
    ASSUME NEW x, NEW y, NEW z
    PROVE  /\ Len(<<x, y, z>>) = 3 /\ Head(<<x, y, z>>) = x /\ Tail(<<x, y, z>>) = <<y, z>>
           /\ Elements(<<x, y, z>>) = {x, y, z}
<1>1. /\ Len(<<x, y, z>>) = 3 /\ Head(<<x, y, z>>) = x
      /\ <<x, y, z>>[1] = x /\ <<x, y, z>>[2] = y /\ <<x, y, z>>[3] = z /\ 1..3 = {1, 2, 3}
  OBVIOUS
<1>2. Tail(<<x, y, z>>) = <<y, z>>
  OBVIOUS
<1> QED
  BY <1>1, <1>2 DEF Elements

LEMMA TodoFacts ==
    ASSUME NEW s \in Todo
    PROVE  /\ Head(s) \in Profile /\ Head(s) \in Elements(s) /\ Elements(s) \subseteq Profile
           /\ Len(s) = 1 => Elements(s) = {Head(s)}
           /\ Len(s) # 1 => Elements(Tail(s)) = Elements(s) \ {Head(s)} /\ Tail(s) \in Todo
<1>1. CASE s \in {<<"OCI_ARCHIVE">>, <<"PORTABLE_RUNTIME">>}
  BY <1>1, OneElement DEF Profile
<1>2. CASE s = <<"PORTABLE_RUNTIME", "OCI_ARCHIVE">>
  BY <1>2, TwoElements, OneElement DEF Profile, Todo, InputOrder, ScanOrder
<1>3. CASE s = <<"OCI_ARCHIVE", "PORTABLE_RUNTIME">>
  BY <1>3, TwoElements, OneElement DEF Profile, Todo, InputOrder, ScanOrder
<1>4. ASSUME NEW x \in Profile, NEW y \in Profile, NEW z \in Profile, x # y, x # z,
             s = <<x, y, z>>, <<y, z>> \in Todo
      PROVE  /\ Head(s) \in Profile /\ Head(s) \in Elements(s) /\ Elements(s) \subseteq Profile
             /\ Len(s) = 1 => Elements(s) = {Head(s)}
             /\ Len(s) # 1 => Elements(Tail(s)) = Elements(s) \ {Head(s)} /\ Tail(s) \in Todo
  <2>1. Len(s) = 3 /\ Head(s) = x /\ Tail(s) = <<y, z>> /\ Elements(s) = {x, y, z}
    BY <1>4, ThreeElements
  <2>2. Elements(<<y, z>>) = {y, z}
    BY TwoElements
  <2> QED
    BY <1>4, <2>1, <2>2
<1>5. CASE s = InputOrder
  BY <1>5, <1>4 DEF Profile, Todo, InputOrder
<1>6. CASE s = ScanOrder
  BY <1>6, <1>4 DEF Profile, Todo, ScanOrder
<1> QED
  BY <1>1, <1>2, <1>3, <1>5, <1>6 DEF Todo

LEMMA OrderFacts == Elements(InputOrder) = Profile /\ Elements(ScanOrder) = Profile
<1>1. Elements(InputOrder) = {"SOURCE_DIRECTORY", "PORTABLE_RUNTIME", "OCI_ARCHIVE"}
  BY ThreeElements DEF InputOrder
<1>2. Elements(ScanOrder) = {"SOURCE_DIRECTORY", "OCI_ARCHIVE", "PORTABLE_RUNTIME"}
  BY ThreeElements DEF ScanOrder
<1> QED
  BY <1>1, <1>2 DEF Profile

LEMMA ScanInitInv == ScanInit => ScanInv
<1> SUFFICES ASSUME ScanInit PROVE ScanInv
  OBVIOUS
<1>1. ScanTypes
  BY DEF ScanInit, ScanTypes, NoJob, Scanning, Sealing
<1>2. VersionInv
  BY DEF ScanInit, VersionInv, Versioned, Thing, Profile, Copied, Scanning, Checked, Sealing
<1>3. ReceiptInv
  BY DEF ScanInit, ReceiptInv
<1>4. ~ Sealing /\ pc # "compare" /\ \A p \in Profile :
         ~ Identified(p) /\ ~ IsScanned(p) /\ ~ Rechecked(p) /\ ~ Observed(p) /\ ~ Recorded(p)
  BY DEF ScanInit, Identified, IsScanned, Rechecked, Observed, Recorded, Sealing, Checked,
         Scanning
<1> QED
  BY <1>1, <1>2, <1>3, <1>4 DEF ScanInv, InputInv, CopyInv, ObservedInv, RawInv

\* A failure or a death leaves what is known of a root with a receipt.
LEMMA EndKeepsScanInv ==
    ASSUME ScanInv, pc # "start", pc' \in {"failing", "failed", "mute", "dead"},
           root' = [x \in DOMAIN EmptyRoot |-> root'[x]],
           root'.raw = root.raw, root'.package = root.package, root'.receipt = root.receipt,
           pc' = "failed" => root'.failed = TRUE,
           UNCHANGED <<job, version, edits, scanned>>
    PROVE  ScanInv'
<1>1. ~ Sealing' /\ ~ Scanning' /\ ~ Checked' /\ ~ Copied' /\ \A p \in Profile :
         ~ Identified(p)' /\ ~ IsScanned(p)' /\ ~ Rechecked(p)' /\ ~ Observed(p)' /\ ~ Recorded(p)'
  BY DEF Identified, IsScanned, Rechecked, Observed, Recorded, Sealing, Checked, Scanning, Copied
<1>2. ScanTypes'
  BY <1>1 DEF ScanInv, ScanTypes, Files
<1>3. VersionInv'
  BY <1>1 DEF ScanInv, VersionInv
<1>4. ReceiptInv'
  BY DEF ScanInv, ReceiptInv, Settled, SealedPackage, SettledFor, Files
<1>5. \A p \in Profile : InputInv(p)' /\ CopyInv(p)' /\ ObservedInv(p)' /\ RawInv(p)'
  BY <1>1 DEF InputInv, CopyInv, ObservedInv, RawInv
<1> QED
  BY <1>2, <1>3, <1>4, <1>5 DEF ScanInv

\* Something is not what it should be, or an operation fails.
LEMMA FailKeepsScanInv ==
    ASSUME ScanInv, pc # "start", pc' \in {"failing", "mute", "dead"},
           UNCHANGED <<job, root, version, edits, scanned>>
    PROVE  ScanInv'
  BY EndKeepsScanInv DEF ScanInv, ScanTypes

LEMMA StartKeepsScanInv == ASSUME ScanInv, Start PROVE ScanInv'
<1>1. /\ pc = "start" /\ pc' = "acquire" /\ root' = EmptyRoot
      /\ UNCHANGED <<job, version, edits, scanned>>
  BY DEF Start, ScanTo, World
<1>2. ~ Sealing' /\ ~ Scanning' /\ ~ Checked' /\ ~ Copied' /\ \A p \in Profile :
         ~ Identified(p)' /\ ~ IsScanned(p)' /\ ~ Rechecked(p)' /\ ~ Observed(p)' /\ ~ Recorded(p)'
  BY <1>1 DEF Identified, IsScanned, Rechecked, Observed, Recorded, Sealing, Checked,
              Scanning, Copied
<1>3. ScanTypes'
  BY <1>1, <1>2 DEF ScanInv, ScanTypes, EmptyRoot
<1>4. VersionInv'
  BY <1>1, <1>2 DEF ScanInv, VersionInv, EmptyRoot
<1>5. ReceiptInv'
  BY <1>1 DEF ReceiptInv, EmptyRoot
<1>6. \A p \in Profile : InputInv(p)' /\ CopyInv(p)' /\ ObservedInv(p)' /\ RawInv(p)'
  BY <1>1, <1>2 DEF InputInv, CopyInv, ObservedInv, RawInv
<1> QED
  BY <1>3, <1>4, <1>5, <1>6 DEF ScanInv

LEMMA AcquireKeepsScanInv == ASSUME ScanInv, Acquire PROVE ScanInv'
<1>1. pc = "acquire" /\ UNCHANGED <<job, root, version, edits, scanned>> /\ pc' \in {"snapshot", "failing"}
  BY DEF Acquire, ScanTo, Fail, World
<1>2. CASE pc' = "failing"
  BY <1>1, <1>2, FailKeepsScanInv
<1>3. CASE pc' = "snapshot"
  <2>1. ~ Sealing' /\ ~ Scanning' /\ ~ Checked' /\ ~ Copied' /\ \A p \in Profile :
           ~ Identified(p)' /\ ~ IsScanned(p)' /\ ~ Rechecked(p)' /\ ~ Observed(p)' /\ ~ Recorded(p)'
    BY <1>3 DEF Identified, IsScanned, Rechecked, Observed, Recorded, Sealing, Checked,
                Scanning, Copied
  <2>2. ScanTypes'
    BY <1>1, <1>3, <2>1 DEF ScanInv, ScanTypes, Files
  <2>3. VersionInv'
    BY <1>1, <1>3, <2>1 DEF ScanInv, VersionInv
  <2>4. ReceiptInv'
    BY <1>1, <1>3 DEF ScanInv, ReceiptInv
  <2>5. \A p \in Profile : InputInv(p)' /\ CopyInv(p)' /\ ObservedInv(p)' /\ RawInv(p)'
    BY <1>3, <2>1 DEF InputInv, CopyInv, ObservedInv, RawInv
  <2> QED
    BY <2>2, <2>3, <2>4, <2>5 DEF ScanInv
<1> QED
  BY <1>1, <1>2, <1>3

LEMMA SnapshotKeepsScanInv == ASSUME ScanInv, Snapshot PROVE ScanInv'
<1>1. /\ pc = "snapshot" /\ root' = [root EXCEPT !.scanner = version["scanner"]]
      /\ UNCHANGED <<job, version, edits, scanned>>
      /\ \/ pc' = "failing"
         \/ pc' = "identify" /\ todo' = InputOrder /\ version["scanner"] = 0
  BY DEF Snapshot, ScanTo, Fail, World, Pinned
<1>2. /\ root = [x \in DOMAIN EmptyRoot |-> root[x]] /\ root.raw = [p \in Profile |-> root.raw[p]]
      /\ \A p \in Profile : root.raw[p] # Absent => root.raw[p] = Files(root.raw[p])
      /\ root.receipt = Absent
  BY <1>1 DEF ScanInv, ScanTypes, ReceiptInv
<1>3. /\ root' = [x \in DOMAIN EmptyRoot |-> root'[x]] /\ root'.raw = root.raw
      /\ root'.receipt = root.receipt /\ root'.package = root.package
      /\ root'.scanner = version["scanner"]
  BY <1>1, <1>2 DEF EmptyRoot
<1>4. CASE pc' = "failing"
  BY <1>1, <1>3, <1>4, EndKeepsScanInv
<1>5. CASE pc' = "identify" /\ todo' = InputOrder /\ version["scanner"] = 0
  <2>1. ~ Sealing' /\ ~ Scanning' /\ ~ Checked' /\ \A p \in Profile :
           ~ Identified(p)' /\ ~ IsScanned(p)' /\ ~ Rechecked(p)' /\ ~ Observed(p)' /\ ~ Recorded(p)'
    BY <1>5, OrderFacts
       DEF Identified, IsScanned, Rechecked, Observed, Recorded, Sealing, Checked, Scanning, Ahead
  <2>2. ScanTypes'
    BY <1>1, <1>2, <1>3, <1>5, <2>1, SMTT(40) DEF ScanInv, ScanTypes, Files, Todo
  <2>3. VersionInv'
    BY <1>1, <1>3, <1>5, <2>1 DEF ScanInv, VersionInv
  <2>4. ReceiptInv'
    BY <1>1, <1>2, <1>3, <1>5 DEF ReceiptInv
  <2>5. \A p \in Profile : InputInv(p)' /\ CopyInv(p)' /\ ObservedInv(p)' /\ RawInv(p)'
    BY <1>5, <2>1 DEF InputInv, CopyInv, ObservedInv, RawInv
  <2> QED
    BY <2>2, <2>3, <2>4, <2>5 DEF ScanInv
<1> QED
  BY <1>1, <1>4, <1>5

LEMMA IdentifyKeepsScanInv == ASSUME ScanInv, Identify PROVE ScanInv'
<1> DEFINE h == Head(todo)
<1>1. /\ pc = "identify" /\ todo \in Todo /\ job' = [job EXCEPT !.identity[h] = version[h]]
      /\ UNCHANGED <<root, version, edits, scanned>>
      /\ \/ Len(todo) = 1 /\ pc' = "scan" /\ todo' = ScanOrder
         \/ Len(todo) # 1 /\ pc' = "identify" /\ todo' = Tail(todo)
  BY DEF Identify, Onward, ScanTo, World, ScanInv, ScanTypes
<1>2. /\ h \in Profile /\ h \in Elements(todo)
      /\ \A p \in Profile : Identified(p)' => p = h \/ Identified(p)
      /\ pc' = "identify" \/ Scanning => todo' \in Todo
      /\ \A p \in Profile : ~ IsScanned(p)' /\ ~ Rechecked(p)' /\ ~ Observed(p)' /\ ~ Recorded(p)'
      /\ ~ Sealing' /\ ~ Checked'
      /\ todo' \in Todo
  <2>1. CASE pc' = "scan"
    BY <1>1, <2>1, TodoFacts, OrderFacts
       DEF Todo, Identified, IsScanned, Rechecked, Observed, Recorded, Sealing, Checked,
           Scanning, Ahead
  <2>2. CASE pc' = "identify"
    BY <1>1, <2>2, TodoFacts DEF Identified, IsScanned, Rechecked, Observed, Recorded,
                                 Sealing, Checked, Scanning, Ahead
  <2> QED
    BY <1>1, <2>1, <2>2
<1>3. /\ job'.identity = [job.identity EXCEPT ![h] = version[h]]
      /\ job'.observations = job.observations /\ job'.rawSets = job.rawSets /\ job'.raw = job.raw
      /\ DOMAIN job' = DOMAIN job /\ job' = [x \in DOMAIN job' |-> job'[x]]
  BY <1>1 DEF ScanInv, ScanTypes
<1>4. ScanTypes'
  BY <1>1, <1>2, <1>3 DEF ScanInv, ScanTypes, Files
<1>5. VersionInv'
  BY <1>1, <1>2 DEF ScanInv, VersionInv, Copied
<1>6. ReceiptInv'
  BY <1>1 DEF ScanInv, ReceiptInv
<1>7. \A p \in Profile : InputInv(p)'
  <2> SUFFICES ASSUME NEW p \in Profile, Identified(p)'
               PROVE  job'.identity[p] \in {0, 1} /\ (edits'[p] <= 1 => job'.identity[p] <= version'[p])
    BY <1>2 DEF InputInv
  <2>1. version[p] \in {0, 1}
    BY DEF ScanInv, VersionInv, Versioned
  <2>2. CASE p = h
    BY <1>1, <1>2, <1>3, <2>1, <2>2 DEF ScanInv, ScanTypes
  <2>3. CASE p # h
    BY <1>1, <1>2, <1>3, <2>3 DEF ScanInv, ScanTypes, InputInv
  <2> QED
    BY <2>2, <2>3
<1>8. \A p \in Profile : CopyInv(p)' /\ ObservedInv(p)' /\ RawInv(p)'
  BY <1>1, <1>2 DEF CopyInv, ObservedInv, RawInv
<1> QED
  BY <1>4, <1>5, <1>6, <1>7, <1>8 DEF ScanInv

LEMMA ScanKeepsScanInv == ASSUME ScanInv, Scan PROVE ScanInv'
<1> DEFINE h == Head(todo)
<1>1. /\ pc = "scan" /\ pc' = "observe" /\ todo \in Todo /\ todo' = todo
      /\ UNCHANGED <<job, version, edits>>
      /\ scanned' = [scanned EXCEPT ![h] = [input |-> version[h], scanner |-> root.scanner]]
  BY DEF Scan, ScanTo, World, ScanInv, ScanTypes, Scanning
<1>2. PICK d : root' = [root EXCEPT !.raw[h] =
                           [f \in Format |-> IF f = "cyclonedx" THEN d ELSE <<f, h, version[h]>>]]
  BY DEF Scan
<1>3. h \in Profile /\ h \in Elements(todo)
  BY <1>1, TodoFacts
<1>4. /\ root = [x \in DOMAIN EmptyRoot |-> root[x]] /\ root.raw = [p \in Profile |-> root.raw[p]]
      /\ \A p \in Profile : root.raw[p] # Absent => root.raw[p] = Files(root.raw[p])
      /\ root.receipt = Absent
  BY <1>1 DEF ScanInv, ScanTypes, ReceiptInv
<1>5. /\ root' = [x \in DOMAIN EmptyRoot |-> root'[x]] /\ root'.raw = [p \in Profile |-> root'.raw[p]]
      /\ root'.receipt = Absent /\ root'.scanner = root.scanner
      /\ \A p \in Profile : p # h => root'.raw[p] = root.raw[p]
      /\ root'.raw[h] = [f \in Format |-> IF f = "cyclonedx" THEN d ELSE <<f, h, version[h]>>]
  BY <1>2, <1>3, <1>4 DEF EmptyRoot
<1>6. root'.raw[h] = Files(root'.raw[h])
  BY <1>5 DEF Files
<1>7. \A p \in Profile :
         /\ Identified(p)' <=> Identified(p)
         /\ ~ Rechecked(p)' /\ (Observed(p)' <=> Observed(p)) /\ (Recorded(p)' <=> Recorded(p))
         /\ IsScanned(p)' => p = h \/ IsScanned(p)
         /\ p = h => ~ Recorded(p)
  BY <1>1, <1>3 DEF Identified, IsScanned, Rechecked, Observed, Recorded, Sealing, Checked,
                    Scanning, Ahead
<1>8. ~ Sealing' /\ ~ Checked' /\ Scanning /\ Copied /\ Copied' /\ Scanning'
  BY <1>1 DEF Sealing, Checked, Scanning, Copied
<1>9. ScanTypes'
  <2>1. \A p \in Profile : root'.raw[p] # Absent => root'.raw[p] = Files(root'.raw[p])
    BY <1>4, <1>5, <1>6
  <2>2. scanned' = [p \in Profile |-> scanned'[p]]
    BY <1>1, <1>3 DEF ScanInv, ScanTypes
  <2>3. \A p \in Profile : Files(root'.raw[p]) = Files(root.raw[p])'
    BY DEF Files
  <2> QED
    BY <1>1, <1>5, <1>8, <2>1, <2>2, <2>3 DEF ScanInv, ScanTypes
<1>10. VersionInv'
  BY <1>1, <1>5, <1>8 DEF ScanInv, VersionInv
<1>11. ReceiptInv'
  BY <1>1, <1>5 DEF ReceiptInv
<1>12. /\ \A p \in Profile : p # h => scanned'[p] = scanned[p]
       /\ scanned'[h].input = version[h] /\ scanned'[h].scanner = root.scanner
  BY <1>1, <1>3 DEF ScanInv, ScanTypes
<1>13. root.scanner \in {0, 1} /\ \A p \in Profile : version[p] \in {0, 1}
  BY <1>8 DEF ScanInv, VersionInv, Versioned
<1>14. \A p \in Profile : InputInv(p)'
  <2> SUFFICES ASSUME NEW p \in Profile PROVE InputInv(p)'
    OBVIOUS
  <2>1. Identified(p)
    BY <1>8 DEF Identified
  <2>2. job.identity[p] \in {0, 1} /\ (edits[p] <= 1 => job.identity[p] <= version[p])
    BY <2>1 DEF ScanInv, InputInv
  <2>3. CASE p = h
    BY <1>1, <1>7, <1>12, <1>13, <2>2, <2>3 DEF InputInv
  <2>4. CASE p # h
    BY <1>1, <1>7, <1>12, <2>2, <2>4 DEF ScanInv, InputInv
  <2> QED
    BY <2>3, <2>4
<1>15. \A p \in Profile : CopyInv(p)'
  BY <1>1, <1>5, <1>7, <1>8, <1>12, <1>13 DEF ScanInv, CopyInv
<1>16. \A p \in Profile : ObservedInv(p)'
  BY <1>1, <1>7 DEF ScanInv, ObservedInv
<1>17. \A p \in Profile : RawInv(p)'
  BY <1>1, <1>5, <1>6, <1>7, <1>8 DEF ScanInv, RawInv, Files
<1> QED
  BY <1>9, <1>10, <1>11, <1>14, <1>15, <1>16, <1>17 DEF ScanInv

LEMMA ObserveKeepsScanInv == ASSUME ScanInv, Observe PROVE ScanInv'
<1> DEFINE h == Head(todo)
           d == root.raw[h]["cyclonedx"]
<1>1. /\ pc = "observe" /\ todo \in Todo /\ UNCHANGED <<root, version, edits, scanned>>
      /\ \/ pc' = "failing" /\ UNCHANGED job
         \/ /\ pc' = "record" /\ todo' = todo
            /\ job' = [job EXCEPT !.observations[h] = Observation(h, job.identity[h], d)]
  BY DEF Observe, ScanTo, Fail, World, ScanInv, ScanTypes, Scanning
<1>2. CASE pc' = "failing"
  BY <1>1, <1>2, FailKeepsScanInv
<1>3. CASE pc' = "record"
  <2>1. h \in Profile /\ h \in Elements(todo)
    BY <1>1, TodoFacts
  <2>2. /\ job'.observations = [job.observations EXCEPT ![h] = Observation(h, job.identity[h], d)]
        /\ job'.identity = job.identity /\ job'.rawSets = job.rawSets /\ job'.raw = job.raw
        /\ DOMAIN job' = DOMAIN job /\ job' = [x \in DOMAIN job' |-> job'[x]]
    BY <1>1, <1>3 DEF ScanInv, ScanTypes
  <2>3. \A p \in Profile :
           /\ Identified(p)' <=> Identified(p)
           /\ ~ Rechecked(p)' /\ (IsScanned(p)' <=> IsScanned(p)) /\ (Recorded(p)' <=> Recorded(p))
           /\ Observed(p)' => p = h \/ Observed(p)
    BY <1>1, <1>3, <2>1
       DEF Identified, IsScanned, Rechecked, Observed, Recorded, Sealing, Checked, Scanning, Ahead
  <2>4. ~ Sealing' /\ Scanning' /\ Copied
    BY <1>1, <1>3 DEF Sealing, Scanning, Copied
  <2>5. ScanTypes'
    <3>1. job'.observations = [p \in Profile |-> job'.observations[p]]
      BY <2>1, <2>2 DEF ScanInv, ScanTypes
    <3>2. pc = "observe" /\ todo' \in Todo /\ UNCHANGED <<root, scanned>>
      BY <1>1, <1>3
    <3>3. \A p \in Profile : Files(root'.raw[p]) = Files(root.raw[p])'
      BY DEF Files
    <3> HIDE DEF d, h
    <3> QED
      BY <1>3, <2>2, <2>4, <3>1, <3>2, <3>3 DEF ScanInv, ScanTypes
  <2>6. VersionInv'
    BY <1>1, <1>3, <2>4 DEF ScanInv, VersionInv
  <2>7. ReceiptInv'
    BY <1>1, <1>3 DEF ScanInv, ReceiptInv
  <2>8. \A p \in Profile : InputInv(p)' /\ CopyInv(p)'
    BY <1>1, <1>3, <2>2, <2>3, <2>4 DEF ScanInv, InputInv, CopyInv
  <2>9. \A p \in Profile : ObservedInv(p)'
    <3> SUFFICES ASSUME NEW p \in Profile, Observed(p)'
                 PROVE  job'.observations[p]
                          = Observation(p, job'.identity[p], job'.observations[p].document)
      BY DEF ObservedInv, Observation
    <3>1. CASE p = h
      BY <2>1, <2>2, <3>1 DEF ScanInv, ScanTypes, Observation
    <3>2. CASE p # h
      BY <2>1, <2>2, <2>3, <3>2 DEF ScanInv, ScanTypes, ObservedInv
    <3> QED
      BY <3>1, <3>2
  <2>10. \A p \in Profile : RawInv(p)'
    BY <1>1, <1>3, <2>2, <2>3, <2>4 DEF ScanInv, RawInv, Files
  <2> QED
    BY <2>5, <2>6, <2>7, <2>8, <2>9, <2>10 DEF ScanInv
<1> QED
  BY <1>1, <1>2, <1>3

LEMMA RecordKeepsScanInv == ASSUME ScanInv, Record PROVE ScanInv'
<1> DEFINE h == Head(todo)
<1>1. /\ pc = "record" /\ todo \in Todo /\ UNCHANGED <<root, version, edits, scanned>>
      /\ job' = [job EXCEPT !.rawSets[h] = root.raw[h]]
      /\ \/ Len(todo) = 1 /\ pc' = "recheck" /\ todo' = InputOrder
         \/ Len(todo) # 1 /\ pc' = "scan" /\ todo' = Tail(todo)
  BY DEF Record, ScanTo, World, ScanInv, ScanTypes, Scanning
<1>2. h \in Profile /\ h \in Elements(todo)
  BY <1>1, TodoFacts
<1>3. /\ job'.rawSets = [job.rawSets EXCEPT ![h] = root.raw[h]]
      /\ job'.identity = job.identity /\ job'.observations = job.observations /\ job'.raw = job.raw
      /\ DOMAIN job' = DOMAIN job /\ job' = [x \in DOMAIN job' |-> job'[x]]
  BY <1>1 DEF ScanInv, ScanTypes
<1>4. /\ \A p \in Profile :
            /\ Identified(p) /\ ~ Rechecked(p)' /\ (Recorded(p)' => p = h \/ Recorded(p))
            /\ IsScanned(p)' => IsScanned(p)
            /\ Observed(p)' => Observed(p)
      /\ todo' \in Todo /\ IsScanned(h)
      /\ ~ Sealing' /\ ~ Checked' /\ Copied
  <2>1. CASE pc' = "scan"
    BY <1>1, <1>2, <2>1, TodoFacts
       DEF Identified, IsScanned, Rechecked, Observed, Recorded, Sealing, Checked, Scanning,
           Ahead, Copied
  <2>2. CASE pc' = "recheck"
    <3>1. \A p \in Profile : Ahead(p) => p = h
      BY <1>1, <2>2, TodoFacts DEF Ahead
    <3>2. \A p \in Profile : Ahead(p)'
      BY <1>1, <2>2, OrderFacts DEF Ahead
    <3> QED
      BY <1>1, <1>2, <2>2, <3>1, <3>2
         DEF Identified, IsScanned, Rechecked, Observed, Recorded, Sealing, Checked,
             Scanning, Todo, Copied
  <2> QED
    BY <1>1, <2>1, <2>2
<1>5. ScanTypes'
  BY <1>1, <1>2, <1>3, <1>4 DEF ScanInv, ScanTypes, Files
<1>6. VersionInv'
  BY <1>1, <1>4 DEF ScanInv, VersionInv
<1>7. ReceiptInv'
  BY <1>1 DEF ScanInv, ReceiptInv
<1>8. \A p \in Profile : InputInv(p)' /\ CopyInv(p)' /\ ObservedInv(p)'
  BY <1>1, <1>3, <1>4 DEF ScanInv, InputInv, CopyInv, ObservedInv
<1>9. \A p \in Profile : RawInv(p)'
  <2> SUFFICES ASSUME NEW p \in Profile PROVE RawInv(p)'
    OBVIOUS
  <2>1. CASE p = h
    <3>1. job'.rawSets[p] = root.raw[p] /\ root.raw[p] = Files(root.raw[p])
      BY <1>2, <1>3, <1>4, <2>1 DEF ScanInv, ScanTypes, RawInv
    <3> QED
      BY <1>1, <1>4, <3>1 DEF RawInv, Files, Later
  <2>2. CASE p # h
    <3>1. job'.rawSets[p] = job.rawSets[p]
      BY <1>2, <1>3, <2>2 DEF ScanInv, ScanTypes
    <3> QED
      BY <1>1, <1>4, <2>2, <3>1 DEF ScanInv, RawInv, Files
  <2> QED
    BY <2>1, <2>2
<1> QED
  BY <1>5, <1>6, <1>7, <1>8, <1>9 DEF ScanInv

LEMMA RecheckKeepsScanInv == ASSUME ScanInv, Recheck PROVE ScanInv'
<1> DEFINE h == Head(todo)
<1>1. /\ pc = "recheck" /\ todo \in Todo /\ UNCHANGED <<job, root, version, edits, scanned>>
      /\ \/ pc' = "failing"
         \/ version[h] = job.identity[h] /\ Len(todo) = 1 /\ pc' = "recheck_scanner"
         \/ version[h] = job.identity[h] /\ Len(todo) # 1 /\ pc' = "recheck" /\ todo' = Tail(todo)
  BY DEF Recheck, Onward, ScanTo, Fail, World, ScanInv, ScanTypes
<1>2. CASE pc' = "failing"
  BY <1>1, <1>2, FailKeepsScanInv
<1>3. CASE pc' # "failing"
  <2>1. /\ \A p \in Profile :
              /\ Identified(p) /\ IsScanned(p) /\ Observed(p) /\ Recorded(p)
              /\ Rechecked(p)' => p = h \/ Rechecked(p)
        /\ h \in Profile
        /\ ~ Sealing' /\ ~ Scanning' /\ Copied /\ (pc' = "recheck" => todo' \in Todo)
    BY <1>1, <1>3, TodoFacts
       DEF Identified, IsScanned, Rechecked, Observed, Recorded, Sealing, Checked, Scanning,
           Ahead, Copied
  <2>2. ScanTypes'
    BY <1>1, <1>3, <2>1 DEF ScanInv, ScanTypes, Files
  <2>3. VersionInv'
    BY <1>1, <1>3, <2>1 DEF ScanInv, VersionInv
  <2>4. ReceiptInv'
    BY <1>1, <1>3 DEF ScanInv, ReceiptInv
  <2>5. \A p \in Profile : CopyInv(p)' /\ ObservedInv(p)' /\ RawInv(p)'
    BY <1>1, <1>3, <2>1 DEF ScanInv, CopyInv, ObservedInv, RawInv, Files
  <2>6. \A p \in Profile : InputInv(p)'
    <3> SUFFICES ASSUME NEW p \in Profile PROVE InputInv(p)'
      OBVIOUS
    <3>1. Rechecked(p)' => edits[p] > 1 \/ scanned[p].input = job.identity[p]
      <4>1. CASE p = h
        <5>1. edits[p] \in Nat /\ version[p] = job.identity[p]
          BY <1>1, <1>3, <4>1 DEF ScanInv, VersionInv, Thing, Versioned
        <5>2. /\ job.identity[p] \in {0, 1} /\ scanned[p].input \in {0, 1}
              /\ edits[p] <= 1 =>
                    job.identity[p] <= scanned[p].input /\ scanned[p].input <= version[p]
          BY <2>1 DEF ScanInv, InputInv
        <5> QED
          BY <5>1, <5>2
      <4>2. CASE p # h
        BY <2>1, <4>2 DEF ScanInv, InputInv
      <4> QED
        BY <4>1, <4>2
    <3> QED
      BY <1>1, <2>1, <3>1 DEF ScanInv, InputInv
  <2> QED
    BY <2>2, <2>3, <2>4, <2>5, <2>6 DEF ScanInv
<1> QED
  BY <1>2, <1>3

LEMMA RecheckScannerKeepsScanInv == ASSUME ScanInv, RecheckScanner PROVE ScanInv'
<1>1. /\ pc = "recheck_scanner" /\ UNCHANGED <<job, root, version, edits, scanned>>
      /\ pc' = "failing" \/ (pc' = "compare" /\ root.scanner = 0)
  BY DEF RecheckScanner, ScanTo, Fail, World, Pinned
<1>2. CASE pc' = "failing"
  BY <1>1, <1>2, FailKeepsScanInv
<1>3. CASE pc' = "compare" /\ root.scanner = 0
  <2>1. /\ \A p \in Profile :
              Identified(p) /\ IsScanned(p) /\ Observed(p) /\ Recorded(p) /\ Rechecked(p)
        /\ ~ Sealing' /\ ~ Scanning' /\ Copied
    BY <1>1, <1>3
       DEF Identified, IsScanned, Rechecked, Observed, Recorded, Sealing, Checked, Scanning,
           Copied
  <2>2. ScanTypes'
    BY <1>1, <1>3, <2>1 DEF ScanInv, ScanTypes, Files
  <2>3. VersionInv'
    BY <1>1, <1>3, <2>1 DEF ScanInv, VersionInv
  <2>4. ReceiptInv'
    BY <1>1, <1>3 DEF ScanInv, ReceiptInv
  <2>5. \A p \in Profile : InputInv(p)' /\ ObservedInv(p)' /\ RawInv(p)'
    BY <1>1, <1>3, <2>1 DEF ScanInv, InputInv, ObservedInv, RawInv, Files
  <2>6. edits["copy"] \in Nat
    BY DEF ScanInv, VersionInv, Thing
  <2>7. \A p \in Profile : CopyInv(p)'
    BY <1>1, <1>3, <2>1, <2>6 DEF ScanInv, CopyInv, Pinned
  <2> QED
    BY <2>2, <2>3, <2>4, <2>5, <2>7 DEF ScanInv
<1> QED
  BY <1>1, <1>2, <1>3

LEMMA CompareKeepsScanInv == ASSUME ScanInv, Compare PROVE ScanInv'
<1>1. /\ pc = "compare" /\ UNCHANGED <<root, version, edits, scanned>>
      /\ \/ pc' = "failing" /\ UNCHANGED job
         \/ pc' = "seal" /\ job' = [job EXCEPT !.raw = root.raw]
  BY DEF Compare, ScanTo, Fail, World
<1>2. CASE pc' = "failing"
  BY <1>1, <1>2, FailKeepsScanInv
<1>3. CASE pc' = "seal"
  <2>1. /\ \A p \in Profile :
              Identified(p) /\ IsScanned(p) /\ Observed(p) /\ Recorded(p) /\ Rechecked(p)
        /\ ~ Scanning' /\ Copied
    BY <1>1, <1>3
       DEF Identified, IsScanned, Rechecked, Observed, Recorded, Sealing, Checked, Scanning,
           Copied
  <2>2. /\ job'.raw = root.raw /\ job'.identity = job.identity
        /\ job'.observations = job.observations /\ job'.rawSets = job.rawSets
        /\ DOMAIN job' = DOMAIN job /\ job' = [x \in DOMAIN job' |-> job'[x]]
    BY <1>1, <1>3 DEF ScanInv, ScanTypes
  <2>3. ScanTypes'
    BY <1>1, <1>3, <2>1, <2>2 DEF ScanInv, ScanTypes, Files
  <2>4. VersionInv'
    BY <1>1, <1>3, <2>1 DEF ScanInv, VersionInv
  <2>5. ReceiptInv'
    BY <1>1, <1>3 DEF ScanInv, ReceiptInv
  <2>6. \A p \in Profile : InputInv(p)' /\ CopyInv(p)' /\ ObservedInv(p)'
    BY <1>1, <1>3, <2>1, <2>2 DEF ScanInv, InputInv, CopyInv, ObservedInv
  <2>7. \A p \in Profile : RawInv(p)'
    BY <1>1, <2>1, <2>2 DEF ScanInv, RawInv, Files, Later
  <2> QED
    BY <2>3, <2>4, <2>5, <2>6, <2>7 DEF ScanInv
<1> QED
  BY <1>1, <1>2, <1>3

LEMMA SealKeepsScanInv == ASSUME ScanInv, Seal PROVE ScanInv'
<1>1. /\ pc = "seal" /\ UNCHANGED <<job, version, edits, scanned>>
      /\ \/ pc' = "failing" /\ UNCHANGED root
         \/ /\ pc' = "receipt"
            /\ root' = [root EXCEPT
                  !.package = Package(job.observations, job.identity["SOURCE_DIRECTORY"], job.raw),
                  !.registry = Registration(job.observations)]
  BY DEF Seal, ScanTo, Fail, World
<1>2. CASE pc' = "failing"
  BY <1>1, <1>2, FailKeepsScanInv
<1>3. CASE pc' = "receipt"
  <2>1. /\ \A p \in Profile :
              Identified(p) /\ IsScanned(p) /\ Observed(p) /\ Recorded(p) /\ Rechecked(p)
        /\ ~ Scanning' /\ Copied /\ Sealing
    BY <1>1, <1>3
       DEF Identified, IsScanned, Rechecked, Observed, Recorded, Sealing, Checked, Scanning,
           Copied
  <2>2. root = [x \in DOMAIN EmptyRoot |-> root[x]] /\ root.receipt = Absent
    BY <1>1 DEF ScanInv, ScanTypes, ReceiptInv
  <2>3. /\ root' = [x \in DOMAIN EmptyRoot |-> root'[x]]
        /\ root'.raw = root.raw /\ root'.scanner = root.scanner /\ root'.receipt = Absent
        /\ root'.package = Package(job.observations, job.identity["SOURCE_DIRECTORY"], job.raw)
    BY <1>1, <1>3, <2>2 DEF EmptyRoot
  <2>4. ScanTypes'
    BY <1>1, <1>3, <2>1, <2>3 DEF ScanInv, ScanTypes, Files
  <2>5. VersionInv'
    BY <1>1, <1>3, <2>1, <2>3 DEF ScanInv, VersionInv
  <2>6. ReceiptInv'
    BY <1>1, <1>3, <2>3 DEF ReceiptInv, SealedPackage
  <2>7. \A p \in Profile : InputInv(p)' /\ CopyInv(p)' /\ ObservedInv(p)'
    BY <1>1, <1>3, <2>1, <2>3 DEF ScanInv, InputInv, CopyInv, ObservedInv
  <2>8. \A p \in Profile : RawInv(p)'
    BY <1>1, <2>1, <2>3 DEF ScanInv, RawInv, Files
  <2> QED
    BY <2>4, <2>5, <2>6, <2>7, <2>8 DEF ScanInv
<1> QED
  BY <1>1, <1>2, <1>3

\* The receipt is written, completed and hashed; what is known then stays known.
LEMMA WriteKeepsScanInv ==
    ASSUME ScanInv, NEW receipt,
           \/ pc = "receipt" /\ pc' = "complete"
              /\ receipt = Receipt(job.observations, job.rawSets, root.package)
           \/ pc = "complete" /\ pc' = "hash" /\ receipt = root.receipt
           \/ pc = "hash" /\ pc' = "done" /\ receipt = root.receipt,
           root' = [x \in DOMAIN EmptyRoot |-> root'[x]], root'.raw = root.raw,
           root'.scanner = root.scanner, root'.package = root.package, root'.receipt = receipt,
           UNCHANGED <<job, version, edits, scanned>>
    PROVE  ScanInv'
<1>1. /\ \A p \in Profile :
            Identified(p) /\ IsScanned(p) /\ Observed(p) /\ Recorded(p) /\ Rechecked(p)
      /\ ~ Scanning' /\ Copied /\ Sealing /\ pc \in {"receipt", "complete", "hash"}
      /\ pc' \in {"complete", "hash", "done"}
  BY DEF Identified, IsScanned, Rechecked, Observed, Recorded, Sealing, Checked, Scanning, Copied
<1>2. ScanTypes'
  BY <1>1 DEF ScanInv, ScanTypes, Files
<1>3. VersionInv'
  BY <1>1 DEF ScanInv, VersionInv
<1>4. \A p \in Profile : InputInv(p)' /\ CopyInv(p)' /\ ObservedInv(p)'
  BY <1>1 DEF ScanInv, InputInv, CopyInv, ObservedInv
<1>5. \A p \in Profile : RawInv(p)'
  BY <1>1 DEF ScanInv, RawInv, Files
<1>6. ReceiptInv'
  <2>1. ASSUME root'.receipt # Absent PROVE Settled'
    <3>1. CASE pc = "receipt"
      <4>1. \A p \in Profile : SettledFor(p)
        BY <1>1 DEF ScanInv, InputInv, CopyInv, ObservedInv, RawInv, SettledFor
      <4>2. \A p \in Profile : SettledFor(p)'
        BY <4>1 DEF SettledFor, Files
      <4> QED
        BY <1>1, <3>1, <4>2 DEF ScanInv, ScanTypes, ReceiptInv, Settled, SealedPackage
    <3>2. CASE pc # "receipt"
      BY <1>1, <2>1, <3>2 DEF ScanInv, ReceiptInv, Settled, SealedPackage, SettledFor, Files
    <3> QED
      BY <3>1, <3>2
  <2> QED
    BY <1>1, <2>1 DEF ReceiptInv
<1> QED
  BY <1>2, <1>3, <1>4, <1>5, <1>6 DEF ScanInv

LEMMA WriteStepsKeepScanInv ==
    ASSUME ScanInv, WriteReceipt \/ WriteCompletion \/ HashCompletion PROVE ScanInv'
<1>1. pc # "start" => root = [x \in DOMAIN EmptyRoot |-> root[x]]
  BY DEF ScanInv, ScanTypes
<1>2. CASE WriteReceipt
  <2>1. root' = [root EXCEPT !.receipt = Receipt(job.observations, job.rawSets, root.package)]
        /\ pc = "receipt" /\ pc' = "complete" /\ UNCHANGED <<job, version, edits, scanned>>
    BY <1>2 DEF WriteReceipt, ScanTo, World
  <2>2. /\ root' = [x \in DOMAIN EmptyRoot |-> root'[x]] /\ root'.raw = root.raw
        /\ root'.scanner = root.scanner /\ root'.package = root.package
        /\ root'.receipt = Receipt(job.observations, job.rawSets, root.package)
    BY <1>1, <2>1 DEF EmptyRoot
  <2> QED
    BY <2>1, <2>2, WriteKeepsScanInv
<1>3. CASE WriteCompletion
  <2>1. root' = [root EXCEPT !.complete = Completion(root.receipt)]
        /\ pc = "complete" /\ pc' = "hash" /\ UNCHANGED <<job, version, edits, scanned>>
    BY <1>3 DEF WriteCompletion, ScanTo, World
  <2>2. /\ root' = [x \in DOMAIN EmptyRoot |-> root'[x]] /\ root'.raw = root.raw
        /\ root'.scanner = root.scanner /\ root'.package = root.package
        /\ root'.receipt = root.receipt
    BY <1>1, <2>1 DEF EmptyRoot
  <2> QED
    BY <2>1, <2>2, WriteKeepsScanInv
<1>4. CASE HashCompletion
  BY <1>1, <1>4, WriteKeepsScanInv DEF HashCompletion, ScanTo, World
<1> QED
  BY <1>2, <1>3, <1>4

LEMMA WriteFailureKeepsScanInv == ASSUME ScanInv, WriteFailure PROVE ScanInv'
<1>1. /\ pc = "failing" /\ pc' = "failed" /\ root' = [root EXCEPT !.failed = TRUE]
      /\ UNCHANGED <<job, version, edits, scanned>>
  BY DEF WriteFailure, ScanTo, World
<1>2. root = [x \in DOMAIN EmptyRoot |-> root[x]]
  BY <1>1 DEF ScanInv, ScanTypes
<1>3. /\ root' = [x \in DOMAIN EmptyRoot |-> root'[x]] /\ root'.raw = root.raw
      /\ root'.package = root.package /\ root'.receipt = root.receipt /\ root'.failed = TRUE
  BY <1>1, <1>2 DEF EmptyRoot
<1> QED
  BY <1>1, <1>3, EndKeepsScanInv

LEMMA FaultKeepsScanInv ==
    ASSUME ScanInv, StepFails \/ FailureUnrecorded \/ Kill PROVE ScanInv'
<1>1. /\ pc # "start" /\ pc' \in {"failing", "mute", "dead"}
      /\ UNCHANGED <<job, root, version, edits, scanned>>
  BY DEF StepFails, FailureUnrecorded, Kill, Ended, Fail, ScanTo, World
<1> QED
  BY <1>1, FailKeepsScanInv

\* Somebody edits an input or the scanner: versions can only grow, until a second edit.
LEMMA EditInputKeepsScanInv ==
    ASSUME ScanInv, NEW t \in Versioned, Edit(t) PROVE ScanInv'
<1>1. /\ pc \notin Ended
      /\ version' = [version EXCEPT ![t] = 1 - version[t]] /\ edits' = [edits EXCEPT ![t] = edits[t] + 1]
      /\ UNCHANGED <<pc, todo, job, root, scanned>>
  BY DEF Edit, Versioned, Profile
<1>2. /\ version \in [Versioned -> {0, 1}] /\ edits \in [Thing -> Nat] /\ "copy" \notin Versioned
      /\ \A u \in Versioned : edits[u] <= 1 => version[u] = edits[u]
  BY DEF ScanInv, VersionInv, Versioned, Profile
<1>3. /\ version' \in [Versioned -> {0, 1}] /\ edits' \in [Thing -> Nat]
      /\ \A u \in Versioned : edits'[u] <= 1 => version'[u] = edits'[u]
      /\ edits'["copy"] = edits["copy"]
      /\ \A u \in Versioned : edits[u] <= edits'[u] /\ (edits'[u] <= 1 => version[u] <= version'[u])
  BY <1>1, <1>2 DEF Thing
<1>4. Profile \subseteq Versioned
  BY DEF Versioned
<1>5. VersionInv'
  BY <1>1, <1>3 DEF ScanInv, VersionInv, Copied, Scanning, Checked, Sealing
<1>6. ScanTypes'
  BY <1>1 DEF ScanInv, ScanTypes, Files, Scanning, Sealing
<1>7. ASSUME NEW p \in Profile PROVE InputInv(p)'
  <2>1. /\ edits[p] \in Nat /\ edits'[p] \in Nat /\ edits[p] <= edits'[p]
        /\ version[p] \in {0, 1} /\ version'[p] \in {0, 1}
        /\ edits'[p] <= 1 => version[p] <= version'[p]
    BY <1>2, <1>3, <1>4 DEF Thing
  <2>2. Identified(p) =>
            job.identity[p] \in {0, 1} /\ (edits'[p] <= 1 => job.identity[p] <= version'[p])
    BY <2>1 DEF ScanInv, InputInv
  <2>3. IsScanned(p) =>
            /\ scanned[p].input \in {0, 1}
            /\ edits'[p] <= 1 =>
                  job.identity[p] <= scanned[p].input /\ scanned[p].input <= version'[p]
    BY <2>1 DEF ScanInv, InputInv
  <2>4. Rechecked(p) => edits'[p] > 1 \/ scanned[p].input = job.identity[p]
    BY <2>1 DEF ScanInv, InputInv
  <2> QED
    BY <1>1, <2>2, <2>3, <2>4
       DEF InputInv, Identified, IsScanned, Rechecked, Observed, Recorded, Sealing, Checked,
           Scanning, Ahead
<1>8. ASSUME NEW p \in Profile PROVE CopyInv(p)' /\ ObservedInv(p)' /\ RawInv(p)'
  BY <1>1, <1>3 DEF ScanInv, CopyInv, ObservedInv, RawInv, Files,
     Identified, IsScanned, Rechecked, Observed, Recorded, Sealing, Checked, Scanning, Ahead
<1>9. ReceiptInv'
  <2>1. ASSUME Settled PROVE Settled'
    <3>1. ASSUME NEW p \in Profile PROVE SettledFor(p)'
      <4>1. edits[p] \in Nat /\ edits'[p] \in Nat /\ edits[p] <= edits'[p]
        BY <1>2, <1>3, <1>4 DEF Thing
      <4> QED
        BY <1>1, <1>3, <2>1, <4>1 DEF Settled, SettledFor, Files
    <3> QED
      BY <1>1, <2>1, <3>1 DEF Settled, SealedPackage
  <2> QED
    BY <1>1, <2>1 DEF ScanInv, ReceiptInv, SealedPackage
<1> QED
  BY <1>5, <1>6, <1>7, <1>8, <1>9 DEF ScanInv

\* Somebody replaces the copy of the scanner in the root.
LEMMA EditCopyKeepsScanInv == ASSUME ScanInv, Edit("copy") PROVE ScanInv'
<1>1. /\ pc \notin Ended /\ root.scanner # Absent
      /\ root' = [root EXCEPT !.scanner = 1 - root.scanner]
      /\ edits' = [edits EXCEPT !["copy"] = edits["copy"] + 1]
      /\ UNCHANGED <<pc, todo, job, version, scanned>>
  BY DEF Edit
<1>2. /\ edits \in [Thing -> Nat] /\ "copy" \notin Versioned
      /\ root = [x \in DOMAIN EmptyRoot |-> root[x]]
  BY <1>1 DEF ScanInv, ScanTypes, VersionInv, Versioned, Profile, Ended
<1>3. /\ edits' \in [Thing -> Nat] /\ edits'["copy"] = edits["copy"] + 1
      /\ \A u \in Versioned : edits'[u] = edits[u]
      /\ root' = [x \in DOMAIN EmptyRoot |-> root'[x]] /\ root'.scanner = 1 - root.scanner
      /\ root'.raw = root.raw /\ root'.receipt = root.receipt /\ root'.package = root.package
  BY <1>1, <1>2 DEF Thing, EmptyRoot
<1>4. Profile \subseteq Versioned /\ edits["copy"] \in Nat
  BY <1>2 DEF Versioned, Thing
<1>5. VersionInv'
  BY <1>1, <1>3, <1>4 DEF ScanInv, VersionInv, Copied, Scanning, Checked, Sealing, Ended
<1>6. ScanTypes'
  BY <1>1, <1>3 DEF ScanInv, ScanTypes, Files, Scanning, Sealing, Ended
<1>7. ASSUME NEW p \in Profile PROVE InputInv(p)' /\ ObservedInv(p)' /\ RawInv(p)'
  BY <1>1, <1>3, <1>4 DEF ScanInv, InputInv, ObservedInv, RawInv, Files,
     Identified, IsScanned, Rechecked, Observed, Recorded, Sealing, Checked, Scanning, Ahead
<1>8. ASSUME NEW p \in Profile PROVE CopyInv(p)'
  <2>1. IsScanned(p) => Copied
    BY DEF IsScanned, Observed, Recorded, Copied, Scanning
  <2>2. IsScanned(p) =>
            scanned[p].scanner \in {0, 1}
            /\ (edits'["copy"] <= 1 => scanned[p].scanner <= root'.scanner)
    BY <1>3, <1>4, <2>1 DEF ScanInv, VersionInv, CopyInv
  <2>3. pc = "compare" \/ Sealing => edits'["copy"] > 1 \/ scanned[p].scanner = Pinned
    BY <1>3, <1>4 DEF ScanInv, CopyInv
  <2> QED
    BY <1>1, <2>2, <2>3
       DEF CopyInv, IsScanned, Observed, Recorded, Sealing, Checked, Scanning, Ahead
<1>9. ReceiptInv'
  <2>1. ASSUME Settled PROVE Settled'
    <3>1. ASSUME NEW p \in Profile PROVE SettledFor(p)'
      BY <1>1, <1>3, <1>4, <2>1 DEF Settled, SettledFor, Files
    <3> QED
      BY <1>1, <1>3, <2>1, <3>1 DEF Settled, SealedPackage
  <2> QED
    BY <1>1, <1>3, <2>1 DEF ScanInv, ReceiptInv, SealedPackage
<1> QED
  BY <1>5, <1>6, <1>7, <1>8, <1>9 DEF ScanInv

\* A raw file is written to.
LEMMA DamageKeepsScanInv ==
    ASSUME ScanInv, NEW q \in Profile, NEW f \in Format, DamageRaw(q, f) PROVE ScanInv'
<1>1. /\ root # Absent /\ root.raw[q] # Absent
      /\ root' = [root EXCEPT !.raw[q] = [root.raw[q] EXCEPT ![f] = Damaged]]
      /\ UNCHANGED <<pc, todo, job, version, edits, scanned>>
  BY DEF DamageRaw, World
<1>2. /\ pc # "start" /\ root = [x \in DOMAIN EmptyRoot |-> root[x]]
      /\ root.raw = [p \in Profile |-> root.raw[p]]
      /\ \A p \in Profile : root.raw[p] # Absent => root.raw[p] = Files(root.raw[p])
  BY <1>1 DEF ScanInv, ScanTypes
<1>3. /\ root' = [x \in DOMAIN EmptyRoot |-> root'[x]]
      /\ root'.raw = [root.raw EXCEPT ![q] = [root.raw[q] EXCEPT ![f] = Damaged]]
      /\ root'.scanner = root.scanner /\ root'.receipt = root.receipt /\ root'.package = root.package
      /\ root'.failed = root.failed
  BY <1>1, <1>2 DEF EmptyRoot
<1>4. /\ root'.raw = [p \in Profile |-> root'.raw[p]]
      /\ \A p \in Profile : p # q => root'.raw[p] = root.raw[p]
      /\ root'.raw[q] = [root.raw[q] EXCEPT ![f] = Damaged]
  BY <1>2, <1>3
<1>5. /\ root.raw[q] = Files(root.raw[q])
      /\ root'.raw[q] = Files(root'.raw[q])
      /\ \A g \in Format : Later(root.raw[q][g], root'.raw[q][g])
  <2>1. root.raw[q] = Files(root.raw[q])
    BY <1>1, <1>2
  <2> QED
    BY <1>4, <2>1 DEF Files, Later
<1>6. \A p \in Profile :
         root.raw[p] = Files(root.raw[p]) => /\ root'.raw[p] = Files(root'.raw[p])
                                             /\ \A g \in Format : Later(root.raw[p][g], root'.raw[p][g])
  BY <1>4, <1>5 DEF Later
<1>7. \A x, y, z : Later(x, y) /\ Later(y, z) => Later(x, z)
  BY DEF Later
<1>8. VersionInv'
  BY <1>1, <1>3 DEF ScanInv, VersionInv, Copied, Scanning, Checked, Sealing
<1>9. ScanTypes'
  <2>1. \A p \in Profile : root'.raw[p] # Absent => root'.raw[p] = Files(root'.raw[p])
    BY <1>2, <1>4, <1>5
  <2>2. \A p \in Profile : Files(root'.raw[p]) = Files(root.raw[p])'
    BY DEF Files
  <2> QED
    BY <1>1, <1>2, <1>3, <1>4, <2>1, <2>2 DEF ScanInv, ScanTypes, Scanning, Sealing
<1>10. ASSUME NEW p \in Profile PROVE InputInv(p)' /\ CopyInv(p)' /\ ObservedInv(p)'
  BY <1>1, <1>3 DEF ScanInv, InputInv, CopyInv, ObservedInv,
     Identified, IsScanned, Rechecked, Observed, Recorded, Sealing, Checked, Scanning, Ahead
<1>11. ASSUME NEW p \in Profile PROVE RawInv(p)'
  <2>1. Recorded(p) \/ Sealing => IsScanned(p)
    BY DEF IsScanned, Observed, Recorded, Checked
  <2>2. IsScanned(p) => /\ root'.raw[p] = Files(root'.raw[p])
                        /\ \A g \in Format : Later(root.raw[p][g], root'.raw[p][g])
    BY <1>6 DEF ScanInv, RawInv
  <2>3. Recorded(p) =>
            /\ job.rawSets[p] = Files(job.rawSets[p])
            /\ \A g \in Format : Later(job.rawSets[p][g], root'.raw[p][g])
    BY <1>7, <2>1, <2>2 DEF ScanInv, RawInv
  <2>4. Sealing =>
            /\ job.raw[p] = Files(job.raw[p])
            /\ \A g \in Format : /\ Later(job.rawSets[p][g], job.raw[p][g])
                                 /\ Later(job.raw[p][g], root'.raw[p][g])
    BY <1>7, <2>1, <2>2 DEF ScanInv, RawInv
  <2> QED
    BY <1>1, <2>2, <2>3, <2>4
       DEF RawInv, Files, IsScanned, Observed, Recorded, Sealing, Checked, Scanning, Ahead
<1>12. ReceiptInv'
  <2>1. ASSUME Settled PROVE Settled'
    <3>1. ASSUME NEW p \in Profile PROVE SettledFor(p)'
      <4>1. /\ root'.raw[p] = Files(root'.raw[p])
            /\ \A g \in Format : Later(root.raw[p][g], root'.raw[p][g])
        BY <1>6, <2>1 DEF Settled, SettledFor
      <4>2. \A g \in Format : Later(job.raw[p][g], root'.raw[p][g])
        BY <1>7, <2>1, <4>1 DEF Settled, SettledFor
      <4> QED
        BY <1>1, <2>1, <4>1, <4>2 DEF Settled, SettledFor, Files
    <3> QED
      BY <1>1, <1>3, <2>1, <3>1 DEF Settled, SealedPackage
  <2> QED
    BY <1>1, <1>3, <2>1 DEF ScanInv, ReceiptInv, SealedPackage
<1> QED
  BY <1>8, <1>9, <1>10, <1>11, <1>12 DEF ScanInv

LEMMA ScanNextInv == ScanInv /\ [ScanNext]_scanVars => ScanInv'
<1> SUFFICES ASSUME ScanInv, [ScanNext]_scanVars PROVE ScanInv'
  OBVIOUS
<1>1. CASE UNCHANGED scanVars
  <2>1. UNCHANGED <<pc, todo, job, root, version, edits, scanned>>
    BY <1>1 DEF scanVars
  <2>2. ScanTypes' /\ VersionInv'
    BY <2>1 DEF ScanInv, ScanTypes, VersionInv, Files, Sealing, Checked, Scanning, Copied
  <2>3. ReceiptInv'
    BY <2>1 DEF ScanInv, ReceiptInv, Settled, SealedPackage, SettledFor, Files
  <2>4. \A p \in Profile : InputInv(p)' /\ CopyInv(p)' /\ ObservedInv(p)' /\ RawInv(p)'
    BY <2>1 DEF ScanInv, InputInv, CopyInv, ObservedInv, RawInv, Files,
       Identified, IsScanned, Rechecked, Observed, Recorded, Sealing, Checked, Scanning, Ahead
  <2> QED
    BY <2>2, <2>3, <2>4 DEF ScanInv
<1>2. CASE Program
  BY <1>2, StartKeepsScanInv, AcquireKeepsScanInv, SnapshotKeepsScanInv, IdentifyKeepsScanInv,
     ScanKeepsScanInv, ObserveKeepsScanInv, RecordKeepsScanInv, RecheckKeepsScanInv,
     RecheckScannerKeepsScanInv, CompareKeepsScanInv, SealKeepsScanInv, WriteStepsKeepScanInv,
     WriteFailureKeepsScanInv DEF Program
<1>3. CASE ScanEnvironment
  <2>1. CASE StepFails \/ FailureUnrecorded \/ Kill
    BY <2>1, FaultKeepsScanInv
  <2>2. CASE \E t \in Thing : Edit(t)
    BY <2>2, EditInputKeepsScanInv, EditCopyKeepsScanInv DEF Thing
  <2>3. CASE \E p \in Profile, f \in Format : DamageRaw(p, f)
    BY <2>3, DamageKeepsScanInv
  <2> QED
    BY <1>3, <2>1, <2>2, <2>3 DEF ScanEnvironment
<1> QED
  BY <1>1, <1>2, <1>3 DEF ScanNext

LEMMA ScanAlways == ScanSpec => []ScanInv
  BY ScanInitInv, ScanNextInv, PTL DEF ScanSpec

\* A root that was reported as failed has FAILED.json, and does not verify (_execute_selftest,
\* _write_selftest_failure, _safe_root).
THEOREM FailedScanDoesNotVerifyAlways == ScanSpec => []FailedScanDoesNotVerify
<1>1. ScanInv => FailedScanDoesNotVerify
  BY DEF ScanInv, ScanTypes, FailedScanDoesNotVerify, RootVerifies, RootIsWhole
<1> QED
  BY <1>1, ScanAlways, PTL

\* What a root that verifies has for a receipt was known when the receipt was written.
LEMMA VerifiedIsSettled ==
    ASSUME ScanInv, root # Absent, RootVerifies(root)
    PROVE  Settled
<1>1. pc # "start"
  BY DEF ScanInv, ScanTypes
<1>2. root.receipt # Absent
  BY DEF RootVerifies, RootIsWhole
<1> QED
  BY <1>1, <1>2 DEF ScanInv, ReceiptInv

\* An output root that verifies holds scans of the inputs in its receipt, with the pinned
\* scanner, unless something was changed and changed back (_execute_selftest).
THEOREM VerifiedMeansScannedAlways == ScanSpec => []VerifiedMeansScanned
<1>1. ScanInv => VerifiedMeansScanned
  <2> SUFFICES ASSUME ScanInv, root # Absent, RootVerifies(root), NEW p \in Profile
               PROVE  /\ scanned[p].input = root.receipt.identities[p] \/ edits[p] > 1
                      /\ scanned[p].scanner = Pinned \/ edits["copy"] > 1
    BY DEF VerifiedMeansScanned
  <2>1. Settled
    BY VerifiedIsSettled
  <2>2. root.receipt.identities[p] = job.observations[p].identity
    BY <2>1 DEF Settled, Receipt
  <2>3. job.observations[p].identity = job.identity[p]
    <3>1. \A d : Observation(p, job.identity[p], d).identity = job.identity[p]
      BY DEF Observation
    <3> QED
      BY <2>1, <3>1 DEF Settled, SettledFor
  <2> QED
    BY <2>1, <2>2, <2>3 DEF Settled, SettledFor
<1> QED
  BY <1>1, ScanAlways, PTL

LEMMA PackageFields ==
    ASSUME NEW a, NEW source, NEW raw
    PROVE  /\ Package(a, source, raw).observations = a
           /\ Package(a, source, raw).reconciliation = a
           /\ Package(a, source, raw).raw = raw
  BY DEF Package, PayloadFile

\* The raw output in a root that verifies is that in its package, although it was hashed and
\* copied at different times (_verify_raw_tree, _copy_raw, _verify_package_cross_bindings).
THEOREM VerifiedRawIsSealedAlways == ScanSpec => []VerifiedRawIsSealed
<1>1. ScanInv => VerifiedRawIsSealed
  <2> SUFFICES ASSUME ScanInv, root # Absent, RootVerifies(root)
               PROVE  root.raw = root.package.raw
    BY DEF VerifiedRawIsSealed
  <2>1. Settled
    BY VerifiedIsSettled
  <2>2. root.raw = job.rawSets /\ root.package.raw = job.raw
    BY <2>1, PackageFields DEF Settled, SealedPackage, Receipt, RootVerifies, RawTreeBound
  <2>3. ASSUME NEW p \in Profile PROVE job.raw[p] = root.raw[p]
    <3>1. /\ job.raw[p] = Files(job.raw[p]) /\ root.raw[p] = Files(root.raw[p])
          /\ \A f \in Format : /\ Later(root.raw[p][f], job.raw[p][f])
                               /\ Later(job.raw[p][f], root.raw[p][f])
      BY <2>1, <2>2 DEF Settled, SettledFor
    <3>2. \A f \in Format : job.raw[p][f] = root.raw[p][f]
      BY <3>1 DEF Later
    <3>3. Files(job.raw[p]) = Files(root.raw[p])
      BY <3>2 DEF Files
    <3> QED
      BY <3>1, <3>3
  <2>4. /\ job.raw = [p \in Profile |-> job.raw[p]] /\ job.rawSets = [p \in Profile |-> job.rawSets[p]]
    BY <2>1 DEF Settled, ScanInv, ScanTypes
  <2> QED
    BY <2>2, <2>3, <2>4
<1> QED
  BY <1>1, ScanAlways, PTL

LEMMA FiniteImage ==
    ASSUME NEW S, IsFiniteSet(S), NEW f
    PROVE  IsFiniteSet({f[x] : x \in S})
<1> DEFINE T == {f[x] : x \in S}
           g == [x \in S |-> f[x]]
<1>1. g \in [S -> T] /\ \A y \in T : \E x \in S : g[x] = y
  OBVIOUS
<1>2. g \in Surjection(S, T)
  BY <1>1 DEF Surjection
<1> QED
  BY <1>2, FS_Surjection

\* A document names finitely many versions.
LEMMA FiniteVersions ==
    ASSUME NEW d \in Document
    PROVE  IsFiniteSet({c.version : c \in AllParts(d)})
<1> DEFINE components == Content[d].components
           f == [n \in 1..Len(components) |-> components[n].version]
<1>1. IsFiniteSet(1..Len(components))
  BY FS_Interval, DocumentAssumption
<1>2. IsFiniteSet({f[n] : n \in 1..Len(components)})
  BY <1>1, FiniteImage
<1>3. IsFiniteSet({f[n] : n \in 1..Len(components)} \cup {Content[d].root.version})
  BY <1>2, FS_AddElement
<1>4. {c.version : c \in AllParts(d)} = {f[n] : n \in 1..Len(components)} \cup {Content[d].root.version}
  BY DEF AllParts, Elements
<1> QED
  BY <1>3, <1>4

\* An analysis of well-formed documents: what reconcile_profile_observations is given.
Analysis(a) ==
    /\ DOMAIN a = Profile
    /\ \A p \in Profile : a[p].profile = p /\ a[p].document \in Document

LEMMA RecordFields ==
    ASSUME NEW a, Analysis(a), NEW p \in Profile, NEW r \in RecordsOf(a[p])
    PROVE  /\ r \in Records(a) /\ r.profile = p
           /\ r.version \in {c.version : c \in AllParts(a[p].document)}
  BY DEF RecordsOf, Records, Analysis

LEMMA RecordProfile ==
    ASSUME NEW a, Analysis(a), NEW r \in Records(a)
    PROVE  \E p \in Profile : r \in RecordsOf(a[p]) /\ r.profile = p
  BY RecordFields DEF Records, Analysis

LEMMA AnalysisVersions ==
    ASSUME NEW a, Analysis(a), NEW g, g \subseteq Records(a)
    PROVE  IsFiniteSet(Versions(g))
<1> DEFINE V(p) == {c.version : c \in AllParts(a[p].document)}
           all == V("SOURCE_DIRECTORY") \cup V("OCI_ARCHIVE") \cup V("PORTABLE_RUNTIME")
<1>1. \A p \in Profile : IsFiniteSet(V(p))
  BY FiniteVersions DEF Analysis
<1>2. IsFiniteSet(all)
  BY <1>1, FS_Union DEF Profile
<1>3. ASSUME NEW r \in g PROVE r.version \in all
  BY RecordProfile, RecordFields DEF Profile
<1>4. Versions(g) \subseteq all
  BY <1>3 DEF Versions
<1> QED
  BY <1>2, <1>4, FS_Subset

\* Two different elements are more than one.
LEMMA MoreThanOne ==
    ASSUME NEW S, IsFiniteSet(S), NEW x \in S, NEW y \in S, x # y
    PROVE  Cardinality(S) > 1
<1>1. {x, y} \in SUBSET S /\ IsFiniteSet({x}) /\ Cardinality({x}) = 1
  BY FS_Singleton
<1>2. Cardinality({x} \cup {y}) = 2 /\ {x} \cup {y} = {x, y}
  <2>1. y \notin {x} /\ {x} \cup {y} = {x, y}
    OBVIOUS
  <2>2. Cardinality({x} \cup {y}) = Cardinality({x}) + 1
    BY <1>1, <2>1, FS_AddElement
  <2> QED
    BY <1>1, <2>1, <2>2
<1>3. Cardinality({x, y}) <= Cardinality(S) /\ Cardinality(S) \in Nat
  BY <1>1, FS_Subset, FS_CardinalityType
<1> QED
  BY <1>2, <1>3

\* A component with two versions in two profiles is a finding with both records.
LEMMA ConflictIsFound ==
    ASSUME NEW a, Analysis(a), NEW p \in Profile, NEW q \in Profile, p # q,
           NEW r \in RecordsOf(a[p]), NEW s \in RecordsOf(a[q]), r.key = s.key,
           r.version # Absent, s.version # Absent, r.version # s.version
    PROVE  \E f \in Findings(a) : f.code = "VERSION_CONFLICT" /\ {r, s} \subseteq f.evidence
<1> DEFINE g == Grouped(Records(a), r.key)
           profiles == {x.profile : x \in g}
<1>1. r \in g /\ s \in g /\ r.profile = p /\ s.profile = q /\ g \subseteq Records(a)
  BY RecordFields DEF Grouped
<1>2. profiles \subseteq Profile
  BY <1>1, RecordProfile
<1>3. IsFiniteSet(Profile)
  <2>1. IsFiniteSet({"SOURCE_DIRECTORY"} \cup {"OCI_ARCHIVE"} \cup {"PORTABLE_RUNTIME"})
    BY FS_Singleton, FS_AddElement
  <2> QED
    BY <2>1 DEF Profile
<1>4. IsFiniteSet(profiles) /\ p \in profiles /\ q \in profiles
  BY <1>1, <1>2, <1>3, FS_Subset
<1>5. Cardinality(profiles) > 1
  BY <1>4, MoreThanOne
<1>6. r.version \in Versions(g) /\ s.version \in Versions(g)
  BY <1>1 DEF Versions
<1>7. Cardinality(Versions(g)) > 1
  BY <1>1, <1>6, AnalysisVersions, MoreThanOne
<1>8. ConflictingVersions(g)
  BY <1>5, <1>7 DEF ConflictingVersions
<1>9. g \in {Grouped(Records(a), k) : k \in {x.key : x \in Records(a)}}
  BY <1>1
<1> DEFINE f == [code |-> "VERSION_CONFLICT", key |-> (CHOOSE x \in g : TRUE).key, evidence |-> g]
<1> HIDE DEF g
<1>10. f \in Findings(a)
  BY <1>8, <1>9 DEF Findings
<1> QED
  BY <1>1, <1>10

\* So is a portable runtime whose version no other profile has.
LEMMA StaleIsFound ==
    ASSUME NEW a, Analysis(a), NEW q \in Profile, q # "PORTABLE_RUNTIME",
           NEW r \in RecordsOf(a["PORTABLE_RUNTIME"]), NEW s \in RecordsOf(a[q]), r.key = s.key,
           r.version # Absent, s.version # Absent,
           r.version \notin Versions(Grouped(Records(a), r.key) \ RecordsOf(a["PORTABLE_RUNTIME"]))
    PROVE  \E f \in Findings(a) : f.code = "STALE_PORTABLE_RUNTIME" /\ {r, s} \subseteq f.evidence
<1> DEFINE g == Grouped(Records(a), r.key)
<1>1. /\ r \in g /\ s \in g /\ r.profile = "PORTABLE_RUNTIME" /\ s.profile = q
      /\ g \subseteq Records(a)
  BY RecordFields DEF Grouped, Profile
<1>2. r \in Portable(g) /\ s \in g \ Portable(g)
  BY <1>1 DEF Portable
<1>3. s.version \in Versions(g \ Portable(g))
  BY <1>2 DEF Versions
<1>4. g \ Portable(g) \subseteq g \ RecordsOf(a["PORTABLE_RUNTIME"])
  BY RecordFields DEF Portable, Profile
<1>5. r.version \notin Versions(g \ Portable(g))
  BY <1>4 DEF Versions
<1>6. r \in StaleRecords(g)
  BY <1>2, <1>3, <1>5 DEF StaleRecords
<1>7. g \in {Grouped(Records(a), k) : k \in {x.key : x \in Records(a)}}
  BY <1>1
<1> DEFINE f == [code |-> "STALE_PORTABLE_RUNTIME", key |-> (CHOOSE x \in g : TRUE).key,
                 evidence |-> (g \ Portable(g)) \cup StaleRecords(g)]
<1> HIDE DEF g
<1>8. f \in Findings(a)
  BY <1>6, <1>7 DEF Findings
<1> QED
  BY <1>2, <1>6, <1>8

\* Two profiles that give one component different versions are reported in a root that verifies
\* (reconcile_profile_observations, _comparison_records, _verify_data_tree).
THEOREM DifferencesAreReportedAlways == ScanSpec => []DifferencesAreReported
<1>1. ASSUME ScanInv, root # Absent, RootVerifies(root)
      PROVE  Analysis(root.package.observations)
             /\ root.registry.run.findings = Findings(root.package.observations)
  <2> DEFINE a == root.package.observations
  <2>1. Settled
    BY <1>1, VerifiedIsSettled
  <2>2. a = job.observations
    BY <2>1, PackageFields DEF Settled, SealedPackage
  <2>3. DOMAIN a = Profile
    BY <1>1, <2>2 DEF ScanInv, ScanTypes
  <2>4. \A p \in Profile : a[p].profile = p
    <3>1. \A p, i, d : Observation(p, i, d).profile = p
      BY DEF Observation
    <3>2. \A p \in Profile :
             job.observations[p] = Observation(p, job.identity[p], job.observations[p].document)
      BY <2>1 DEF Settled, SettledFor
    <3> QED
      BY <2>2, <3>1, <3>2
  <2>5. \A p \in Profile : a[p].document \in Document
    BY <1>1 DEF RootVerifies, PackageVerifies, RawMatches, WellFormed
  <2>6. root.registry.run = RunId(root.receipt.package.reconciliation)
        /\ root.receipt.package = Summary(root.package)
    BY <1>1 DEF RootVerifies, DataTreeBound
  <2>7. root.receipt.package.reconciliation = a
    BY <2>1, <2>2, <2>6, PackageFields DEF Summary, Settled, SealedPackage
  <2> QED
    BY <2>3, <2>4, <2>5, <2>6, <2>7 DEF Analysis, RunId
<1>2. ASSUME ScanInv PROVE DifferencesAreReported
  <2> SUFFICES ASSUME root # Absent, RootVerifies(root)
               PROVE  LET a == root.package.observations
                          findings == root.registry.run.findings
                      IN \A p, q \in Profile : \A r \in RecordsOf(a[p]), s \in RecordsOf(a[q]) :
                             p # q /\ r.key = s.key /\ Absent \notin {r.version, s.version}
                                   /\ r.version # s.version =>
                                 /\ \E f \in findings :
                                        f.code = "VERSION_CONFLICT" /\ {r, s} \subseteq f.evidence
                                 /\ p = "PORTABLE_RUNTIME" =>
                                        \/ r.version \in Versions(Grouped(Records(a), r.key) \ RecordsOf(a[p]))
                                        \/ \E f \in findings :
                                               f.code = "STALE_PORTABLE_RUNTIME" /\ {r, s} \subseteq f.evidence
    BY DEF DifferencesAreReported
  <2> QED
    BY <1>1, <1>2, ConflictIsFound, StaleIsFound
<1> QED
  BY <1>2, ScanAlways, PTL

-----------------------------------------------------------------------------
(* Signing *)

\* The root of a scan, with a package.
PackageIsThere ==
    /\ root # Absent /\ "package" \in DOMAIN root
    /\ root.package # Absent /\ {"extra", "ite6"} \subseteq DOMAIN root.package

signingVars == <<pc, todo, job, root, World, scanned, signVars>>
SignSpec == SignInit /\ PackageIsThere /\ [][SignNext]_signingVars

\* A signature is a file.
SignatureIsThere == \A c \in Signer : \A s : [by |-> c, of |-> s] # Absent

Statement == root.package.ite6
Alone(c) == overlap[c] = {}
OthersIdle(c) == \A d \in Signer \ {c} : ~ Signs(d)
Finished(c) == signing[c] \in {"binding", "signed"}

\* A signing that had no other beside it is the only one while it is active and, once there
\* is a signature, for good; so what it has hashed stays.
SigningInv(c) ==
    /\ Alone(c) /\ Signs(c) => OthersIdle(c)
    /\ Alone(c) /\ Finished(c) => OthersIdle(c) /\ signature = [by |-> c, of |-> Statement]
    /\ signed[c] # Absent => signing[c] = "signed"
    /\ Alone(c) /\ signed[c] # Absent => ReceiptBinds(c) /\ checking[c] # "rejected"
    /\ checking[c] \in {"cosign", "verified", "rejected"} => signed[c] # Absent

SignInv ==
    /\ "package" \in DOMAIN root /\ {"extra", "ite6"} \subseteq DOMAIN root.package
    /\ signing \in [Signer -> {"start", "environment", "cosign", "binding", "signed",
                               "refused", "failed", "orphan", "dead"}]
    /\ checking \in [Signer -> {"idle", "cosign", "verified", "rejected"}]
    /\ signed = [c \in Signer |-> signed[c]]
    /\ overlap \in [Signer -> SUBSET Signer]
    /\ \A c \in Signer : SigningInv(c)

LEMMA SignInitInv == SignInit /\ PackageIsThere => SignInv
  BY DEF SignInit, PackageIsThere, SignInv, SigningInv, Signs, Commands, Finished

\* Working files in the package leave the statement as it is.
LEMMA StrayLeavesStatement ==
    ASSUME SignInv, NEW names, Stray(names)
    PROVE  /\ Statement' = Statement
           /\ "package" \in DOMAIN root' /\ {"extra", "ite6"} \subseteq DOMAIN root'.package
<1>1. root' = [root EXCEPT !.package.extra = @ \cup names]
  BY DEF Stray
<1>2. root'.package = [root.package EXCEPT !.extra = @ \cup names] /\ DOMAIN root' = DOMAIN root
  BY <1>1 DEF SignInv
<1>3. DOMAIN root'.package = DOMAIN root.package
  BY <1>2
<1>4. root'.package.ite6 = root.package.ite6
  BY <1>2 DEF SignInv
<1> QED
  BY <1>2, <1>3, <1>4 DEF SignInv, Statement

LEMMA BeginKeepsInv ==
    ASSUME SignatureIsThere, SignInv, NEW c \in Signer, BeginSign(c)
    PROVE  SignInv'
<1> DEFINE others == {d \in Signer \ {c} : Signs(d)}
<1>1. /\ signing[c] = "start" /\ signature = Absent
      /\ signing' = [signing EXCEPT ![c] = "environment"]
      /\ overlap' = [d \in Signer |->
             IF d = c THEN others ELSE IF d \in others THEN overlap[d] \cup {c} ELSE overlap[d]]
      /\ UNCHANGED <<root, checking, signature, signed>>
  BY DEF BeginSign, Advance
<1>2. signing'[c] = "environment" /\ \A d \in Signer \ {c} : signing'[d] = signing[d]
  BY <1>1 DEF SignInv
<1>3. /\ overlap' \in [Signer -> SUBSET Signer]
      /\ overlap'[c] = others
      /\ \A d \in others : overlap'[d] # {}
      /\ \A d \in Signer \ {c} : d \notin others => overlap'[d] = overlap[d]
  BY <1>1 DEF SignInv
<1>4. ASSUME NEW d \in Signer PROVE SigningInv(d)'
  <2>1. CASE d = c
    <3>1. signed[c] = Absent
      BY <1>1 DEF SignInv, SigningInv
    <3>2. Alone(c)' => OthersIdle(c)'
      BY <1>2, <1>3 DEF Alone, OthersIdle, Signs, Commands
    <3> QED
      BY <1>1, <1>2, <2>1, <3>1, <3>2 DEF SignInv, SigningInv, Finished
  <2>2. CASE d \in others
    BY <1>1, <1>2, <1>3, <2>2 DEF SignInv, SigningInv, Alone
  <2>3. CASE d # c /\ d \notin others
    <3>1. ~ Signs(d)' /\ ~ Signs(d)
      BY <1>2, <2>3 DEF Signs, Commands
    <3>2. ~ (Alone(d) /\ Finished(d))
      BY <1>1 DEF SignInv, SigningInv, SignatureIsThere
    <3>3. signed[d] # Absent => Finished(d)
      BY DEF SignInv, SigningInv, Finished
    <3> QED
      BY <1>1, <1>2, <1>3, <2>3, <3>1, <3>2, <3>3 DEF SignInv, SigningInv, Alone, Finished
  <2> QED
    BY <2>1, <2>2, <2>3
<1> QED
  BY <1>1, <1>3, <1>4 DEF SignInv

\* A step of an active signing, or one that ends before it has begun.
LEMMA StepKeepsInv ==
    ASSUME SignInv, NEW c \in Signer, NEW step \in {"cosign", "refused", "failed", "orphan", "dead"},
           signing[c] \in {"start", "environment", "cosign", "binding", "orphan"},
           step = "cosign" => signing[c] = "environment",
           step = "orphan" => signing[c] = "cosign",
           signing' = [signing EXCEPT ![c] = step],
           "package" \in DOMAIN root', {"extra", "ite6"} \subseteq DOMAIN root'.package,
           Statement' = Statement,
           UNCHANGED <<checking, signature, signed, overlap>>
    PROVE  SignInv'
<1>1. signing'[c] = step /\ \A d \in Signer \ {c} : signing'[d] = signing[d]
  BY DEF SignInv
<1>2. \A d \in Signer : Signs(d)' => Signs(d)
  BY <1>1 DEF Signs, Commands, SignInv
<1>3. signed[c] = Absent
  BY DEF SignInv, SigningInv
<1>4. ASSUME NEW d \in Signer PROVE SigningInv(d)'
  <2>1. (Alone(d)' <=> Alone(d)) /\ (OthersIdle(d) => OthersIdle(d)')
    BY <1>2 DEF Alone, OthersIdle
  <2>2. ReceiptBinds(d)' <=> ReceiptBinds(d)
    BY DEF ReceiptBinds, Statement
  <2>3. CASE d = c
    BY <1>1, <1>2, <1>3, <2>1, <2>3 DEF SignInv, SigningInv, Finished
  <2>4. CASE d # c
    BY <1>1, <1>2, <2>1, <2>2, <2>4 DEF SignInv, SigningInv, Finished
  <2> QED
    BY <2>3, <2>4
<1>5. signing' \in [Signer -> {"start", "environment", "cosign", "binding", "signed",
                               "refused", "failed", "orphan", "dead"}]
  BY DEF SignInv
<1> QED
  BY <1>4, <1>5 DEF SignInv

\* A signature replaces the one that is there, but not that of a signing that was alone.
LEMMA CosignKeepsInv ==
    ASSUME SignInv, NEW c \in Signer, RunCosign(c)
    PROVE  SignInv'
<1> DEFINE after == IF signing[c] = "cosign" THEN "binding" ELSE "dead"
<1>1. /\ signing[c] \in {"cosign", "orphan"} /\ signing' = [signing EXCEPT ![c] = after]
      /\ signature' = [by |-> c, of |-> Statement]
      /\ UNCHANGED <<checking, signed, overlap>>
  BY DEF RunCosign, Advance, Statement
<1>2. /\ Statement' = Statement
      /\ "package" \in DOMAIN root' /\ {"extra", "ite6"} \subseteq DOMAIN root'.package
  BY StrayLeavesStatement DEF RunCosign
<1>3. signing'[c] = after /\ \A d \in Signer \ {c} : signing'[d] = signing[d]
  BY <1>1 DEF SignInv
<1>4. /\ Signs(c) /\ \A d \in Signer \ {c} : Signs(d)' <=> Signs(d)
      /\ Signs(c)' => signing[c] = "cosign"
  BY <1>1, <1>3 DEF Signs, Commands
<1>5. ASSUME NEW d \in Signer PROVE SigningInv(d)'
  <2>1. (Alone(d)' <=> Alone(d)) /\ (OthersIdle(d) => OthersIdle(d)')
    BY <1>1, <1>4 DEF Alone, OthersIdle
  <2>2. CASE d = c
    <3>1. signed[c] = Absent /\ checking[c] = "idle"
      BY <1>1 DEF SignInv, SigningInv
    <3>2. Alone(c) => OthersIdle(c)
      BY <1>4 DEF SignInv, SigningInv
    <3> QED
      BY <1>1, <1>2, <1>3, <2>1, <2>2, <3>1, <3>2 DEF SigningInv
  <2>3. CASE d # c
    <3>1. ~ OthersIdle(d)
      BY <1>4, <2>3 DEF OthersIdle
    <3>2. ~ (Alone(d) /\ (Finished(d) \/ Signs(d)))
      BY <3>1 DEF SignInv, SigningInv
    <3>3. signed[d] # Absent => Finished(d)
      BY DEF SignInv, SigningInv, Finished
    <3> QED
      BY <1>1, <1>3, <1>4, <2>1, <2>3, <3>2, <3>3 DEF SignInv, SigningInv, Finished
  <2> QED
    BY <2>2, <2>3
<1>6. signing' \in [Signer -> {"start", "environment", "cosign", "binding", "signed",
                               "refused", "failed", "orphan", "dead"}]
  BY <1>1 DEF SignInv
<1> QED
  BY <1>1, <1>2, <1>5, <1>6 DEF SignInv

LEMMA ReceiptKeepsInv ==
    ASSUME SignInv, NEW c \in Signer, WriteSignatureReceipt(c)
    PROVE  SignInv'
<1>1. /\ signing[c] = "binding" /\ signing' = [signing EXCEPT ![c] = "signed"]
      /\ signed' = [signed EXCEPT ![c] = [subject |-> Statement, signature |-> signature]]
      /\ UNCHANGED <<root, checking, signature, overlap>>
  BY DEF WriteSignatureReceipt, Advance, Statement
<1>2. /\ signing'[c] = "signed" /\ signed'[c] = [subject |-> Statement, signature |-> signature]
      /\ \A d \in Signer \ {c} : signing'[d] = signing[d] /\ signed'[d] = signed[d]
  BY <1>1 DEF SignInv
<1>3. \A d \in Signer : Signs(d)' => Signs(d)
  BY <1>1, <1>2 DEF Signs, Commands
<1>4. ASSUME NEW d \in Signer PROVE SigningInv(d)'
  <2>1. (Alone(d)' <=> Alone(d)) /\ (OthersIdle(d) => OthersIdle(d)')
    BY <1>1, <1>3 DEF Alone, OthersIdle
  <2>2. CASE d = c
    <3>1. signed[c] = Absent
      BY <1>1 DEF SignInv, SigningInv
    <3>2. checking[c] = "idle"
      BY <3>1 DEF SignInv, SigningInv
    <3>3. ReceiptBinds(c)'
      BY <1>1, <1>2 DEF ReceiptBinds, Statement
    <3>4. Alone(c) => OthersIdle(c) /\ signature = [by |-> c, of |-> Statement]
      BY <1>1 DEF SignInv, SigningInv, Finished
    <3> QED
      BY <1>1, <1>2, <1>3, <2>1, <2>2, <3>2, <3>3, <3>4 DEF SigningInv, Finished, Statement
  <2>3. CASE d # c
    <3>1. ReceiptBinds(d)' <=> ReceiptBinds(d)
      BY <1>1, <1>2, <2>3 DEF ReceiptBinds
    <3> QED
      BY <1>1, <1>2, <1>3, <2>1, <2>3, <3>1 DEF SignInv, SigningInv, Finished, Statement
  <2> QED
    BY <2>2, <2>3
<1>5. signing' \in [Signer -> {"start", "environment", "cosign", "binding", "signed",
                               "refused", "failed", "orphan", "dead"}]
  BY <1>1 DEF SignInv
<1>6. signed' = [d \in Signer |-> signed'[d]]
  BY <1>1 DEF SignInv
<1> QED
  BY <1>1, <1>4, <1>5, <1>6 DEF SignInv

\* A verification rejects only what no longer is bound.
LEMMA VerifyKeepsInv ==
    ASSUME SignInv, NEW c \in Signer, BeginVerify(c) \/ EndVerify(c)
    PROVE  SignInv'
<1>1. UNCHANGED <<signing, signature, signed, overlap>>
  BY DEF BeginVerify, EndVerify
<1>2. /\ Statement' = Statement
      /\ "package" \in DOMAIN root' /\ {"extra", "ite6"} \subseteq DOMAIN root'.package
  <2>1. CASE root' = root
    BY <2>1 DEF SignInv, Statement
  <2>2. CASE Stray({".cosign-runtime"})
    BY <2>2, StrayLeavesStatement
  <2> QED
    BY <2>1, <2>2 DEF BeginVerify, EndVerify
<1>3. /\ signed[c] # Absent
      /\ \A d \in Signer \ {c} : checking'[d] = checking[d]
      /\ checking' \in [Signer -> {"idle", "cosign", "verified", "rejected"}]
  BY DEF BeginVerify, EndVerify, SignInv, SigningInv
<1>4. ReceiptBinds(c) /\ signature.of = Statement => checking'[c] # "rejected"
  BY DEF BeginVerify, EndVerify, SignInv, Statement
<1>5. ASSUME NEW d \in Signer PROVE SigningInv(d)'
  <2>1. /\ Alone(d)' <=> Alone(d)
        /\ OthersIdle(d) <=> OthersIdle(d)'
        /\ Signs(d) <=> Signs(d)'
        /\ Finished(d) <=> Finished(d)'
    BY <1>1 DEF Alone, OthersIdle, Signs, Commands, Finished
  <2>2. ReceiptBinds(d)' <=> ReceiptBinds(d)
    BY <1>1, <1>2 DEF ReceiptBinds, Statement
  <2>3. CASE d = c
    <3>1. Alone(c) => ReceiptBinds(c) /\ signature = [by |-> c, of |-> Statement]
      BY <1>3 DEF SignInv, SigningInv, Finished
    <3>2. Alone(c) => checking'[c] # "rejected"
      BY <1>4, <3>1
    <3> QED
      BY <1>1, <1>2, <1>3, <2>1, <2>2, <2>3, <3>2 DEF SignInv, SigningInv
  <2>4. CASE d # c
    BY <1>1, <1>2, <1>3, <2>1, <2>2, <2>4 DEF SignInv, SigningInv
  <2> QED
    BY <2>3, <2>4
<1> QED
  BY <1>1, <1>2, <1>3, <1>5 DEF SignInv

LEMMA SignNextInv == SignatureIsThere /\ SignInv /\ [SignNext]_signingVars => SignInv'
<1> SUFFICES ASSUME SignatureIsThere, SignInv, [SignNext]_signingVars PROVE SignInv'
  OBVIOUS
<1>1. ASSUME NEW c \in Signer, SignRefused(c) PROVE SignInv'
  <2>1. signing' = [signing EXCEPT ![c] = "refused"] /\ signing[c] = "start"
        /\ UNCHANGED <<root, checking, signature, signed, overlap>>
    BY <1>1 DEF SignRefused, Advance
  <2> QED
    BY <2>1, StepKeepsInv DEF SignInv, Statement
<1>2. ASSUME NEW c \in Signer, MakeRuntime(c) PROVE SignInv'
  <2>1. signing' = [signing EXCEPT ![c] = "cosign"] /\ signing[c] = "environment"
        /\ UNCHANGED <<checking, signature, signed, overlap>> /\ Stray({".cosign-runtime"})
    BY <1>2 DEF MakeRuntime, Advance
  <2> QED
    BY <2>1, StepKeepsInv, StrayLeavesStatement
<1>3. ASSUME NEW c \in Signer, NEW step \in {"failed", "orphan", "dead"},
             Signs(c), step = "orphan" => signing[c] = "cosign",
             Advance(c, step), UNCHANGED <<root, checking, signature, signed, overlap>>
      PROVE  SignInv'
  BY <1>3, StepKeepsInv DEF Signs, Commands, Advance, SignInv, Statement
<1>4. ASSUME NEW c \in Signer, SigningFails(c) \/ SigningDies(c) PROVE SignInv'
  <2>1. CASE SigningFails(c)
    BY <1>3, <2>1 DEF SigningFails, Signs
  <2>2. CASE SigningDies(c)
    <3> DEFINE step == IF signing[c] = "cosign" THEN "orphan" ELSE "dead"
    <3>1. /\ Signs(c) /\ Advance(c, step)
          /\ UNCHANGED <<root, checking, signature, signed, overlap>>
      BY <2>2 DEF SigningDies
    <3>2. step \in {"orphan", "dead"} /\ (step = "orphan" => signing[c] = "cosign")
      OBVIOUS
    <3> HIDE DEF step
    <3> QED
      BY <1>3, <3>1, <3>2
  <2> QED
    BY <1>4, <2>1, <2>2
<1>5. CASE UNCHANGED signingVars
  BY <1>5 DEF signingVars, signVars, SignInv, SigningInv, Alone, OthersIdle, Signs, Commands,
              Finished, ReceiptBinds, Statement
<1> QED
  BY <1>1, <1>2, <1>4, <1>5, BeginKeepsInv, CosignKeepsInv, ReceiptKeepsInv, VerifyKeepsInv
  DEF SignNext

\* A receipt binds the signature in the package for good, for any number of signings, unless
\* two ran at the same time (_execute_sign, _execute_verify).
THEOREM SignatureStaysBoundAlways ==
    ASSUME SignatureIsThere PROVE SignSpec => []SignatureStaysBound
<1>1. SignInv => SignatureStaysBound
  BY DEF SignInv, SigningInv, SignatureStaysBound, Alone
<1>2. SignInv /\ [SignNext]_signingVars => SignInv'
  BY SignNextInv
<1> QED
  BY <1>1, <1>2, SignInitInv, PTL DEF SignSpec

-----------------------------------------------------------------------------
(* Files of several roots *)

Roots == {RootOf[d] : d \in DOMAIN RootOf}
MixSpec == root \in Roots /\ [][\E d \in DOMAIN RootOf : Restore(d)]_root

PackageFile == PayloadFile \cup {"manifest", "ite6", "complete", "extra"}

\* The form of a package and of a root, whatever is in their files.
PackageType(p) ==
    /\ p = [f \in PackageFile |-> p[f]]
    /\ p.complete = [reconciliation |-> p.complete.reconciliation, dashboard |-> p.complete.dashboard,
                     manifest |-> p.complete.manifest, ite6 |-> p.complete.ite6]
RootType(r) ==
    /\ r = [x \in DOMAIN EmptyRoot |-> r[x]] /\ r.failed \in BOOLEAN
    /\ PackageType(r.package)
    /\ r.registry = [run |-> r.registry.run, dashboard |-> r.registry.dashboard]

\* What verification finds out about files that are there.
RootBinds(r) ==
    /\ ~ r.failed /\ RawTreeBound(r) /\ r.scanner = Pinned /\ PackageVerifies(r.package)
    /\ r.receipt.package = Summary(r.package) /\ DataTreeBound(r)
    /\ r.complete = Completion(r.receipt)

\* All that is in a package that verifies is in its manifest, or follows from it.
LEMMA ManifestDeterminesPackage ==
    ASSUME NEW p, NEW q, PackageType(p), PackageType(q), PackageVerifies(p), PackageVerifies(q),
           Summary(p) = Summary(q)
    PROVE  p = q
<1>1. p.manifest = q.manifest /\ p.reconciliation = q.reconciliation /\ p.dashboard = q.dashboard
  BY DEF Summary
<1>2. \A f \in PayloadFile : p[f] = q[f]
  <2>1. p.manifest = Payload(p) /\ q.manifest = Payload(q)
    BY DEF PackageVerifies, PayloadSealed
  <2>2. \A f \in PayloadFile : Payload(p)[f] = p[f] /\ Payload(q)[f] = q[f]
    BY DEF Payload
  <2> QED
    BY <1>1, <2>1, <2>2
<1>3. p.extra = q.extra
  BY DEF PackageVerifies, PayloadSealed
<1>4. /\ p.complete.reconciliation = q.complete.reconciliation
      /\ p.complete.dashboard = q.complete.dashboard
      /\ p.complete.manifest = q.complete.manifest
  BY <1>1 DEF PackageVerifies, AnalysisBound, ProjectionsBound, EnvelopeBound
<1>5. p.ite6 = q.ite6 /\ p.complete.ite6 = q.complete.ite6
  BY <1>4 DEF PackageVerifies, EnvelopeBound
<1>6. p.complete = q.complete
  BY <1>4, <1>5 DEF PackageType
<1>7. \A f \in PackageFile : p[f] = q[f]
  BY <1>1, <1>2, <1>3, <1>5, <1>6 DEF PackageFile
<1> QED
  BY <1>7 DEF PackageType

\* SELFTEST_COMPLETE.json determines the root.
LEMMA CompletionDeterminesRoot ==
    ASSUME NEW r, NEW s, RootType(r), RootType(s), RootBinds(r), RootBinds(s),
           r.complete = s.complete
    PROVE  r = s
<1>1. r.receipt = s.receipt
  BY DEF RootBinds, Completion
<1>2. r.raw = s.raw /\ r.scanner = s.scanner
  BY <1>1 DEF RootBinds, RawTreeBound
<1>3. r.package = s.package
  BY <1>1, ManifestDeterminesPackage DEF RootBinds, RootType
<1>4. r.registry = s.registry
  BY <1>1 DEF RootBinds, DataTreeBound, RootType
<1>5. r.failed = s.failed
  BY DEF RootBinds, RootType
<1>6. DOMAIN EmptyRoot = {"raw", "scanner", "package", "registry", "receipt", "complete", "failed"}
  BY DEF EmptyRoot
<1>7. \A x \in DOMAIN EmptyRoot : r[x] = s[x]
  BY <1>1, <1>2, <1>3, <1>4, <1>5, <1>6
<1> QED
  BY <1>7 DEF RootType

\* What a scan of one document leaves: a package and a root, field by field.
LEMMA OneScan ==
    ASSUME NEW d \in DOMAIN RootOf
    PROVE  \E a, raw :
              /\ RootOf[d] = CompleteRoot(a, raw)
              /\ \A p \in Profile : a[p].identity = 0 /\ a[p].document = d
                                    /\ raw[p]["cyclonedx"] = d
              /\ WellFormed(d)
<1> DEFINE a == [p \in Profile |-> Observation(p, 0, d)]
           raw == [p \in Profile |-> [f \in Format |-> IF f = "cyclonedx" THEN d ELSE <<f, p, 0>>]]
<1>1. RootOf[d] = CompleteRoot(a, raw) /\ WellFormed(d)
  BY DEF RootOf
<1>2. \A p \in Profile : a[p].identity = 0 /\ a[p].document = d /\ raw[p]["cyclonedx"] = d
  BY DEF Observation, Format
<1> HIDE DEF a, raw
<1> QED
  BY <1>1, <1>2

LEMMA CompleteRootIsTyped ==
    ASSUME NEW a, NEW raw PROVE RootType(CompleteRoot(a, raw))
<1> DEFINE r == CompleteRoot(a, raw)
           source == a["SOURCE_DIRECTORY"].identity
<1>1. r = [x \in DOMAIN EmptyRoot |-> r[x]] /\ r.failed \in BOOLEAN
      /\ r.package = Package(a, source, raw) /\ r.registry = Registration(a)
  BY DEF CompleteRoot, EmptyRoot
<1>2. Package(a, source, raw) = [f \in PackageFile |-> Package(a, source, raw)[f]]
  BY DEF Package, PackageFile
<1>3. LET c == Package(a, source, raw).complete
      IN c = [reconciliation |-> c.reconciliation, dashboard |-> c.dashboard,
              manifest |-> c.manifest, ite6 |-> c.ite6]
  BY DEF Package, PayloadFile
<1>4. Registration(a) = [run |-> Registration(a).run, dashboard |-> Registration(a).dashboard]
  BY DEF Registration
<1> QED
  BY <1>1, <1>2, <1>3, <1>4 DEF RootType, PackageType

LEMMA PackageOfScanVerifies ==
    ASSUME NEW a, NEW raw, NEW d, WellFormed(d),
           \A p \in Profile : a[p].document = d /\ raw[p]["cyclonedx"] = d
    PROVE  PackageVerifies(Package(a, a["SOURCE_DIRECTORY"].identity, raw))
<1> DEFINE source == a["SOURCE_DIRECTORY"].identity
           q == Package(a, source, raw)
           payload == [observations |-> a, reconciliation |-> a, source |-> source,
                       validation |-> Validation(a), dashboard |-> a, run |-> a, raw |-> raw]
           ite6 == [subject |-> a, manifest |-> payload, dashboard |-> a]
<1>1. /\ q.observations = a /\ q.reconciliation = a /\ q.source = source
      /\ q.validation = Validation(a) /\ q.dashboard = a /\ q.run = a /\ q.raw = raw
      /\ q.manifest = payload /\ q.ite6 = ite6 /\ q.extra = {}
      /\ q.complete = [reconciliation |-> a, dashboard |-> a, manifest |-> payload, ite6 |-> ite6]
  BY DEF Package, PayloadFile
<1>2. payload = [f \in PayloadFile |-> q[f]]
  BY <1>1 DEF PayloadFile
<1> HIDE DEF q
<1>3. EnvelopeBound(q)
  BY <1>1 DEF EnvelopeBound
<1>4. AnalysisBound(q)
  BY <1>1 DEF AnalysisBound
<1>5. PayloadSealed(q)
  BY <1>1, <1>2 DEF PayloadSealed, Payload
<1>6. RawMatches(q.observations, q.raw)
  BY <1>1 DEF RawMatches
<1>7. ProjectionsBound(q)
  BY <1>1 DEF ProjectionsBound
<1>8. PackageVerifies(q)
  BY <1>3, <1>4, <1>5, <1>6, <1>7 DEF PackageVerifies
<1> QED
  BY <1>8 DEF q

\* The root that a scan completes binds its files.
LEMMA RootOfScanBinds ==
    ASSUME NEW r \in Roots
    PROVE  RootType(r) /\ RootBinds(r)
<1>1. PICK d \in DOMAIN RootOf : r = RootOf[d]
  BY DEF Roots
<1>2. PICK a, raw : /\ r = CompleteRoot(a, raw)
                    /\ \A p \in Profile : a[p].identity = 0 /\ a[p].document = d
                                          /\ raw[p]["cyclonedx"] = d
                    /\ WellFormed(d)
  BY <1>1, OneScan
<1> DEFINE package == Package(a, a["SOURCE_DIRECTORY"].identity, raw)
           receipt == Receipt(a, raw, package)
<1>3. /\ r.raw = raw /\ r.scanner = Pinned /\ r.package = package /\ r.registry = Registration(a)
      /\ r.receipt = receipt /\ r.complete = Completion(receipt) /\ r.failed = FALSE
  BY <1>2 DEF CompleteRoot
<1>4. PackageVerifies(package)
  BY <1>2, PackageOfScanVerifies
<1>5. /\ package.reconciliation = a /\ package.dashboard = a
  BY DEF Package, PayloadFile
<1> HIDE DEF package
<1>6. /\ receipt.raw = raw /\ receipt.package = Summary(package)
      /\ receipt.package.reconciliation = a /\ receipt.package.dashboard = a
  BY <1>5 DEF Receipt, Summary
<1> HIDE DEF receipt
<1>7. RawTreeBound(r)
  BY <1>2, <1>3, <1>6 DEF RawTreeBound
<1>8. DataTreeBound(r)
  BY <1>3, <1>6 DEF DataTreeBound, Registration
<1> QED
  BY <1>2, <1>3, <1>4, <1>6, <1>7, <1>8, CompleteRootIsTyped DEF RootBinds

\* Putting a file of another root in its place changes what is in the files only.
LEMMA RestoreKeepsType ==
    ASSUME RootType(root), NEW d \in DOMAIN RootOf, Restore(d)
    PROVE  RootType(root')
<1> DEFINE other == RootOf[d]
<1>1. RootType(other)
  BY RootOfScanBinds DEF Roots
<1>2. DOMAIN root = DOMAIN EmptyRoot
      /\ DOMAIN EmptyRoot = {"raw", "scanner", "package", "registry", "receipt", "complete", "failed"}
  BY DEF RootType, EmptyRoot
<1>3. CASE \E f \in {"raw", "registry", "receipt", "complete"} : root' = [root EXCEPT ![f] = other[f]]
  <2>1. PICK f \in {"raw", "registry", "receipt", "complete"} : root' = [root EXCEPT ![f] = other[f]]
    BY <1>3
  <2>2. /\ root' = [x \in DOMAIN EmptyRoot |-> root'[x]] /\ root'.failed = root.failed
        /\ root'.package = root.package /\ root'.registry \in {root.registry, other.registry}
    BY <1>2, <2>1 DEF RootType
  <2> HIDE DEF other
  <2> QED
    BY <1>1, <2>2 DEF RootType
<1>4. CASE \E f \in DOMAIN root.package : root' = [root EXCEPT !.package[f] = other.package[f]]
  <2>1. PICK f \in PackageFile : root' = [root EXCEPT !.package[f] = other.package[f]]
    BY <1>4 DEF RootType, PackageType
  <2>2. /\ root' = [x \in DOMAIN EmptyRoot |-> root'[x]] /\ root'.failed = root.failed
        /\ root'.package = [root.package EXCEPT ![f] = other.package[f]]
        /\ root'.registry = root.registry
    BY <1>2, <2>1 DEF RootType
  <2>3. /\ root'.package = [x \in PackageFile |-> root'.package[x]]
        /\ root'.package.complete \in {root.package.complete, other.package.complete}
    BY <2>2 DEF RootType, PackageType, PackageFile
  <2> HIDE DEF other
  <2> QED
    BY <1>1, <2>2, <2>3 DEF RootType, PackageType
<1> QED
  BY <1>3, <1>4 DEF Restore

\* Whatever files of several roots are put together, one that verifies is the root of one scan:
\* its completion hash binds all of it (verify_selftest_root).
THEOREM OneRootVerifiesAlways == MixSpec => []OneRootVerifies
<1>1. RootType(root) => OneRootVerifies
  <2> SUFFICES ASSUME RootType(root), root # Absent, RootVerifies(root), NEW d \in DOMAIN RootOf,
                      root.complete = RootOf[d].complete
               PROVE  root = RootOf[d]
    BY DEF OneRootVerifies
  <2>1. RootBinds(root)
    BY DEF RootBinds, RootVerifies, RootIsWhole
  <2>2. RootType(RootOf[d]) /\ RootBinds(RootOf[d])
    BY RootOfScanBinds DEF Roots
  <2> QED
    BY <2>1, <2>2, CompletionDeterminesRoot
<1>2. root \in Roots => RootType(root)
  BY RootOfScanBinds
<1>3. RootType(root) /\ [\E d \in DOMAIN RootOf : Restore(d)]_root => RootType(root)'
  BY RestoreKeepsType
<1> QED
  BY <1>1, <1>2, <1>3, PTL DEF MixSpec

-----------------------------------------------------------------------------
(* Handoffs of a root that is replaced *)

sendVars == <<sending, binding, draft, candidate, handoffs, replaced, root>>
SendSpec == HandoffInit /\ root \in Roots /\ [][HandoffNext]_sendVars

\* The document that a completion hash seals.
SealedSbom(completion) == completion.receipt.raw[SourceProfile]["cyclonedx"]

SendSteps ==
    {"start", "completion", "reading", "looking", "staged", "comparing", "revalidating", "rehashing",
     "resealing", "sent", "refused", "failed", "dead"}
Verified(s) == binding[s] = "VERIFIED"
AtCompletion(s) == root.complete = draft[s].completion
RunAgrees(s) == draft[s].run = draft[s].completion.run
SbomAgrees(s) == draft[s].sbom = SealedSbom(draft[s].completion)

\* What a call has read that does not agree was read from two roots; so the root was replaced
\* between, and has to be replaced again for what is read later to agree with each.
RunInv(s) ==
    /\ sending[s] = "completion" => draft[s].run = root.complete.run \/ replaced >= 1
    /\ sending[s] \in {"reading", "looking", "staged", "comparing", "revalidating"} =>
          \/ RunAgrees(s)
          \/ replaced >= 2
          \/ replaced >= 1 /\ root.complete.run # draft[s].run
    /\ sending[s] = "rehashing" =>
          RunAgrees(s) \/ replaced >= 3 \/ (replaced >= 2 /\ ~ AtCompletion(s))
    /\ sending[s] \in {"resealing", "sent"} => RunAgrees(s) \/ replaced >= 3

SbomInv(s) ==
    /\ sending[s] = "reading" => AtCompletion(s) \/ replaced >= 1
    /\ sending[s] \in {"looking", "staged", "comparing", "revalidating", "rehashing"} =>
          SbomAgrees(s) \/ replaced >= 2 \/ (replaced >= 1 /\ ~ AtCompletion(s))
    /\ sending[s] = "resealing" =>
          SbomAgrees(s) \/ replaced >= 3 \/ (replaced >= 2 /\ AtCompletion(s))
    /\ sending[s] = "sent" => SbomAgrees(s) \/ replaced >= 3

DraftInv(s) ==
    /\ draft[s] = [run |-> draft[s].run, completion |-> draft[s].completion, sbom |-> draft[s].sbom]
    /\ sending[s] \in {"looking", "staged", "comparing", "revalidating", "rehashing", "resealing",
                       "sent"} => WellFormed(draft[s].sbom)
    /\ sending[s] \in {"comparing", "revalidating", "rehashing", "resealing", "sent"} =>
          [id |-> Identity(s), sbom |-> draft[s].sbom] \in handoffs

\* What is left of a root of Roots when its package is signed.
SourceIsBound ==
    /\ {"raw", "complete", "package"} \subseteq DOMAIN root
    /\ root.raw[SourceProfile]["cyclonedx"] = SealedSbom(root.complete)

SendInv ==
    /\ sending \in [Sender -> SendSteps] /\ draft = [s \in Sender |-> draft[s]]
    /\ replaced \in Nat /\ SourceIsBound
    /\ \A s \in Sender : DraftInv(s) /\ (Verified(s) => RunInv(s) /\ SbomInv(s))

LEMMA RootFacts ==
    ASSUME NEW r \in Roots
    PROVE  /\ {"raw", "complete", "package"} \subseteq DOMAIN r
           /\ r.raw[SourceProfile]["cyclonedx"] = SealedSbom(r.complete)
<1>1. RawTreeBound(r) /\ r.complete = Completion(r.receipt)
  BY RootOfScanBinds DEF RootBinds
<1>2. r.complete.receipt = r.receipt /\ r.raw = r.receipt.raw
  BY <1>1 DEF RawTreeBound, Completion
<1>3. {"raw", "complete", "package"} \subseteq DOMAIN r
  BY RootOfScanBinds DEF RootType, EmptyRoot
<1> QED
  BY <1>2, <1>3 DEF SealedSbom

\* What a verified call reads as its source is the sealed document of the root that is there.
LEMMA SourceIsSealed ==
    ASSUME SendInv, NEW s \in Sender, Verified(s), WellFormed(SourceOf(s))
    PROVE  SourceOf(s) = SealedSbom(root.complete)
<1>1. SourceOf(s) # Absent
  BY DocumentAssumption DEF WellFormed
<1>2. SourceOf(s) = root.raw[SourceProfile]["cyclonedx"]
  BY <1>1 DEF SourceOf, Verified
<1> QED
  BY <1>2 DEF SendInv, SourceIsBound

LEMMA SendInitInv == HandoffInit /\ root \in Roots => SendInv
<1> SUFFICES ASSUME HandoffInit, root \in Roots PROVE SendInv
  OBVIOUS
<1>1. \A s \in Sender : sending[s] = "start" /\ draft[s] = NoDraft
  BY DEF HandoffInit
<1>2. \A s \in Sender : DraftInv(s) /\ RunInv(s) /\ SbomInv(s)
  BY <1>1 DEF DraftInv, RunInv, SbomInv, NoDraft
<1> QED
  BY <1>2, RootFacts DEF HandoffInit, SendInv, SourceIsBound, SendSteps

\* A step of one call leaves the others as they are.
LEMMA OneCallKeepsSendInv ==
    ASSUME SendInv, NEW s \in Sender, NEW step \in SendSteps,
           sending' = [sending EXCEPT ![s] = step],
           draft' = [x \in Sender |-> draft'[x]], \A x \in Sender \ {s} : draft'[x] = draft[x],
           handoffs \subseteq handoffs', UNCHANGED <<binding, candidate, replaced, root>>,
           DraftInv(s)', Verified(s) => RunInv(s)' /\ SbomInv(s)'
    PROVE  SendInv'
<1>1. sending' \in [Sender -> SendSteps] /\ \A x \in Sender \ {s} : sending'[x] = sending[x]
  BY DEF SendInv
<1>2. ASSUME NEW x \in Sender \ {s} PROVE DraftInv(x)' /\ (Verified(x)' => RunInv(x)' /\ SbomInv(x)')
  <2>1. DraftInv(x)'
    BY <1>1 DEF SendInv, DraftInv, Identity
  <2>2. Verified(x)' => RunInv(x)' /\ SbomInv(x)'
    BY <1>1 DEF SendInv, Verified, RunInv, SbomInv, RunAgrees, SbomAgrees, AtCompletion
  <2> QED
    BY <2>1, <2>2
<1>3. Verified(s)' <=> Verified(s)
  BY DEF Verified
<1> QED
  BY <1>1, <1>2, <1>3 DEF SendInv, SourceIsBound

\* A step after which nothing has been read that was not read before.
LEMMA QuietKeepsSendInv ==
    ASSUME SendInv, NEW s \in Sender, NEW step \in SendSteps,
           sending' = [sending EXCEPT ![s] = step], UNCHANGED <<draft, handoffs>>, HandoffUnchanged,
           \/ step \in {"refused", "failed", "dead"}
           \/ step = "reading" /\ ~ Verified(s)
           \/ sending[s] = "looking" /\ step = "staged"
           \/ sending[s] = "comparing" /\ step = "revalidating"
           \/ sending[s] = "comparing" /\ step = "sent" /\ ~ Verified(s)
           \/ sending[s] = "revalidating" /\ step = "rehashing" /\ root.complete.run = draft[s].run
           \/ sending[s] = "rehashing" /\ step = "resealing" /\ AtCompletion(s)
           \/ sending[s] = "resealing" /\ step = "sent" /\ SourceOf(s) = draft[s].sbom
    PROVE  SendInv'
<1>1. /\ sending'[s] = step /\ draft' = draft /\ handoffs' = handoffs /\ replaced' = replaced
      /\ root' = root /\ binding' = binding /\ candidate' = candidate
  BY DEF SendInv, HandoffUnchanged
<1>2. DraftInv(s)'
  BY <1>1 DEF SendInv, DraftInv, Identity
<1>3. /\ RunAgrees(s)' <=> RunAgrees(s)
      /\ SbomAgrees(s)' <=> SbomAgrees(s)
      /\ AtCompletion(s)' <=> AtCompletion(s)
  BY <1>1 DEF RunAgrees, SbomAgrees, AtCompletion
<1>4. ASSUME Verified(s) PROVE RunInv(s)' /\ SbomInv(s)'
  <2>1. RunInv(s) /\ SbomInv(s) /\ DraftInv(s) /\ replaced \in Nat
    BY <1>4 DEF SendInv
  <2>2. RunInv(s)'
    <3>1. AtCompletion(s) /\ root.complete.run = draft[s].run => RunAgrees(s)
      BY DEF AtCompletion, RunAgrees
    <3> QED
      BY <1>1, <1>3, <1>4, <2>1, <3>1 DEF RunInv
  <2>3. ASSUME sending[s] = "resealing", SourceOf(s) = draft[s].sbom, AtCompletion(s)
        PROVE  SbomAgrees(s)
    <3>1. SourceOf(s) = SealedSbom(root.complete)
      BY <1>4, <2>1, <2>3, SourceIsSealed DEF DraftInv
    <3> QED
      BY <2>3, <3>1 DEF SbomAgrees, AtCompletion
  <2>4. SbomInv(s)'
    BY <1>1, <1>3, <1>4, <2>1, <2>3 DEF SbomInv
  <2> QED
    BY <2>2, <2>4
<1> QED
  BY <1>1, <1>2, <1>4, OneCallKeepsSendInv DEF SendInv

\* A draft in which one entry is set.
LEMMA DraftWith ==
    ASSUME NEW a, NEW b, NEW c, NEW v
    PROVE  LET x == [run |-> a, completion |-> b, sbom |-> c]
           IN /\ [x EXCEPT !.run = v] = [run |-> v, completion |-> b, sbom |-> c]
              /\ [x EXCEPT !.completion = v] = [run |-> a, completion |-> v, sbom |-> c]
              /\ [x EXCEPT !.sbom = v] = [run |-> a, completion |-> b, sbom |-> v]
OBVIOUS

LEMMA VerifyRootKeepsSendInv ==
    ASSUME SendInv, NEW s \in Sender, VerifyRoot(s) PROVE SendInv'
<1>1. CASE RootVerifies(root)
  <2>1. /\ draft' = [draft EXCEPT ![s].run = root.complete.run]
        /\ sending' = [sending EXCEPT ![s] = "completion"] /\ handoffs' = handoffs
        /\ UNCHANGED <<binding, candidate, replaced, root>>
    BY <1>1 DEF VerifyRoot, SendTo, HandoffUnchanged
  <2>2. /\ draft' = [x \in Sender |-> draft'[x]] /\ \A x \in Sender \ {s} : draft'[x] = draft[x]
        /\ draft'[s] = [draft[s] EXCEPT !.run = root.complete.run]
    BY <2>1 DEF SendInv
  <2>3. draft'[s] = [run |-> root.complete.run, completion |-> draft[s].completion,
                     sbom |-> draft[s].sbom]
    BY <2>2, DraftWith DEF SendInv, DraftInv
  <2>4. sending'[s] = "completion"
    BY <2>1 DEF SendInv
  <2>5. DraftInv(s)' /\ RunInv(s)' /\ SbomInv(s)'
    BY <2>1, <2>3, <2>4 DEF DraftInv, RunInv, SbomInv
  <2> QED
    BY <2>1, <2>2, <2>5, OneCallKeepsSendInv DEF SendSteps
<1>2. CASE ~ RootVerifies(root)
  BY <1>2, QuietKeepsSendInv DEF VerifyRoot, SendTo, SendSteps
<1> QED
  BY <1>1, <1>2

LEMMA ReadCompletionKeepsSendInv ==
    ASSUME SendInv, NEW s \in Sender, ReadCompletion(s) PROVE SendInv'
<1>1. /\ sending[s] = "completion"
      /\ draft' = [draft EXCEPT ![s].completion = root.complete]
      /\ sending' = [sending EXCEPT ![s] = "reading"] /\ handoffs' = handoffs
      /\ UNCHANGED <<binding, candidate, replaced, root>>
  BY DEF ReadCompletion, SendTo, HandoffUnchanged
<1>2. /\ draft' = [x \in Sender |-> draft'[x]] /\ \A x \in Sender \ {s} : draft'[x] = draft[x]
      /\ draft'[s] = [draft[s] EXCEPT !.completion = root.complete]
  BY <1>1 DEF SendInv
<1>3. /\ draft'[s] = [run |-> draft[s].run, completion |-> root.complete, sbom |-> draft[s].sbom]
      /\ sending'[s] = "reading"
  BY <1>1, <1>2, DraftWith DEF SendInv, DraftInv
<1>4. DraftInv(s)'
  BY <1>3 DEF DraftInv
<1>5. ASSUME Verified(s) PROVE RunInv(s)' /\ SbomInv(s)'
  <2>1. draft[s].run = root.complete.run \/ replaced >= 1
    BY <1>1, <1>5 DEF SendInv, RunInv
  <2> QED
    BY <1>1, <1>3, <2>1 DEF RunInv, SbomInv, RunAgrees, AtCompletion
<1> QED
  BY <1>1, <1>2, <1>4, <1>5, OneCallKeepsSendInv DEF SendSteps

LEMMA ReadSourceKeepsSendInv ==
    ASSUME SendInv, NEW s \in Sender, ReadSource(s) PROVE SendInv'
<1> DEFINE step == IF WellFormed(SourceOf(s)) THEN "looking" ELSE "failed"
<1>1. /\ sending[s] = "reading"
      /\ draft' = [draft EXCEPT ![s].sbom = SourceOf(s)]
      /\ sending' = [sending EXCEPT ![s] = step] /\ handoffs' = handoffs
      /\ UNCHANGED <<binding, candidate, replaced, root>>
  BY DEF ReadSource, SendTo, HandoffUnchanged
<1>2. /\ draft' = [x \in Sender |-> draft'[x]] /\ \A x \in Sender \ {s} : draft'[x] = draft[x]
      /\ draft'[s] = [draft[s] EXCEPT !.sbom = SourceOf(s)]
  BY <1>1 DEF SendInv
<1>3. /\ draft'[s] = [run |-> draft[s].run, completion |-> draft[s].completion, sbom |-> SourceOf(s)]
      /\ sending'[s] = step /\ step \in {"looking", "failed"} /\ (step = "looking" => WellFormed(SourceOf(s)))
  BY <1>1, <1>2, DraftWith DEF SendInv, DraftInv
<1> HIDE DEF step
<1>4. DraftInv(s)'
  BY <1>3 DEF DraftInv
<1>5. ASSUME Verified(s) PROVE RunInv(s)' /\ SbomInv(s)'
  <2>1. RunInv(s) /\ SbomInv(s)
    BY <1>5 DEF SendInv
  <2>2. RunInv(s)'
    BY <1>1, <1>3, <2>1 DEF RunInv, RunAgrees
  <2>3. step = "looking" => SourceOf(s) = SealedSbom(root.complete)
    BY <1>3, <1>5, SourceIsSealed
  <2>4. step = "looking" /\ AtCompletion(s) => SbomAgrees(s)'
    BY <1>3, <2>3 DEF SbomAgrees, AtCompletion
  <2>5. AtCompletion(s)' <=> AtCompletion(s)
    BY <1>1, <1>3 DEF AtCompletion
  <2>6. SbomInv(s)'
    BY <1>1, <1>3, <2>1, <2>4, <2>5 DEF SbomInv
  <2> QED
    BY <2>2, <2>6
<1> QED
  BY <1>1, <1>2, <1>3, <1>4, <1>5, OneCallKeepsSendInv DEF SendSteps

LEMMA PublishKeepsSendInv ==
    ASSUME SendInv, NEW s \in Sender, Publish(s) PROVE SendInv'
<1>1. sending[s] = "staged" /\ draft' = draft /\ UNCHANGED <<binding, candidate, replaced, root>>
  BY DEF Publish, HandoffUnchanged
<1>2. CASE Taken(Identity(s))
  BY <1>2, QuietKeepsSendInv DEF Publish, SendTo, SendSteps
<1>3. CASE ~ Taken(Identity(s))
  <2>1. /\ handoffs' = handoffs \cup {[id |-> Identity(s), sbom |-> draft[s].sbom]}
        /\ sending' = [sending EXCEPT ![s] = "comparing"]
    BY <1>3 DEF Publish, SendTo
  <2>2. sending'[s] = "comparing"
    BY <2>1 DEF SendInv
  <2>3. DraftInv(s)'
    BY <1>1, <2>1, <2>2 DEF SendInv, DraftInv, Identity
  <2>4. Verified(s) => RunInv(s)' /\ SbomInv(s)'
    BY <1>1, <2>2 DEF SendInv, RunInv, SbomInv, RunAgrees, SbomAgrees, AtCompletion
  <2> QED
    BY <1>1, <2>1, <2>3, <2>4, OneCallKeepsSendInv DEF SendInv, SendSteps
<1> QED
  BY <1>2, <1>3

LEMMA CallKeepsSendInv ==
    ASSUME SendInv, NEW s \in Sender,
           \/ Declare(s) \/ Look(s) \/ CompareSource(s) \/ Revalidate(s) \/ RehashCompletion(s)
           \/ RehashSource(s) \/ SendFails(s) \/ SendDies(s)
    PROVE  SendInv'
<1>1. PICK step \in SendSteps :
         /\ sending' = [sending EXCEPT ![s] = step] /\ UNCHANGED <<draft, handoffs>> /\ HandoffUnchanged
         /\ \/ step \in {"refused", "failed", "dead"}
            \/ step = "reading" /\ ~ Verified(s)
            \/ sending[s] = "looking" /\ step = "staged"
            \/ sending[s] = "comparing" /\ step = "revalidating"
            \/ sending[s] = "comparing" /\ step = "sent" /\ ~ Verified(s)
            \/ sending[s] = "revalidating" /\ step = "rehashing" /\ root.complete.run = draft[s].run
            \/ sending[s] = "rehashing" /\ step = "resealing" /\ AtCompletion(s)
            \/ sending[s] = "resealing" /\ step = "sent" /\ SourceOf(s) = draft[s].sbom
  <2>1. CASE Declare(s)
    BY <2>1 DEF Declare, SendTo, SendSteps, Verified
  <2>2. CASE Look(s)
    BY <2>2 DEF Look, SendTo, SendSteps
  <2>3. CASE CompareSource(s)
    BY <2>3 DEF CompareSource, SendTo, SendSteps, Verified
  <2>4. CASE Revalidate(s)
    BY <2>4 DEF Revalidate, SendTo, SendSteps
  <2>5. CASE RehashCompletion(s)
    BY <2>5 DEF RehashCompletion, SendTo, SendSteps, AtCompletion
  <2>6. CASE RehashSource(s)
    BY <2>6 DEF RehashSource, SendTo, SendSteps
  <2>7. CASE SendFails(s) \/ SendDies(s)
    BY <2>7 DEF SendFails, SendDies, SendTo, SendSteps
  <2> QED
    BY <2>1, <2>2, <2>3, <2>4, <2>5, <2>6, <2>7
<1> QED
  BY <1>1, QuietKeepsSendInv

\* The root is replaced by another one, or the file that declared handoffs are made of.
LEMMA ReplaceKeepsSendInv ==
    ASSUME SendInv, NEW d \in DOMAIN RootOf, Rescan(d) \/ EditCandidate(d) PROVE SendInv'
<1>1. /\ replaced' = replaced + 1 /\ UNCHANGED <<sending, binding, draft, handoffs>>
      /\ root' = root \/ root' \in Roots
  BY DEF Rescan, EditCandidate, Roots
<1>2. ASSUME NEW s \in Sender
      PROVE  DraftInv(s)' /\ (Verified(s)' => RunInv(s)' /\ SbomInv(s)')
  <2>1. DraftInv(s)'
    BY <1>1 DEF SendInv, DraftInv, Identity
  <2>2. /\ RunAgrees(s)' <=> RunAgrees(s)
        /\ SbomAgrees(s)' <=> SbomAgrees(s)
        /\ Verified(s)' <=> Verified(s)
    BY <1>1 DEF RunAgrees, SbomAgrees, Verified
  <2>3. /\ replaced \in Nat
        /\ replaced >= 0 => replaced' >= 1
        /\ replaced >= 1 => replaced' >= 2
        /\ replaced >= 2 => replaced' >= 3
        /\ replaced >= 3 => replaced' >= 3
    BY <1>1 DEF SendInv
  <2>4. ASSUME Verified(s) PROVE RunInv(s)' /\ SbomInv(s)'
    <3>1. RunInv(s) /\ SbomInv(s)
      BY <2>4 DEF SendInv
    <3>2. RunInv(s)'
      BY <1>1, <2>2, <2>3, <3>1 DEF RunInv
    <3>3. SbomInv(s)'
      BY <1>1, <2>2, <2>3, <3>1 DEF SbomInv
    <3> QED
      BY <3>2, <3>3
  <2> QED
    BY <2>1, <2>2, <2>4
<1>3. SourceIsBound'
  BY <1>1, RootFacts DEF SendInv, SourceIsBound
<1> QED
  BY <1>1, <1>2, <1>3 DEF SendInv

LEMMA SendNextInv == SendInv /\ [HandoffNext]_sendVars => SendInv'
<1> SUFFICES ASSUME SendInv, [HandoffNext]_sendVars PROVE SendInv'
  OBVIOUS
<1>1. CASE UNCHANGED sendVars
  BY <1>1 DEF sendVars, SendInv, DraftInv, Identity, Verified, RunInv, SbomInv, RunAgrees,
              SbomAgrees, AtCompletion, SourceIsBound
<1>2. CASE HandoffNext
  BY <1>2, CallKeepsSendInv, VerifyRootKeepsSendInv, ReadCompletionKeepsSendInv,
     ReadSourceKeepsSendInv, PublishKeepsSendInv, ReplaceKeepsSendInv DEF HandoffNext
<1> QED
  BY <1>1, <1>2

LEMMA SendInvSuffices == SendInv => VerifiedHandoffIsOfOneRoot
<1> SUFFICES ASSUME SendInv, NEW s \in Sender, sending[s] = "sent", Verified(s), replaced < 3
             PROVE  /\ draft[s].run = draft[s].completion.run
                    /\ draft[s].completion.receipt.raw[SourceProfile]["cyclonedx"] = draft[s].sbom
                    /\ [id |-> Identity(s), sbom |-> draft[s].sbom] \in handoffs
  BY DEF VerifiedHandoffIsOfOneRoot, Verified
<1>1. RunInv(s) /\ SbomInv(s) /\ DraftInv(s) /\ replaced \in Nat
  BY DEF SendInv
<1>2. RunAgrees(s) /\ SbomAgrees(s)
  BY <1>1 DEF RunInv, SbomInv
<1> QED
  BY <1>1, <1>2 DEF DraftInv, RunAgrees, SbomAgrees, SealedSbom

\* A verified handoff that was returned has the document that the root named by its completion
\* hash sealed, and that root's run identifier, if the root was replaced at most twice
\* (prepare_verified_selftest_euvd_handoff).
THEOREM VerifiedHandoffIsOfOneRootAlways == SendSpec => []VerifiedHandoffIsOfOneRoot
<1> QED
  BY SendInvSuffices, SendInitInv, SendNextInv, PTL DEF SendSpec

-----------------------------------------------------------------------------
(* Intakes and records *)

recordVars == <<handoffs, narrowVars>>
NarrowSpec == NarrowInit /\ [][NarrowNext /\ UNCHANGED handoffs]_recordVars

\* Unless the document changed meanwhile, the signature is of the document an intake reads.
IntakeInv(i) ==
    /\ taking[i] = "reading" => vexSig = vex \/ i \in unverified
    /\ taking[i] = "writing" => vexSig = taken[i] \/ i \in unverified
    /\ intakes[i] # Absent =>
           /\ taking[i] = "taken"
           /\ intakes[i].signature = intakes[i].document \/ i \in unverified

\* A reconciliation has a receipt, and what it decided is a function of that, the document
\* and the hits in the name of its record.
HasReceipt(r) ==
    /\ intakes[request[r].intake] # Absent
    /\ found[r].receipt = intakes[request[r].intake]

HasDecided(r) ==
    /\ HasReceipt(r)
    /\ found[r].id = RecordId(request[r].handoff, found[r].receipt, found[r].id.hits)
    /\ found[r].decisions = Decisions(found[r].id.hits.list, found[r].document, found[r].bound)
    /\ found[r].bound => found[r].receipt.document = found[r].document
    /\ \A hit \in Hits(found[r].id.hits.list) : hit.purl \in ComponentPurls(HandoffOf(r).sbom)

ReconcilerInv(r) ==
    /\ found[r] = [receipt |-> found[r].receipt, document |-> found[r].document,
                   bound |-> found[r].bound, id |-> found[r].id,
                   decisions |-> found[r].decisions]
    /\ found[r].bound \in BOOLEAN
    /\ narrowing[r] \in {"document", "hits"} => HasReceipt(r)
    /\ narrowing[r] = "hits" /\ found[r].bound => found[r].receipt.document = found[r].document
    /\ narrowing[r] \in {"looking", "making", "deciding", "receipt", "recorded", "refused"} =>
           HasDecided(r)
    /\ narrowing[r] = "refused" => RecordedBefore(r)

\* What is in a record is what the call that made it has decided, the receipt last.
RecordInv(x) ==
    /\ x = [id |-> x.id, by |-> x.by, decisions |-> x.decisions, receipt |-> x.receipt]
    /\ x.by \in Reconciler /\ HasDecided(x.by) /\ x.id = found[x.by].id
    /\ narrowing[x.by] \in {"deciding", "receipt", "recorded", "failed"}
    /\ x.decisions \in {Absent, found[x.by].decisions}
    /\ narrowing[x.by] = "deciding" => x.receipt = Absent
    /\ narrowing[x.by] = "receipt" => x.decisions = found[x.by].decisions
    /\ x.receipt # Absent => x.receipt = x.decisions /\ x.receipt = found[x.by].decisions
    /\ narrowing[x.by] = "recorded" => x.receipt = found[x.by].decisions

NarrowTypes ==
    /\ taking = [i \in Intake |-> taking[i]] /\ taken = [i \in Intake |-> taken[i]]
    /\ intakes = [i \in Intake |-> intakes[i]]
    /\ narrowing = [r \in Reconciler |-> narrowing[r]]
    /\ found = [r \in Reconciler |-> found[r]]
    /\ request \in [Reconciler ->
                       [handoff: {h.id : h \in handoffs}, intake: Intake, named: BOOLEAN]]

NarrowInv ==
    /\ NarrowTypes
    /\ \A i \in Intake : IntakeInv(i)
    /\ \A r \in Reconciler : ReconcilerInv(r)
    /\ \A x \in records : RecordInv(x)

LEMMA NarrowInitInv == NarrowInit => NarrowInv
<1> SUFFICES ASSUME NarrowInit PROVE NarrowInv
  OBVIOUS
<1>1. NarrowTypes
  BY DEF NarrowInit, NarrowTypes
<1>2. \A i \in Intake : IntakeInv(i)
  BY DEF NarrowInit, IntakeInv
<1>3. \A r \in Reconciler : ReconcilerInv(r)
  BY DEF NarrowInit, NothingFound, ReconcilerInv
<1>4. records = {}
  BY DEF NarrowInit
<1> QED
  BY <1>1, <1>2, <1>3, <1>4 DEF NarrowInv

\* The intakes and the environment leave what reconciliations have; a receipt stays.
LEMMA IntakesKeepRecords ==
    ASSUME NarrowInv, UNCHANGED <<handoffs, request, narrowing, found, records>>,
           \A i \in Intake : intakes[i] # Absent => intakes'[i] = intakes[i]
    PROVE  /\ \A r \in Reconciler : ReconcilerInv(r)'
           /\ \A x \in records' : RecordInv(x)'
<1>1. ASSUME NEW r \in Reconciler PROVE HasReceipt(r) => HasReceipt(r)'
  BY DEF HasReceipt, NarrowInv, NarrowTypes
<1>2. ASSUME NEW r \in Reconciler PROVE HasDecided(r) => HasDecided(r)'
  <2>1. HandoffOf(r)' = HandoffOf(r)
    BY DEF HandoffOf
  <2> QED
    BY <1>1, <2>1 DEF HasDecided
<1>3. ASSUME NEW r \in Reconciler PROVE ReconcilerInv(r)'
  <2>1. RecordedBefore(r)' <=> RecordedBefore(r)
    BY DEF RecordedBefore
  <2>2. ReconcilerInv(r)
    BY DEF NarrowInv
  <2> QED
    BY <1>1, <1>2, <2>1, <2>2 DEF ReconcilerInv
<1>4. ASSUME NEW x \in records PROVE RecordInv(x)'
  BY <1>2 DEF NarrowInv, RecordInv
<1> QED
  BY <1>3, <1>4

LEMMA IntakeKeepsInv ==
    ASSUME NarrowInv, UNCHANGED handoffs, NEW i \in Intake,
           VerifyDocument(i) \/ ReadDocument(i) \/ WriteIntake(i) \/ IntakeFails(i)
    PROVE  NarrowInv'
<1>1. /\ UNCHANGED <<vex, vexSig, hits, changes, unverified, request, narrowing, found, records>>
      /\ IntakeInv(i)
  BY DEF VerifyDocument, ReadDocument, WriteIntake, IntakeFails, IntakeOnly, IntakeFiles,
         NarrowInv
<1>2. /\ \A j \in Intake \ {i} : taking'[j] = taking[j] /\ taken'[j] = taken[j] /\ intakes'[j] = intakes[j]
      /\ taking' = [j \in Intake |-> taking'[j]] /\ taken' = [j \in Intake |-> taken'[j]]
      /\ intakes' = [j \in Intake |-> intakes'[j]]
  BY DEF VerifyDocument, ReadDocument, WriteIntake, IntakeFails, TakeTo, NarrowInv, NarrowTypes
<1>3. NarrowTypes'
  BY <1>1, <1>2 DEF NarrowInv, NarrowTypes
<1>4. IntakeInv(i)' /\ (intakes[i] # Absent => intakes'[i] = intakes[i])
  <2>1. CASE VerifyDocument(i)
    <3>1. taking[i] = "start" /\ intakes' = intakes /\ taking'[i] \in {"reading", "failed"}
          /\ (taking'[i] = "reading" => vexSig = vex)
      BY <2>1 DEF VerifyDocument, TakeTo, NarrowInv, NarrowTypes
    <3> QED
      BY <1>1, <3>1 DEF IntakeInv
  <2>2. CASE ReadDocument(i)
    <3>1. taking[i] = "reading" /\ intakes' = intakes /\ taking'[i] \in {"writing", "failed"}
          /\ (taking'[i] = "writing" => taken'[i] = vex)
      BY <2>2 DEF ReadDocument, TakeTo, NarrowInv, NarrowTypes
    <3> QED
      BY <1>1, <3>1 DEF IntakeInv
  <2>3. CASE WriteIntake(i)
    <3>1. taking[i] = "writing" /\ taking'[i] = "taken"
          /\ intakes'[i] = [document |-> taken[i], signature |-> vexSig]
      BY <2>3 DEF WriteIntake, TakeTo, NarrowInv, NarrowTypes
    <3> QED
      BY <1>1, <3>1 DEF IntakeInv
  <2>4. CASE IntakeFails(i)
    <3>1. taking[i] \in {"reading", "writing"} /\ taking'[i] = "failed" /\ intakes' = intakes
      BY <2>4 DEF IntakeFails, TakeTo, NarrowInv, NarrowTypes
    <3> QED
      BY <1>1, <3>1 DEF IntakeInv
  <2> QED
    BY <2>1, <2>2, <2>3, <2>4
<1>5. \A j \in Intake : IntakeInv(j)'
  BY <1>1, <1>2, <1>4 DEF NarrowInv, IntakeInv
<1>6. /\ \A r \in Reconciler : ReconcilerInv(r)'
      /\ \A x \in records' : RecordInv(x)'
  BY <1>1, <1>2, <1>4, IntakesKeepRecords
<1> QED
  BY <1>3, <1>5, <1>6 DEF NarrowInv

\* A change of a file concerns the intakes that are at work.
LEMMA ChangeFilesKeepsInv ==
    ASSUME NarrowInv, UNCHANGED handoffs, ChangeFiles
    PROVE  NarrowInv'
<1>1. /\ UNCHANGED <<request, taking, taken, intakes, narrowing, found, records>>
      /\ unverified' = unverified \cup {i \in Intake : taking[i] \in {"reading", "writing"}}
  BY DEF ChangeFiles
<1>2. NarrowTypes'
  BY <1>1 DEF NarrowInv, NarrowTypes
<1>3. \A i \in Intake : IntakeInv(i)'
  BY <1>1 DEF NarrowInv, IntakeInv
<1>4. /\ \A r \in Reconciler : ReconcilerInv(r)'
      /\ \A x \in records' : RecordInv(x)'
  BY <1>1, IntakesKeepRecords
<1> QED
  BY <1>2, <1>3, <1>4 DEF NarrowInv

-----------------------------------------------------------------------------
(* Reconciliations *)

\* One call moves; what it found is its own.
Moves(r, step) ==
    /\ narrowing' = [narrowing EXCEPT ![r] = step]
    /\ found' = [found EXCEPT ![r] = found'[r]]
    /\ UNCHANGED <<handoffs, vex, vexSig, hits, changes, unverified, request, taking, taken, intakes>>

\* What others found and decided stays, and the types do.
LEMMA MovesKeepsOthers ==
    ASSUME NarrowInv, NEW r \in Reconciler, NEW step, Moves(r, step)
    PROVE  /\ NarrowTypes' /\ \A i \in Intake : IntakeInv(i)'
           /\ narrowing'[r] = step
           /\ \A q \in Reconciler \ {r} : narrowing'[q] = narrowing[q] /\ found'[q] = found[q]
           /\ \A q \in Reconciler : found'[q] = found[q] =>
                  /\ HasReceipt(q) => HasReceipt(q)'
                  /\ HasDecided(q) => HasDecided(q)'
<1>1. NarrowTypes'
  BY DEF NarrowInv, NarrowTypes, Moves
<1>2. \A i \in Intake : IntakeInv(i)'
  BY DEF NarrowInv, IntakeInv, Moves
<1>3. /\ narrowing'[r] = step
      /\ \A q \in Reconciler \ {r} : narrowing'[q] = narrowing[q] /\ found'[q] = found[q]
  BY DEF NarrowInv, NarrowTypes, Moves
<1>4. ASSUME NEW q \in Reconciler, found'[q] = found[q]
      PROVE  /\ HasReceipt(q) => HasReceipt(q)'
             /\ HasDecided(q) => HasDecided(q)'
  <2>1. HandoffOf(q)' = HandoffOf(q) /\ request' = request
    BY DEF HandoffOf, Moves
  <2>2. HasReceipt(q) => HasReceipt(q)'
    BY <1>4 DEF HasReceipt, Moves
  <2> QED
    BY <1>4, <2>1, <2>2 DEF HasDecided
<1> QED
  BY <1>1, <1>2, <1>3, <1>4

\* A call that leaves the records as they are has none of its own, or stops.
LEMMA MoveAloneKeepsInv ==
    ASSUME NarrowInv, NEW r \in Reconciler, NEW step, Moves(r, step), records' = records,
           ReconcilerInv(r)',
           (\A x \in records : x.by # r) \/ (found'[r] = found[r] /\ step = "failed")
    PROVE  NarrowInv'
<1>1. ASSUME NEW q \in Reconciler, q # r PROVE ReconcilerInv(q)'
  <2>1. RecordedBefore(q)' <=> RecordedBefore(q)
    BY <1>1, MovesKeepsOthers DEF RecordedBefore
  <2> QED
    BY <1>1, <2>1, MovesKeepsOthers DEF NarrowInv, ReconcilerInv
<1>2. ASSUME NEW x \in records PROVE RecordInv(x)'
  <2>1. CASE x.by # r
    BY <2>1, MovesKeepsOthers DEF NarrowInv, RecordInv
  <2>2. CASE found'[r] = found[r] /\ step = "failed" /\ x.by = r
    BY <2>2, MovesKeepsOthers DEF NarrowInv, RecordInv
  <2> QED
    BY <2>1, <2>2
<1> QED
  BY <1>1, <1>2, MovesKeepsOthers DEF NarrowInv

\* Until a call has made its directory, no record is of it.
LEMMA NoRecordYet ==
    ASSUME NarrowInv, NEW r \in Reconciler,
           narrowing[r] \in {"start", "document", "hits", "looking", "making"}
    PROVE  \A x \in records : x.by # r
  BY DEF NarrowInv, RecordInv

LEMMA ReadKeepsInv ==
    ASSUME NarrowInv, UNCHANGED handoffs, NEW r \in Reconciler, ReadReceipt(r)
    PROVE  NarrowInv'
<1>1. /\ narrowing[r] = "start" /\ records' = records
      /\ intakes[request[r].intake] # Absent
      /\ found' = [found EXCEPT ![r].receipt = intakes[request[r].intake]]
  BY DEF ReadReceipt
<1>2. ReconcilerInv(r)
  BY DEF NarrowInv
<1>3. /\ found'[r] = [found[r] EXCEPT !.receipt = intakes[request[r].intake]]
      /\ found' = [found EXCEPT ![r] = found'[r]]
  BY <1>1 DEF NarrowInv, NarrowTypes
<1>4. Moves(r, "document")
  BY <1>3 DEF ReadReceipt, NarrowTo, ReconcilerOnly, IntakeFiles, Moves
<1>5. narrowing'[r] = "document"
  BY <1>4, MovesKeepsOthers
<1>6. HasReceipt(r)'
  BY <1>1, <1>2, <1>3, <1>4 DEF HasReceipt, Moves, ReconcilerInv
<1>7. ReconcilerInv(r)'
  BY <1>2, <1>3, <1>5, <1>6 DEF ReconcilerInv
<1> QED
  BY <1>1, <1>4, <1>7, NoRecordYet, MoveAloneKeepsInv

LEMMA BindKeepsInv ==
    ASSUME NarrowInv, UNCHANGED handoffs, NEW r \in Reconciler, BindDocument(r)
    PROVE  NarrowInv'
<1> DEFINE bound == Bound(found[r].receipt, vex, request[r].named)
<1>1. /\ narrowing[r] = "document" /\ records' = records
      /\ found' = [found EXCEPT ![r].document = vex, ![r].bound = bound]
  BY DEF BindDocument
<1>2. ReconcilerInv(r) /\ HasReceipt(r)
  BY <1>1 DEF NarrowInv, ReconcilerInv
<1>3. bound \in BOOLEAN /\ (bound => found[r].receipt.document = vex)
  BY DEF Bound
<1> HIDE DEF bound
<1>4. /\ found'[r] = [found[r] EXCEPT !.document = vex, !.bound = bound]
      /\ found' = [found EXCEPT ![r] = found'[r]]
  BY <1>1 DEF NarrowInv, NarrowTypes
<1>5. Moves(r, "hits")
  BY <1>4 DEF BindDocument, NarrowTo, ReconcilerOnly, IntakeFiles, Moves
<1>6. narrowing'[r] = "hits"
  BY <1>5, MovesKeepsOthers
<1>7. /\ found'[r] = [receipt |-> found[r].receipt, document |-> vex, bound |-> bound,
                      id |-> found[r].id, decisions |-> found[r].decisions]
  BY <1>2, <1>4 DEF ReconcilerInv
<1>8. HasReceipt(r)'
  BY <1>2, <1>5, <1>7 DEF HasReceipt, Moves
<1>9. ReconcilerInv(r)'
  BY <1>3, <1>6, <1>7, <1>8 DEF ReconcilerInv
<1> QED
  BY <1>1, <1>5, <1>9, NoRecordYet, MoveAloneKeepsInv

LEMMA DecideKeepsInv ==
    ASSUME NarrowInv, UNCHANGED handoffs, NEW r \in Reconciler, Decide(r)
    PROVE  NarrowInv'
<1> DEFINE id == RecordId(hits.handoff, found[r].receipt, hits)
           decisions == Decisions(hits.list, found[r].document, found[r].bound)
<1>1. narrowing[r] = "hits" /\ records' = records
  BY DEF Decide
<1>2. /\ ReconcilerInv(r) /\ HasReceipt(r)
      /\ found[r].bound => found[r].receipt.document = found[r].document
  BY <1>1 DEF NarrowInv, ReconcilerInv
<1>3. CASE /\ hits.handoff = request[r].handoff
           /\ \A hit \in Hits(hits.list) : hit.purl \in ComponentPurls(HandoffOf(r).sbom)
  <2>1. /\ found' = [found EXCEPT ![r].id = id, ![r].decisions = decisions]
        /\ NarrowTo(r, "looking")
    BY <1>3 DEF Decide
  <2>2. id.hits = hits
    BY DEF RecordId
  <2>3. id = RecordId(request[r].handoff, found[r].receipt, hits)
    BY <1>3
  <2> HIDE DEF id, decisions
  <2>4. /\ found'[r] = [found[r] EXCEPT !.id = id, !.decisions = decisions]
        /\ found' = [found EXCEPT ![r] = found'[r]]
    BY <2>1 DEF NarrowInv, NarrowTypes
  <2>5. Moves(r, "looking")
    BY <2>1, <2>4 DEF Decide, NarrowTo, ReconcilerOnly, IntakeFiles, Moves
  <2>6. narrowing'[r] = "looking"
    BY <2>5, MovesKeepsOthers
  <2>7. found'[r] = [receipt |-> found[r].receipt, document |-> found[r].document,
                     bound |-> found[r].bound, id |-> id, decisions |-> decisions]
    BY <1>2, <2>4 DEF ReconcilerInv
  <2>8. HandoffOf(r)' = HandoffOf(r) /\ request' = request /\ HasReceipt(r)'
    BY <1>2, <2>5, <2>7 DEF HandoffOf, HasReceipt, Moves
  <2>9. decisions = Decisions(id.hits.list, found[r].document, found[r].bound)
    BY <2>2 DEF decisions
  <2>10. HasDecided(r)'
    BY <1>2, <1>3, <2>2, <2>3, <2>7, <2>8, <2>9 DEF HasDecided
  <2>11. ReconcilerInv(r)'
    BY <1>2, <2>6, <2>7, <2>8, <2>10 DEF ReconcilerInv
  <2> QED
    BY <1>1, <2>5, <2>11, NoRecordYet, MoveAloneKeepsInv
<1>4. CASE ~ /\ hits.handoff = request[r].handoff
             /\ \A hit \in Hits(hits.list) : hit.purl \in ComponentPurls(HandoffOf(r).sbom)
  <2>1. NarrowTo(r, "failed") /\ found' = found
    BY <1>4 DEF Decide
  <2>2. Moves(r, "failed")
    BY <2>1 DEF Decide, NarrowTo, ReconcilerOnly, IntakeFiles, Moves, NarrowInv, NarrowTypes
  <2>3. ReconcilerInv(r)'
    BY <1>2, <2>1, <2>2, MovesKeepsOthers DEF ReconcilerInv
  <2> QED
    BY <1>1, <2>1, <2>2, <2>3, MoveAloneKeepsInv
<1> QED
  BY <1>3, <1>4

\* A call that is refused has found a record of its name.
LEMMA LookKeepsInv ==
    ASSUME NarrowInv, UNCHANGED handoffs, NEW r \in Reconciler,
           NEW step \in {"making", "refused"}, NarrowTo(r, step),
           narrowing[r] \in {"looking", "making"},
           step = "refused" => RecordedBefore(r),
           UNCHANGED <<found, records>>, ReconcilerOnly
    PROVE  NarrowInv'
<1>1. Moves(r, step)
  BY DEF NarrowTo, ReconcilerOnly, IntakeFiles, Moves, NarrowInv, NarrowTypes
<1>2. HasDecided(r) /\ ReconcilerInv(r)
  BY DEF NarrowInv, ReconcilerInv
<1>3. HasDecided(r)' /\ narrowing'[r] = step
  BY <1>1, <1>2, MovesKeepsOthers
<1>4. RecordedBefore(r)' <=> RecordedBefore(r)
  BY DEF RecordedBefore
<1>5. ReconcilerInv(r)'
  BY <1>2, <1>3, <1>4 DEF ReconcilerInv
<1> QED
  BY <1>1, <1>5, NoRecordYet, MoveAloneKeepsInv

LEMMA StopKeepsInv ==
    ASSUME NarrowInv, UNCHANGED handoffs, NEW r \in Reconciler, NarrowingStops(r)
    PROVE  NarrowInv'
<1>1. Moves(r, "failed") /\ UNCHANGED <<found, records>>
  BY DEF NarrowingStops, NarrowTo, ReconcilerOnly, IntakeFiles, Moves, NarrowInv, NarrowTypes
<1>2. ReconcilerInv(r)'
  BY <1>1, MovesKeepsOthers DEF NarrowInv, ReconcilerInv
<1> QED
  BY <1>1, <1>2, MoveAloneKeepsInv

LEMMA MakeKeepsInv ==
    ASSUME NarrowInv, UNCHANGED handoffs, NEW r \in Reconciler, MakeRecord(r)
    PROVE  NarrowInv'
<1> DEFINE new == [id |-> found[r].id, by |-> r, decisions |-> Absent, receipt |-> Absent]
<1>1. narrowing[r] = "making" /\ found' = found /\ ReconcilerOnly
  BY DEF MakeRecord
<1>2. CASE RecordedBefore(r)
  <2>1. NarrowTo(r, "refused") /\ records' = records
    BY <1>2 DEF MakeRecord
  <2> QED
    BY <1>1, <1>2, <2>1, LookKeepsInv
<1>3. CASE ~ RecordedBefore(r)
  <2>1. NarrowTo(r, "deciding") /\ records' = records \cup {new}
    BY <1>3 DEF MakeRecord
  <2>2. Moves(r, "deciding")
    BY <1>1, <2>1 DEF NarrowTo, ReconcilerOnly, IntakeFiles, Moves, NarrowInv, NarrowTypes
  <2>3. HasDecided(r) /\ ReconcilerInv(r)
    BY <1>1 DEF NarrowInv, ReconcilerInv
  <2>4. /\ narrowing'[r] = "deciding"
        /\ \A q \in Reconciler : HasReceipt(q) => HasReceipt(q)'
        /\ \A q \in Reconciler : HasDecided(q) => HasDecided(q)'
    BY <1>1, <2>2, MovesKeepsOthers
  <2>5. ASSUME NEW q \in Reconciler PROVE ReconcilerInv(q)'
    <3>1. CASE q = r
      BY <1>1, <2>3, <2>4, <3>1 DEF ReconcilerInv
    <3>2. CASE q # r
      <4>1. RecordedBefore(q) => RecordedBefore(q)'
        BY <1>1, <2>1 DEF RecordedBefore
      <4> QED
        BY <1>1, <2>2, <2>4, <3>2, <4>1, MovesKeepsOthers DEF NarrowInv, ReconcilerInv
    <3> QED
      BY <3>1, <3>2
  <2>6. ASSUME NEW x \in records' PROVE RecordInv(x)'
    <3>1. CASE x = new
      <4>1. x.id = found[r].id /\ x.by = r /\ x.decisions = Absent /\ x.receipt = Absent
        BY <3>1
      <4> QED
        BY <1>1, <2>3, <2>4, <3>1, <4>1 DEF RecordInv
    <3>2. CASE x \in records
      <4>1. x.by # r
        BY <1>1, <3>2, NoRecordYet
      <4> QED
        BY <1>1, <2>2, <2>4, <3>2, <4>1, MovesKeepsOthers DEF NarrowInv, RecordInv
    <3> QED
      BY <2>1, <3>1, <3>2
  <2> QED
    BY <2>2, <2>5, <2>6, MovesKeepsOthers DEF NarrowInv
<1> QED
  BY <1>2, <1>3

\* A call writes to its own record: first the decisions, then the receipt.
LEMMA WriteKeepsInv ==
    ASSUME NarrowInv, UNCHANGED handoffs, NEW r \in Reconciler, ReconcilerOnly, found' = found,
           NEW step \in {"receipt", "recorded"}, NarrowTo(r, step),
           NEW write, records' = {IF x.by = r THEN write[x] ELSE x : x \in records},
           narrowing[r] \in {"deciding", "receipt"},
           \A x \in records : x.by = r =>
               \E e \in {Absent, found[r].decisions} :
                   /\ write[x] = [id |-> x.id, by |-> r, decisions |-> found[r].decisions,
                                  receipt |-> e]
                   /\ step = "recorded" => e = found[r].decisions
    PROVE  NarrowInv'
<1>1. Moves(r, step)
  BY DEF NarrowTo, ReconcilerOnly, IntakeFiles, Moves, NarrowInv, NarrowTypes
<1>2. /\ narrowing'[r] = step
      /\ \A q \in Reconciler : HasReceipt(q) => HasReceipt(q)'
      /\ \A q \in Reconciler : HasDecided(q) => HasDecided(q)'
      /\ \A q \in Reconciler \ {r} : narrowing'[q] = narrowing[q]
  BY <1>1, MovesKeepsOthers
<1>3. ASSUME NEW x \in records, x.by = r PROVE write[x].id = x.id
  <2>1. PICK e \in {Absent, found[r].decisions} :
            write[x] = [id |-> x.id, by |-> r, decisions |-> found[r].decisions, receipt |-> e]
    BY <1>3
  <2> QED
    BY <2>1
<1>4. ASSUME NEW q \in Reconciler PROVE RecordedBefore(q) => RecordedBefore(q)'
  <2>1. SUFFICES ASSUME NEW x \in records, x.id = found[q].id
                 PROVE  \E y \in records' : y.id = found[q].id
    BY DEF RecordedBefore
  <2> QED
    BY <1>3, <2>1
<1>5. ASSUME NEW q \in Reconciler PROVE ReconcilerInv(q)'
  <2>1. ReconcilerInv(q)
    BY DEF NarrowInv
  <2>2. CASE q = r
    <3>1. HasDecided(r)
      BY DEF NarrowInv, ReconcilerInv
    <3> QED
      BY <1>2, <2>1, <2>2, <3>1 DEF ReconcilerInv
  <2>3. CASE q # r
    BY <1>2, <1>4, <2>1, <2>3 DEF ReconcilerInv
  <2> QED
    BY <2>2, <2>3
<1>6. ASSUME NEW y \in records' PROVE RecordInv(y)'
  <2>1. PICK x \in records : y = IF x.by = r THEN write[x] ELSE x
    OBVIOUS
  <2>2. RecordInv(x)
    BY DEF NarrowInv
  <2>3. CASE x.by = r
    <3>1. PICK e \in {Absent, found[r].decisions} :
              /\ y = [id |-> x.id, by |-> r, decisions |-> found[r].decisions, receipt |-> e]
              /\ step = "recorded" => e = found[r].decisions
      BY <2>1, <2>3
    <3>2. HasDecided(r) /\ x.id = found[r].id
      BY <2>2, <2>3 DEF RecordInv
    <3> QED
      BY <1>2, <3>1, <3>2 DEF RecordInv
  <2>4. CASE x.by # r
    BY <1>2, <2>1, <2>2, <2>4 DEF RecordInv
  <2> QED
    BY <2>3, <2>4
<1> QED
  BY <1>1, <1>5, <1>6, MovesKeepsOthers DEF NarrowInv

LEMMA NarrowNextInv ==
    NarrowInv /\ [NarrowNext /\ UNCHANGED handoffs]_recordVars => NarrowInv'
<1> SUFFICES ASSUME NarrowInv, [NarrowNext /\ UNCHANGED handoffs]_recordVars PROVE NarrowInv'
  OBVIOUS
<1>1. CASE UNCHANGED recordVars
  <2>1. UNCHANGED <<handoffs, taking, taken, intakes, vex, vexSig, hits, changes, unverified,
                    narrowing, request, found, records>>
    BY <1>1 DEF recordVars, narrowVars
  <2>2. /\ \A r \in Reconciler : ReconcilerInv(r)'
        /\ \A x \in records' : RecordInv(x)'
    BY <2>1, IntakesKeepRecords
  <2>3. NarrowTypes' /\ \A i \in Intake : IntakeInv(i)'
    BY <2>1 DEF NarrowInv, NarrowTypes, IntakeInv
  <2> QED
    BY <2>2, <2>3 DEF NarrowInv
<1> SUFFICES ASSUME UNCHANGED handoffs, NarrowNext PROVE NarrowInv'
  BY <1>1
<1>2. ASSUME NEW i \in Intake,
             VerifyDocument(i) \/ ReadDocument(i) \/ WriteIntake(i) \/ IntakeFails(i)
      PROVE  NarrowInv'
  BY <1>2, IntakeKeepsInv
<1>3. ASSUME NEW r \in Reconciler,
             ReadReceipt(r) \/ BindDocument(r) \/ Decide(r) \/ MakeRecord(r) \/ NarrowingStops(r)
      PROVE  NarrowInv'
  BY <1>3, ReadKeepsInv, BindKeepsInv, DecideKeepsInv, MakeKeepsInv, StopKeepsInv
<1>4. ASSUME NEW r \in Reconciler, LookForRecord(r) PROVE NarrowInv'
  BY <1>4, LookKeepsInv DEF LookForRecord
<1>5. ASSUME NEW r \in Reconciler, WriteDecisions(r) PROVE NarrowInv'
  <2> DEFINE write == [x \in records |-> [x EXCEPT !.decisions = found[r].decisions]]
  <2>1. ASSUME NEW x \in records, x.by = r
        PROVE  \E e \in {Absent, found[r].decisions} :
                   write[x] = [id |-> x.id, by |-> r, decisions |-> found[r].decisions,
                               receipt |-> e]
    <3>1. x = [id |-> x.id, by |-> x.by, decisions |-> x.decisions, receipt |-> x.receipt]
          /\ (x.receipt # Absent => x.receipt = found[r].decisions)
      BY <2>1 DEF NarrowInv, RecordInv
    <3> QED
      BY <2>1, <3>1
  <2>2. /\ records' = {IF x.by = r THEN write[x] ELSE x : x \in records}
        /\ narrowing[r] = "deciding" /\ NarrowTo(r, "receipt") /\ found' = found /\ ReconcilerOnly
    BY <1>5 DEF WriteDecisions
  <2> HIDE DEF write
  <2> QED
    BY <2>1, <2>2, WriteKeepsInv
<1>6. ASSUME NEW r \in Reconciler, WriteNarrowedReceipt(r) PROVE NarrowInv'
  <2> DEFINE write == [x \in records |-> [x EXCEPT !.receipt = found[r].decisions]]
  <2>1. ASSUME NEW x \in records, x.by = r
        PROVE  write[x] = [id |-> x.id, by |-> r, decisions |-> found[r].decisions,
                           receipt |-> found[r].decisions]
    <3>1. x = [id |-> x.id, by |-> x.by, decisions |-> x.decisions, receipt |-> x.receipt]
          /\ x.decisions = found[r].decisions
      BY <1>6, <2>1 DEF WriteNarrowedReceipt, NarrowInv, RecordInv
    <3> QED
      BY <2>1, <3>1
  <2>2. /\ records' = {IF x.by = r THEN write[x] ELSE x : x \in records}
        /\ narrowing[r] = "receipt" /\ NarrowTo(r, "recorded") /\ found' = found /\ ReconcilerOnly
    BY <1>6 DEF WriteNarrowedReceipt
  <2> HIDE DEF write
  <2> QED
    BY <2>1, <2>2, WriteKeepsInv
<1>7. ASSUME \/ \E v \in VexDocument : ChangeDocument(v)
             \/ ChangeSignature
             \/ \E list \in HitList : ChangeHits(list)
      PROVE  NarrowInv'
  BY <1>7, ChangeFilesKeepsInv DEF ChangeDocument, ChangeSignature, ChangeHits
<1> QED
  BY <1>2, <1>3, <1>4, <1>5, <1>6, <1>7 DEF NarrowNext

LEMMA ReceiptsFollow == NarrowInv => ReceiptHasItsDecisions
  BY DEF NarrowInv, RecordInv, ReceiptHasItsDecisions

\* A record never has a receipt without the decisions whose hash the receipt has
\* (_execute_intake_narrowed).
THEOREM ReceiptHasItsDecisionsAlways == NarrowSpec => []ReceiptHasItsDecisions
<1> QED
  BY ReceiptsFollow, NarrowInitInv, NarrowNextInv, PTL DEF NarrowSpec

\* What a call has decided narrows a hit for a reason: the document is that of the receipt,
\* and says "not_affected" and nothing else of the package.
LEMMA DecidedIsJustified ==
    ASSUME NEW r \in Reconciler, HasDecided(r),
           NEW hit \in DOMAIN found[r].decisions, found[r].decisions[hit]
    PROVE  LET v == found[r].id.statements
               about == {st \in Statements[v] : Says(st, hit)}
           IN /\ v = found[r].receipt.document
              /\ about # {} /\ \A st \in about : st.status = "not_affected"
              /\ hit.purl \in ComponentPurls(HandoffOf(r).sbom)
<1> DEFINE v == found[r].id.statements
<1>1. v = found[r].receipt.document
  BY DEF HasDecided, RecordId
<1>2. hit \in Hits(found[r].id.hits.list) /\ found[r].bound /\ Narrows(hit, found[r].document)
  BY DEF HasDecided, Decisions
<1>3. found[r].document = v
  BY <1>1, <1>2 DEF HasDecided
<1>4. hit.purl \in ComponentPurls(HandoffOf(r).sbom)
  BY <1>2 DEF HasDecided
<1>5. PICK q : hit.purl = Canonical(q)
  BY <1>2 DEF Hits
<1>6. \A p : SamePackage(p, hit.purl) <=> Canonical(p) = hit.purl
  BY <1>5 DEF SamePackage, Canonical
<1>7. \A st : Says(st, hit) <=> st.vulnerability = hit.vulnerability /\ hit.purl \in Products(st)
  BY <1>6 DEF Says, Products
<1>8. {st \in Statements[v] : Says(st, hit)} = Matching(hit, v)
  BY <1>7 DEF Matching
<1> QED
  BY <1>1, <1>2, <1>3, <1>4, <1>8 DEF Narrows

\* A hit is narrowed only for a package of the handed-off document, by a document of which a
\* verified signature is there, unless it changed meanwhile.
LEMMA RecordsAreJustified == NarrowInv => NarrowedIsJustified
<1>1. ASSUME NarrowInv, NEW x \in records, x.decisions # Absent,
             NEW hit \in DOMAIN x.decisions, x.decisions[hit]
      PROVE  LET v == x.id.statements
                 about == {st \in Statements[v] : Says(st, hit)}
             IN /\ \E i \in Intake :
                       /\ intakes[i] # Absent /\ intakes[i].document = v
                       /\ intakes[i].signature = v \/ i \in unverified
                /\ about # {} /\ \A st \in about : st.status = "not_affected"
                /\ \E h \in handoffs :
                       /\ h.id = x.id.handoff
                       /\ \E c \in Elements(Content[h.sbom].components) :
                              c.purl # Absent /\ SamePackage(c.purl, hit.purl)
  <2> DEFINE r == x.by
  <2>1. r \in Reconciler /\ HasDecided(r) /\ x.id = found[r].id /\ x.decisions = found[r].decisions
    BY <1>1 DEF NarrowInv, RecordInv
  <2> HIDE DEF r
  <2>2. /\ x.id.statements = found[r].receipt.document
        /\ {st \in Statements[x.id.statements] : Says(st, hit)} # {}
        /\ \A st \in {st \in Statements[x.id.statements] : Says(st, hit)} : st.status = "not_affected"
        /\ hit.purl \in ComponentPurls(HandoffOf(r).sbom)
    BY <1>1, <2>1, DecidedIsJustified
  <2>3. \E i \in Intake :
            /\ intakes[i] # Absent /\ intakes[i].document = x.id.statements
            /\ intakes[i].signature = x.id.statements \/ i \in unverified
    <3>1. request[r].intake \in Intake /\ HasReceipt(r)
      BY <1>1, <2>1 DEF NarrowInv, NarrowTypes, HasDecided
    <3>2. IntakeInv(request[r].intake)
      BY <1>1, <3>1 DEF NarrowInv
    <3> QED
      BY <2>2, <3>1, <3>2 DEF HasReceipt, IntakeInv
  <2>4. HandoffOf(r) \in handoffs /\ HandoffOf(r).id = x.id.handoff
    <3>1. request[r].handoff \in {h.id : h \in handoffs} /\ x.id.handoff = request[r].handoff
      BY <1>1, <2>1 DEF NarrowInv, NarrowTypes, HasDecided, RecordId
    <3>2. \E h \in handoffs : h.id = request[r].handoff
      BY <3>1
    <3> QED
      BY <3>1, <3>2 DEF HandoffOf
  <2>5. \E c \in Elements(Content[HandoffOf(r).sbom].components) :
            c.purl # Absent /\ SamePackage(c.purl, hit.purl)
    BY <2>2 DEF ComponentPurls, Canonical, SamePackage
  <2> QED
    BY <2>2, <2>3, <2>4, <2>5
<1> QED
  BY <1>1 DEF NarrowedIsJustified

\* A hit is narrowed for a reason only, for any number of intakes and reconciliations
\* (_execute_intake_vex, _execute_intake_narrowed, narrow_one_hit).
THEOREM NarrowedIsJustifiedAlways == NarrowSpec => []NarrowedIsJustified
<1> QED
  BY RecordsAreJustified, NarrowInitInv, NarrowNextInv, PTL DEF NarrowSpec

\* A reconciliation that is refused finds the record it would have made, or one that is not
\* complete, or one made under another result of the binding.
LEMMA RefusalsAreRecorded == NarrowInv => RefusedIsRecorded
<1>1. ASSUME NarrowInv, NEW r \in Reconciler, narrowing[r] = "refused"
      PROVE  \E x \in records :
                 /\ x.id = found[r].id
                 /\ \/ x.receipt = found[r].decisions
                    \/ x.receipt = Absent /\ narrowing[x.by] \in {"deciding", "receipt", "failed"}
                    \/ found[x.by].bound # found[r].bound
  <2>1. HasDecided(r) /\ RecordedBefore(r)
    BY <1>1 DEF NarrowInv, ReconcilerInv
  <2>2. PICK x \in records : x.id = found[r].id
    BY <2>1 DEF RecordedBefore
  <2> DEFINE q == x.by
  <2>3. /\ q \in Reconciler /\ HasDecided(q) /\ found[q].id = found[r].id
        /\ x.receipt # Absent => x.receipt = found[q].decisions
        /\ narrowing[q] \in {"deciding", "receipt", "recorded", "failed"}
        /\ narrowing[q] = "recorded" => x.receipt = found[q].decisions
    BY <1>1, <2>2 DEF NarrowInv, RecordInv
  <2> HIDE DEF q
  <2>4. found[q].bound \in BOOLEAN /\ found[r].bound \in BOOLEAN
    BY <1>1, <2>3 DEF NarrowInv, ReconcilerInv
  <2>5. ASSUME found[q].bound = found[r].bound PROVE found[q].decisions = found[r].decisions
    <3> DEFINE list == found[r].id.hits.list
    <3>1. /\ found[q].decisions = Decisions(list, found[q].document, found[q].bound)
          /\ found[r].decisions = Decisions(list, found[r].document, found[r].bound)
      BY <2>1, <2>3 DEF HasDecided
    <3>2. CASE found[r].bound = TRUE
      <4>1. found[q].receipt.document = found[r].receipt.document
        BY <2>1, <2>3 DEF HasDecided, RecordId
      <4>2. found[q].document = found[r].document
        BY <2>1, <2>3, <2>5, <3>2, <4>1 DEF HasDecided
      <4> QED
        BY <2>5, <3>1, <4>2
    <3>3. CASE found[r].bound = FALSE
      BY <2>5, <3>1, <3>3 DEF Decisions
    <3> QED
      BY <2>4, <3>2, <3>3
  <2> QED
    BY <2>2, <2>3, <2>5 DEF q
<1> QED
  BY <1>1 DEF RefusedIsRecorded

\* Whoever is refused finds the answer, or why there is none, for any number of
\* reconciliations (_execute_intake_narrowed).
THEOREM RefusedIsRecordedAlways == NarrowSpec => []RefusedIsRecorded
<1> QED
  BY RefusalsAreRecorded, NarrowInitInv, NarrowNextInv, PTL DEF NarrowSpec
-----------------------------------------------------------------------------
(* All of it at the same time *)

\* The root is signed, handed off and scanned anew, and handoffs, also of earlier roots,
\* are narrowed, by any number of calls whose steps come in any order.
chainVars == <<root, signVars, handoffVars, narrowVars>>
DistinctHandoffs == \A g, h \in handoffs : g.id = h.id => g = h

ChainInit ==
    /\ SignInit /\ root \in Roots
    /\ sending = [s \in Sender |-> "start"]
    /\ binding \in [Sender -> {"DECLARED", "VERIFIED"}]
    /\ draft = [s \in Sender |-> NoDraft]
    /\ candidate \in DOMAIN RootOf
    /\ replaced = 0
    /\ DistinctHandoffs
    /\ NarrowInit

SignsBeside == SignNext /\ UNCHANGED <<handoffVars, narrowVars>>
SendsBeside == HandoffNext /\ UNCHANGED <<signVars, narrowVars>>
NarrowsBeside == NarrowNext /\ UNCHANGED <<root, signVars, handoffVars>>

ChainNext == SignsBeside \/ SendsBeside \/ NarrowsBeside
ChainSpec == ChainInit /\ [][ChainNext]_chainVars

\* Working files in the package are not among what a handoff reads.
LEMMA StrayKeepsSource ==
    ASSUME SourceIsBound, NEW names, Stray(names)
    PROVE  root'.complete = root.complete /\ SourceIsBound'
<1>1. root' = [root EXCEPT !.package.extra = @ \cup names]
  BY DEF Stray
<1>2. DOMAIN root' = DOMAIN root /\ root'.raw = root.raw /\ root'.complete = root.complete
  BY <1>1 DEF SourceIsBound
<1> QED
  BY <1>2 DEF SourceIsBound

\* What signings and verifications of signatures change of the root.
LEMMA SigningsStray ==
    ASSUME SignsBeside
    PROVE  /\ UNCHANGED handoffVars
           /\ root' = root \/ \E names : Stray(names)
BY DEF SignsBeside, SignNext, BeginSign, SignRefused, MakeRuntime, RunCosign,
       WriteSignatureReceipt, SigningFails, SigningDies, BeginVerify, EndVerify

\* A signing beside a call takes nothing away from what the call has read.
LEMMA SigningKeepsSendInv == ASSUME SendInv, SignsBeside PROVE SendInv'
<1>1. /\ UNCHANGED <<sending, binding, draft, candidate, handoffs, replaced>>
      /\ root'.complete = root.complete /\ SourceIsBound'
  BY SigningsStray, StrayKeepsSource DEF SendInv, SourceIsBound, handoffVars
<1>2. ASSUME NEW s \in Sender
      PROVE  DraftInv(s)' /\ (Verified(s)' => RunInv(s)' /\ SbomInv(s)')
  BY <1>1 DEF SendInv, DraftInv, Identity, Verified, RunInv, SbomInv, RunAgrees, SbomAgrees,
     AtCompletion
<1> QED
  BY <1>1, <1>2 DEF SendInv

\* The package of a root of Roots has a statement.
LEMMA RootsHavePackages ==
    ASSUME NEW r \in Roots
    PROVE  "package" \in DOMAIN r /\ {"extra", "ite6"} \subseteq DOMAIN r.package
BY RootOfScanBinds DEF RootType, EmptyRoot, PackageType, PackageFile

\* The root is replaced only while nobody signs and no signature is there, so that no
\* receipt of a signing that was alone binds the statement that goes.
LEMMA SendingKeepsSignInv == ASSUME SignatureIsThere, SignInv, SendsBeside PROVE SignInv'
<1>1. UNCHANGED <<signing, checking, signature, signed, overlap>>
  BY DEF SendsBeside, signVars
<1>2. CASE root' = root
  BY <1>1, <1>2 DEF SignInv, SigningInv, Alone, OthersIdle, Signs, Commands, Finished,
                    ReceiptBinds, Statement
<1>3. CASE \E d \in DOMAIN RootOf : Rescan(d)
  <2>1. root' \in Roots /\ signature = Absent /\ \A c \in Signer : ~ Signs(c)
    BY <1>3 DEF Rescan, Roots
  <2>2. "package" \in DOMAIN root' /\ {"extra", "ite6"} \subseteq DOMAIN root'.package
    BY <2>1, RootsHavePackages
  <2>3. ASSUME NEW c \in Signer PROVE SigningInv(c)'
    <3>1. ~ (Alone(c) /\ Finished(c))
      BY <2>1 DEF SignInv, SigningInv, SignatureIsThere
    <3>2. ~ (Alone(c) /\ signed[c] # Absent)
      BY <3>1 DEF SignInv, SigningInv, Finished
    <3> QED
      BY <1>1, <2>1, <3>1, <3>2 DEF SignInv, SigningInv, Alone, OthersIdle, Signs, Commands,
                                    Finished
  <2> QED
    BY <1>1, <2>2, <2>3 DEF SignInv
<1>4. root' = root \/ \E d \in DOMAIN RootOf : Rescan(d)
  BY DEF SendsBeside, HandoffNext, Declare, VerifyRoot, ReadCompletion, ReadSource, Look, Publish,
     CompareSource, Revalidate, RehashCompletion, RehashSource, SendFails, SendDies, EditCandidate,
     HandoffUnchanged
<1> QED
  BY <1>2, <1>3, <1>4

\* A handoff is added under a new name, and none is removed.
LEMMA HandoffsAreAdded ==
    ASSUME HandoffNext
    PROVE  \/ handoffs' = handoffs
           \/ \E h : ~ Taken(h.id) /\ handoffs' = handoffs \cup {h}
<1>1. ASSUME NEW s \in Sender, Publish(s)
      PROVE  \/ handoffs' = handoffs
             \/ \E h : ~ Taken(h.id) /\ handoffs' = handoffs \cup {h}
  <2> DEFINE h == [id |-> Identity(s), sbom |-> draft[s].sbom]
  <2>1. CASE Taken(Identity(s))
    BY <1>1, <2>1 DEF Publish
  <2>2. CASE ~ Taken(Identity(s))
    <3>1. handoffs' = handoffs \cup {h}
      BY <1>1, <2>2 DEF Publish
    <3>2. h.id = Identity(s)
      OBVIOUS
    <3> HIDE DEF h
    <3> QED
      BY <2>2, <3>1, <3>2
  <2> QED
    BY <2>1, <2>2
<1>2. ASSUME NEW s \in Sender,
             \/ Declare(s) \/ VerifyRoot(s) \/ ReadCompletion(s) \/ ReadSource(s) \/ Look(s)
             \/ CompareSource(s) \/ Revalidate(s) \/ RehashCompletion(s) \/ RehashSource(s)
             \/ SendFails(s) \/ SendDies(s)
      PROVE  handoffs' = handoffs
  BY <1>2 DEF Declare, VerifyRoot, ReadCompletion, ReadSource, Look, CompareSource, Revalidate,
     RehashCompletion, RehashSource, SendFails, SendDies
<1>3. ASSUME NEW d \in DOMAIN RootOf, Rescan(d) \/ EditCandidate(d) PROVE handoffs' = handoffs
  BY <1>3 DEF Rescan, EditCandidate
<1> QED
  BY <1>1, <1>2, <1>3 DEF HandoffNext

\* The handoff that a reconciliation reads stays the one of its name while others are added.
LEMMA AddedHandoffKeepsInv ==
    ASSUME NarrowInv, DistinctHandoffs, UNCHANGED narrowVars,
           \/ handoffs' = handoffs
           \/ \E h : ~ Taken(h.id) /\ handoffs' = handoffs \cup {h}
    PROVE  NarrowInv' /\ DistinctHandoffs'
<1>1. UNCHANGED <<taking, taken, intakes, vex, vexSig, hits, changes, unverified,
                  narrowing, request, found, records>>
  BY DEF narrowVars
<1>2. DistinctHandoffs' /\ handoffs \subseteq handoffs'
  BY DEF DistinctHandoffs, Taken
<1>3. ASSUME NEW r \in Reconciler PROVE HandoffOf(r)' = HandoffOf(r)
  <2>1. \E h \in handoffs : h.id = request[r].handoff
    BY DEF NarrowInv, NarrowTypes
  <2>2. HandoffOf(r) \in handoffs /\ HandoffOf(r).id = request[r].handoff
    BY <2>1 DEF HandoffOf
  <2>3. \E h \in handoffs' : h.id = request'[r].handoff
    BY <1>1, <1>2, <2>1
  <2>4. HandoffOf(r)' \in handoffs' /\ HandoffOf(r)'.id = request'[r].handoff
    BY <2>3 DEF HandoffOf
  <2> QED
    BY <1>1, <1>2, <2>2, <2>4 DEF DistinctHandoffs
<1>4. NarrowTypes'
  <2>1. {h.id : h \in handoffs} \subseteq {h.id : h \in handoffs'}
    BY <1>2
  <2> QED
    BY <1>1, <2>1 DEF NarrowInv, NarrowTypes
<1>5. \A i \in Intake : IntakeInv(i)'
  BY <1>1 DEF NarrowInv, IntakeInv
<1>6. ASSUME NEW r \in Reconciler
      PROVE  /\ HasReceipt(r)' <=> HasReceipt(r)
             /\ HasDecided(r)' <=> HasDecided(r)
             /\ RecordedBefore(r)' <=> RecordedBefore(r)
  BY <1>1, <1>3 DEF HasReceipt, HasDecided, RecordedBefore
<1>7. \A r \in Reconciler : ReconcilerInv(r)'
  BY <1>1, <1>6 DEF NarrowInv, ReconcilerInv
<1>8. \A x \in records' : RecordInv(x)'
  BY <1>1, <1>6 DEF NarrowInv, RecordInv
<1> QED
  BY <1>2, <1>4, <1>5, <1>7, <1>8 DEF NarrowInv

\* While handoffs verify the root and others scan it anew, a receipt of a signing that had
\* no other beside it binds the signature in the package for good.
THEOREM ChainSignatureStaysBound ==
    ASSUME SignatureIsThere PROVE ChainSpec => []SignatureStaysBound
<1>1. ChainInit => SignInv
  BY RootsHavePackages DEF ChainInit, SignInit, SignInv, SigningInv, Signs, Commands, Finished
<1>2. SignInv /\ [ChainNext]_chainVars => SignInv'
  <2> SUFFICES ASSUME SignInv, [ChainNext]_chainVars PROVE SignInv'
    OBVIOUS
  <2>1. CASE SignsBeside
    BY <2>1, SignNextInv DEF SignsBeside
  <2>2. CASE SendsBeside
    BY <2>2, SendingKeepsSignInv
  <2>3. CASE NarrowsBeside \/ UNCHANGED chainVars
    <3>1. UNCHANGED <<signing, checking, signature, signed, overlap, root>>
      BY <2>3 DEF NarrowsBeside, chainVars, signVars
    <3> QED
      BY <3>1 DEF SignInv, SigningInv, Alone, OthersIdle, Signs, Commands, Finished,
                  ReceiptBinds, Statement
  <2> QED
    BY <2>1, <2>2, <2>3 DEF ChainNext
<1>3. SignInv => SignatureStaysBound
  BY DEF SignInv, SigningInv, SignatureStaysBound, Alone
<1> QED
  BY <1>1, <1>2, <1>3, PTL DEF ChainSpec

\* While the package is signed, a verified handoff that was returned is of one root.
THEOREM ChainHandoffIsOfOneRoot == ChainSpec => []VerifiedHandoffIsOfOneRoot
<1>1. ChainInit => SendInv
  <2> SUFFICES ASSUME ChainInit PROVE SendInv
    OBVIOUS
  <2>1. \A s \in Sender : sending[s] = "start" /\ draft[s] = NoDraft
    BY DEF ChainInit
  <2>2. \A s \in Sender : DraftInv(s) /\ RunInv(s) /\ SbomInv(s)
    BY <2>1 DEF DraftInv, RunInv, SbomInv, NoDraft
  <2> QED
    BY <2>2, RootFacts DEF ChainInit, SendInv, SourceIsBound, SendSteps
<1>2. SendInv /\ [ChainNext]_chainVars => SendInv'
  <2> SUFFICES ASSUME SendInv, [ChainNext]_chainVars PROVE SendInv'
    OBVIOUS
  <2>1. CASE SignsBeside
    BY <2>1, SigningKeepsSendInv
  <2>2. CASE SendsBeside
    BY <2>2, SendNextInv DEF SendsBeside
  <2>3. CASE NarrowsBeside \/ UNCHANGED chainVars
    BY <2>3, SendNextInv DEF NarrowsBeside, chainVars, sendVars, handoffVars
  <2> QED
    BY <2>1, <2>2, <2>3 DEF ChainNext
<1> QED
  BY <1>1, <1>2, SendInvSuffices, PTL DEF ChainSpec

\* While roots are signed and handed off, each record of a reconciliation has its decisions
\* before its receipt, narrows for a reason, and is what whoever is refused was to make.
THEOREM ChainRecordsAreSound ==
    ChainSpec => [](ReceiptHasItsDecisions /\ NarrowedIsJustified /\ RefusedIsRecorded)
<1>1. ChainInit => NarrowInv /\ DistinctHandoffs
  BY NarrowInitInv DEF ChainInit
<1>2. NarrowInv /\ DistinctHandoffs /\ [ChainNext]_chainVars => NarrowInv' /\ DistinctHandoffs'
  <2> SUFFICES ASSUME NarrowInv, DistinctHandoffs, [ChainNext]_chainVars
               PROVE  NarrowInv' /\ DistinctHandoffs'
    OBVIOUS
  <2>1. CASE SignsBeside \/ UNCHANGED chainVars
    <3>1. handoffs' = handoffs /\ UNCHANGED narrowVars
      BY <2>1 DEF SignsBeside, chainVars, handoffVars
    <3> QED
      BY <3>1, AddedHandoffKeepsInv
  <2>2. CASE SendsBeside
    BY <2>2, HandoffsAreAdded, AddedHandoffKeepsInv DEF SendsBeside
  <2>3. CASE NarrowsBeside
    <3>1. handoffs' = handoffs /\ NarrowNext
      BY <2>3 DEF NarrowsBeside, handoffVars
    <3> QED
      BY <3>1, NarrowNextInv DEF DistinctHandoffs
  <2> QED
    BY <2>1, <2>2, <2>3 DEF ChainNext
<1> QED
  BY <1>1, <1>2, ReceiptsFollow, RecordsAreJustified, RefusalsAreRecorded, PTL DEF ChainSpec
=============================================================================
