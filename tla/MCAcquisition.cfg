\* Three invocations that acquire a commit, with every failure, deaths, and two
\* removals of a lock; two acquisitions and two demos of Yocto builds; two graphs.
SPECIFICATION MCSpec
CONSTANTS
    Stages = {"commit", "packages", "graphs"}
    Process = {p1, p2, p3}
    Content = {pinned, other}
    Pinned = pinned
    Nothing = Nothing
    MaxClears = 2
    Faults = {"io", "kill"}
    early = early  late = late  e1 = e1  e2 = e2  l1 = l1
    Payloads <- MCPayloads
    DemoOrder <- MCOrder
    Acquirer = {1, 2}
    Demo = {1, 2}
    Absent = Absent
    MaxTouched = 1
    PayloadFaults = {"io", "kill"}
    lib = lib  app = app  f1 = f1  f2 = f2  old = old  new = new
    bin = bin  etc = etc  h1 = h1  h2 = h2  maker = maker
    Build <- MCBuild
    Unknown = Unknown
    NoGraph = NoGraph
    MaxChanged = 1
INVARIANTS
    SuccessIsOwn LockIsExclusive
    PackageIsOfItsProfile AcquiredCanBeRead ComparedIsPublished
    ClosedReferenceIsExact DifferenceIsComplete
PROPERTIES TargetIsFinal
CHECK_DEADLOCK FALSE
