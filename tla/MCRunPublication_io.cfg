\* Only the forward path fails: the code's own recovery must be complete.
SPECIFICATION MCSpec
CONSTANTS
    p1 = p1  p2 = p2  p3 = p3
    r1 = r1  r2 = r2
    d1 = d1  d2 = d2
    Process = {p1, p2, p3}
    RunId = {r1, r2}
    Digest = {d1, d2}
    Nobody = Nobody
    NoDigest = NoDigest
    RegistryLimit = 1
    Faults = {"io"}
INVARIANTS NoOrphanRun NothingLeftBehind
PROPERTIES WantedRunsArePublished
CHECK_DEADLOCK FALSE
