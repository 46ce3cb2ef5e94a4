\* Every fault; the registry is over its limit with two entries.
SPECIFICATION MCSpec
CONSTANTS
    p1 = p1  p2 = p2  p3 = p3
    r1 = r1  r2 = r2
    d1 = d1  d2 = d2
    Process = {p1, p2, p3}
    RunId = {r1, r2}
    Digest = {d1, d2}
    Nobody = Nobody
    NoDigest = NoDigest
    RegistryLimit = 1
    Faults = {"io", "recovery", "interrupt", "kill"}
INVARIANTS RegisteredRunsAreSealed DoneMeansPublished RefusedUnderLockForCause
PROPERTIES PublishedRunsNeverChange PublicationIsAtomic EveryInvocationEnds
CHECK_DEADLOCK FALSE
