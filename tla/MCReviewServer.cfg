\* Every fault but Ctrl-C of a writer; one client; the server may restart.
SPECIFICATION MCReviewSpec
CONSTANTS
    p1 = p1  p2 = p2
    r1 = r1  r2 = r2  d = d  large = large
    Process = {p1, p2}
    RunId = {r1, r2}
    Digest = {d, large}
    Nobody = Nobody
    NoDigest = NoDigest
    RegistryLimit = 2
    Faults = {"io", "recovery", "kill"}
    Client = {c1}
    Nowhere = Nowhere
    Oversized = {large}
INVARIANTS OnlySizeFails ShownIsRegistered
PROPERTIES NoRunDisappears
CHECK_DEADLOCK FALSE
