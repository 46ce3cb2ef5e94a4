\* Two clears are given one receipt path; nothing fails.
SPECIFICATION MCSpec
CONSTANTS
    p1 = p1  p2 = p2  p3 = p3
    r1 = r1  r2 = r2  ra = ra  rb = rb  k = k  x = x  y = y
    Process = {p1, p2, p3}
    Run = {r1, r2}
    Receipt = {ra, rb}
    Backup = {k}
    Content = {x, y}
    Nothing = Nothing
    SharedReceipt = TRUE
    MaxEdits = 0
    Faults = {}
INVARIANTS QuarantineIsAccounted
CHECK_DEADLOCK FALSE
