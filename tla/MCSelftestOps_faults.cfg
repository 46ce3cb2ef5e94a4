\* Clears with receipts of their own; one outside change; failures and deaths.
SPECIFICATION MCSpec
CONSTANTS
    p1 = p1  p2 = p2  p3 = p3
    r1 = r1  r2 = r2  ra = ra  rb = rb  k = k  x = x  y = y
    Process = {p1, p2, p3}
    Run = {r1, r2}
    Receipt = {ra, rb}
    Backup = {k}
    Content = {x, y}
    Nothing = Nothing
    SharedReceipt = FALSE
    MaxEdits = 1
    Faults = {"io", "kill"}
INVARIANTS QuarantineIsAccounted ReceiptsNameQuarantine
PROPERTIES NothingErased RestoredIsAnchored
CHECK_DEADLOCK FALSE
