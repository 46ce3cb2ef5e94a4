SPECIFICATION Spec
CONSTANTS
    Stages = {"scan", "sign", "send", "narrow", "mix"}
    d2 = d2
    d2b = d2b
    d3 = d3
    bad = bad
    v1 = v1
    v2 = v2
    v3 = v3
    Absent = Absent
    Damaged = Damaged
    Document = {d2, d2b, d3, bad}
    Content <- MCContent
    Prints <- MCPrints
    MaxEdits = 2
    MaxEdited = 1
    ScanFaults = {"io", "kill"}
    Signer = {1, 2, 3}
    SignFaults = {"io", "kill"}
    Sender = {1, 2}
    SendFaults = {"io", "kill"}
    MaxReplaced = 2
    VexDocument = {v1, v2, v3}
    Statements <- MCStatements
    Intake = {1, 2}
    Reconciler = {1, 2}
    HitList <- MCHitList
    NarrowFaults = {"io", "kill"}
    MaxChanges = 2
INVARIANTS
    VerifiedMeansScanned
    VerifiedRawIsSealed
    FailedScanDoesNotVerify
    DifferencesAreReported
    SignatureStaysBound
    VerifiedHandoffIsOfOneRoot
    OneRootVerifies
    NarrowedIsJustified
    ReceiptHasItsDecisions
    RefusedIsRecorded
CHECK_DEADLOCK FALSE
