\* Three calls that may overlap, fail at any step, or die at any step.
SPECIFICATION Spec
CONSTANTS
    Call = {c1, c2, c3}
    NoInode = NoInode
    Faults = {"io", "kill"}
INVARIANTS OneWinner WinnerWroteTheFile StaleTmpCostsOneRetry
CHECK_DEADLOCK FALSE
