SPECIFICATION FairSpec
CONSTANTS
    Runs = {r1, r2}
    None = None
INVARIANTS
    OneLaunch
    ReceiptIsTrue
    NeverDeniesExecution
    ExitCodeIsTrue
    ChecksAreTrue
PROPERTIES
    StopEndsRun
CHECK_DEADLOCK FALSE
