SPECIFICATION LossSpec
CONSTANTS
    Ops = {o1, o2}
    Foreign = TRUE
    Nothing = Nothing
SYMMETRY Alike
INVARIANTS
    OneMarker
    RecoveredIsTrue
    VerdictOfSnapshot
CHECK_DEADLOCK FALSE
