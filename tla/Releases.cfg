SPECIFICATION Spec
CONSTANTS
    Runs = {push1, push2}
    Names = {wheel, sums}
    Wheel = wheel
    MaxAttempts = 2
    MaxEdits = 2
    None = None
SYMMETRY Alike
INVARIANTS
    OneRelease
    OwnerTextKept
    SuccessMeansWhole
PROPERTY
    PublishesWhole
CHECK_DEADLOCK FALSE
