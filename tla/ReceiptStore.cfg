SPECIFICATION FileSpec
CONSTANTS
    Keys = {"confirm", "other"}
    KEY = "confirm"
    None = None
    Tokens = {k1, k2}
    Arguments = {draft1, draft2}
    Names = {"preview", "other"}
    Handles = {p1, p2}
    CallerAnswers <- MCAnswers
    MaxEffects = 3
    ConcurrentOpen = FALSE
SYMMETRY Symmetry
INVARIANTS
    ReceiptNeverMissing
    EffectIffBound
PROPERTIES
    FrozenOnceBound
