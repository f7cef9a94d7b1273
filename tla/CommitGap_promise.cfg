SPECIFICATION FairSpec
CONSTANTS
    Keys = {"confirm", "other"}
    KEY = "confirm"
    None = None
    NoToken = NoToken
    Threads = {t1, t2}
    Tokens = {k1, k2, k3, k4}
    Arguments = {draft1}
    ARGS = draft1
    Names = {"preview"}
    Resumes <- MCYesOrNo
    MaxRounds = 8
    MaxEffects = 4
    MaxAborts = 1
    BlindResume = FALSE
    Modes = {"receipt"}
PROPERTIES
    KeepsPromise
