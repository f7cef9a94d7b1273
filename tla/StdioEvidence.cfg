SPECIFICATION EvidenceSpec
CONSTANTS
    Keys = {"confirm", "other"}
    KEY = "confirm"
    None = None
    NoToken = NoToken
    Threads = {t1}
    Tokens = {k1, k2, k3, k4, k5}
    Resumes <- MCResumes
    MaxRounds = 8
    MaxAborts = 3
    MaxStores = 2
    BlindResume = FALSE
SYMMETRY Symmetry
INVARIANTS
    VerdictsAreTrue
    LabelsShownSubject
    EndsAreExplained
