SPECIFICATION Spec
CONSTANTS
    Templates <- TheTemplates
    Rank <- TheRank
    Arguments <- TheArguments
    DryBuild = "smoke"
    WideSeeds = {"wide"}
    MinTemplates = 2
    MinRepeats = 2
    Delta = 10
    Responders <- TheResponders
    MaxBuilds = 2
    MaxRuns = 1
    None = None
INVARIANTS
    ScoresFirstAnswers
    HiddenReportsHaveDesign
    EffectIsOfLinks
    PathsAgree
CHECK_DEADLOCK FALSE
