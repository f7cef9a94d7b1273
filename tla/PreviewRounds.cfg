SPECIFICATION ExerciseSpec
CONSTANTS
    Keys <- MCKeys
    None = None
    NoToken = NoToken
    Threads = {t1}
    Resumes <- MCResumes
    MaxRounds = 2
    MaxAborts = 2
    BlindResume = TRUE
    Specs <- MCSpecs
    MaxForms = 3
INVARIANTS
    AnswersShownForm
    SubjectsAreExplained
    ExercisesAreTrue
    LimitStopsOperation
PROPERTIES
    RoundsInOrder
