SPECIFICATION Spec
CONSTANTS
    Ids = {a, b}
    Scopes = {room1, room2}
    Payloads = {text1, text2}
    None = None
    Examples <- TheExamples
    Files <- TheFiles
    MaxEvents = 4
    MaxEpoch = 7
SYMMETRY Alike
INVARIANTS
    FlagsAreExact
    ReportIsOfBox
    LastInputStays
