SPECIFICATION Spec
CONSTANTS
    Requests = {q1, q2, q3}
    Cap = 1
    None = None
SYMMETRY Alike
INVARIANTS
    PeaksWithinCap
    UpstreamWithinCap
    CountsAreTrue
