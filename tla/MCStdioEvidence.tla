-------------------------- MODULE MCStdioEvidence --------------------------
EXTENDS StdioEvidence, TLC

\* The accepted form, the form with another note, a decline and a cancel.
MCResumes == {Sole(KEY, "accept", "yes"), Sole(KEY, "accept", "yes_changed"),
              Sole(KEY, "decline", "none"), Sole(KEY, "cancel", "none")}

Symmetry == Permutations(Threads) \cup Permutations(Tokens)
=============================================================================
