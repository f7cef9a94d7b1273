---------------------------- MODULE MCCommitGap ----------------------------
EXTENDS CommitGap, TLC

\* An accepted form, the same form with a changed note, a form whose content
\* the server refuses, a decline, and an answer under the wrong key.
MCResumes == {Sole(KEY, "accept", "yes"), Sole(KEY, "accept", "yes_changed"),
              Sole(KEY, "accept", "no"), Sole(KEY, "decline", "none"),
              Sole("other", "accept", "yes")}

\* One answer that accepts the form and one that does not.
MCYesOrNo == {Sole(KEY, "accept", "yes"), Sole(KEY, "accept", "no")}

Symmetry == Permutations(Threads) \cup Permutations(Tokens)
=============================================================================
