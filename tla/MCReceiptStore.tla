--------------------------- MODULE MCReceiptStore ---------------------------
EXTENDS ReceiptStore, TLC

\* The key of another form.
OtherKey == "other"

\* An accepted form, the same form with another note, a form without a yes,
\* no answer at all, and an answer under the wrong key.
MCAnswers == {Sole(KEY, "accept", "yes"), Sole(KEY, "accept", "yes_changed"),
              Sole(KEY, "accept", "no"), NoAnswers,
              Sole(OtherKey, "accept", "yes")}

Symmetry == Permutations(Handles) \cup Permutations(Tokens)
=============================================================================
