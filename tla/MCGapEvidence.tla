--------------------------- MODULE MCGapEvidence ---------------------------
EXTENDS MCCommitGap, GapEvidence
=============================================================================
