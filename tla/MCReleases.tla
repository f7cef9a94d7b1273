----------------------------- MODULE MCReleases -----------------------------
EXTENDS Releases, TLC

\* Nothing but main's head tells runs apart.
Alike == Permutations(Runs)
=============================================================================
