------------------------- MODULE MCConnectionRefresh -------------------------
EXTENDS ConnectionRefresh, TLC

\* Refreshers are interchangeable.
RefresherSymmetry == Permutations(Refreshers)
=============================================================================
