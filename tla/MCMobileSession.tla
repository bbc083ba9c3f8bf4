--------------------------- MODULE MCMobileSession ---------------------------
EXTENDS MobileSession, TLC

Symmetry == Permutations(Logins)
=============================================================================
