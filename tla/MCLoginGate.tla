----------------------------- MODULE MCLoginGate -----------------------------
EXTENDS LoginGate, TLC

Symmetry == Permutations(Attempts) \cup Permutations(Ips)
=============================================================================
