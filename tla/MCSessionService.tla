-------------------------- MODULE MCSessionService --------------------------
EXTENDS SessionService, TLC

\* No definition tells one value from another.
Symmetry == Permutations(Values)
=============================================================================
