------------------------- MODULE MCRegistrationLane -------------------------
EXTENDS RegistrationLane, TLC

Symmetry == Permutations(Caller)
=============================================================================
