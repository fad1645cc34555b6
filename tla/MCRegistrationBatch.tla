------------------------- MODULE MCRegistrationBatch -------------------------
EXTENDS RegistrationBatch, TLC
=============================================================================
