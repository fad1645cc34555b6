---------------------------- MODULE MCHealthQueue ----------------------------
EXTENDS HealthQueue

CONSTANTS alice, bob

\* Two checks of one account and one of another.
Checks == {<<alice, "plan">>, <<alice, "deep_liveness">>, <<bob, "plan">>}
=============================================================================
