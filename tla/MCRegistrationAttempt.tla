----------------------- MODULE MCRegistrationAttempt -----------------------
EXTENDS RegistrationAttempt, TLC

CONSTANT Profile    \* browser identities of accounts without a proxy

\* Browser registrations without a proxy, one through an exit, and protocol
\* registrations through that exit.
Wants == [proxy : {"direct"}, identity : Profile]
           \cup {[proxy |-> "exit", identity |-> "profile"],
                 [proxy |-> "exit", identity |-> "protocol"]}

Alike == Permutations(Attempt) \cup Permutations(Profile)
=============================================================================
