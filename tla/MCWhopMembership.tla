-------------------------- MODULE MCWhopMembership -------------------------
EXTENDS WhopMembership, TLC

CONSTANTS m1, m2, u1, u2, org1, prod, other

\* Two users of one organization.
OneAccount == [m \in {m1, m2} |-> org1]
TwoUsers == (m1 :> u1) @@ (m2 :> u2)
\* One user who subscribes a second time.
OneUser == [m \in {m1, m2} |-> u1]

TwoTypes == {"membership.activated", "membership.deactivated"}
=============================================================================
