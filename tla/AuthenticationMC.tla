--------------------------- MODULE AuthenticationMC ---------------------------
(* The instance of Authentication TLC checks: the owner of one e-mail has  *)
(* an account, and the live requests may make one for the other.           *)
EXTENDS Authentication, TLC

CONSTANTS e1, n1, p1, k1, k2, registered, confirmed, recovered,
    LiveRequests

MCOwner ==
    [email |-> e1, name |-> n1, password |-> p1, code |-> k1, recovery |-> k2,
     register |-> registered, confirm |-> confirmed, recover |-> recovered]

Symmetry == Permutations(LiveRequests) \cup Permutations(DeviceIds)
=============================================================================
