----------------------------- MODULE SessionsMC -----------------------------
(* The instance of Sessions TLC checks.                                    *)
EXTENDS SessionsRefinement, TLC

RequestSymmetry == Permutations(Requests) \cup Permutations(DeviceIds)
=============================================================================
