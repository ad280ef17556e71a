------------------------------- MODULE PostsMC -------------------------------
(* The instances of Posts TLC checks.                                      *)
EXTENDS Posts, TLC

RequestSymmetry ==
    Permutations(Requests) \cup Permutations(Calls) \cup Permutations(Users)
=============================================================================
