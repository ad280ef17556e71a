----------------------------- MODULE AccountsMC -----------------------------
(* The instance of Accounts TLC checks.                                    *)
EXTENDS AccountsRefinement, TLC

RequestSymmetry ==
    UNION {Permutations(S) : S \in {Requests, Codes, Emails, Names, Passwords}}
=============================================================================
