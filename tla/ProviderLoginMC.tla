--------------------------- MODULE ProviderLoginMC ---------------------------
(* The instance of ProviderLogin TLC checks.                               *)
EXTENDS ProviderLogin, TLC

Symmetry ==
    UNION {Permutations(S) :
              S \in {Requests, Ids, GoogleIds}}
=============================================================================
