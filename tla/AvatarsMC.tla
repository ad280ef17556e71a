------------------------------ MODULE AvatarsMC ------------------------------
(* The instance of Avatars TLC checks.                                     *)
EXTENDS Avatars, TLC

Symmetry == UNION {Permutations(S) : S \in {Requests, Calls, Files, Users}}
=============================================================================
