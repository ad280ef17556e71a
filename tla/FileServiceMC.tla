---------------------------- MODULE FileServiceMC ----------------------------
(* The instance of FileService TLC checks.                                 *)
EXTENDS FileService, TLC

CallSymmetry == Permutations(Calls) \cup Permutations(Files)
=============================================================================
