--------------------------- MODULE MCStatusReport ----------------------------
(***************************************************************************)
(* Instances of StatusReport for model checking.                           *)
(***************************************************************************)
EXTENDS StatusReport, TLC

CONSTANTS v1, v2, v3

VersionSymmetry == Permutations(Version)

=============================================================================
