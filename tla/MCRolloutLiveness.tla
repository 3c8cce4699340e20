------------------------ MODULE MCRolloutLiveness ------------------------
(***************************************************************************)
(* RolloutLiveness on the configurations of MCConfigs.                     *)
(***************************************************************************)
EXTENDS RolloutLiveness, MCConfigs

=============================================================================
