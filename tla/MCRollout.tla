------------------------ MODULE MCRollout ------------------------
(***************************************************************************)
(* RolloutHistory on the configurations of MCConfigs.                      *)
(***************************************************************************)
EXTENDS RolloutHistory, MCConfigs

=============================================================================
