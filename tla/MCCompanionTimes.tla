-------------------------- MODULE MCCompanionTimes --------------------------
(***************************************************************************)
(* The instances of MCCompanionHitl over static data, long enough for a    *)
(* tombstone to be dropped and its request to be decided again.            *)
(***************************************************************************)
EXTENDS CompanionTimes, MCCompanionHitl
=============================================================================
