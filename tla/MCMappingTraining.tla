-------------------------- MODULE MCMappingTraining --------------------------
(***************************************************************************)
(* MappingTraining for TLC: two profiles, definitions that match the same  *)
(* evidence and belong to different packs.                                 *)
(***************************************************************************)
EXTENDS MappingTraining

CONSTANTS p, q, m

MCPackKeys == {{p}, {p, q}}
MCDefinitions == {[match |-> m, profiles |-> k] : k \in MCPackKeys}
=============================================================================
