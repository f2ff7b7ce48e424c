---------------------- MODULE MCEffectiveStateResolver ----------------------
(***************************************************************************)
(* EffectiveStateResolver for TLC: artifacts, timeouts and hosts are       *)
(* interchangeable.                                                        *)
(***************************************************************************)
EXTENDS EffectiveStateResolver, TLC

Interchangeable ==
  Permutations(Artifacts) \cup Permutations(Timeouts) \cup Permutations(Hosts)
=============================================================================
