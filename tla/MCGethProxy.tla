---------------------------- MODULE MCGethProxy ----------------------------
(***************************************************************************)
(* Three concurrent requests on two permits.  One tick is 15 seconds, so   *)
(* that the three 30 s timeouts of the default configuration are 2 ticks.  *)
(***************************************************************************)
EXTENDS GethProxy, TLC

OneRoute == [r \in Requests |-> "rpc"]
Symmetry == Permutations(Requests)
=============================================================================
