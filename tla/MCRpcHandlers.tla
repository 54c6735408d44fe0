--------------------------- MODULE MCRpcHandlers ---------------------------
(***************************************************************************)
(* Three requests, each of any method, route and form, against a limiter   *)
(* with a budget of two and a window of one tick.                          *)
(***************************************************************************)
EXTENDS RpcHandlers, TLC

Symmetry == Permutations(Requests)
=============================================================================
