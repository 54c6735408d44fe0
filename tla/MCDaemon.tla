------------------------------ MODULE MCDaemon ------------------------------
(***************************************************************************)
(* Two concurrent requests for the one permit of /rpc and a third on the   *)
(* other route.  One tick is 15 seconds, so that the three 30 s timeouts   *)
(* of the default configuration are 2 ticks.                               *)
(***************************************************************************)
EXTENDS TimedDaemon

CONSTANT Flashbots  \* the requests that are sent to the other route

Routed == [r \in Requests |-> IF r \in Flashbots THEN "rpc/flashbots" ELSE "rpc"]
=============================================================================
