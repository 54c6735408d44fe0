--------------------------- MODULE ProxyLifecycle ---------------------------
(***************************************************************************)
(* What a user of the wallet proxy may rely on: it is down, or it serves   *)
(* with one configuration; it comes up only from down, with the latest     *)
(* configuration, and it does not change configuration while it is up.     *)
(***************************************************************************)
CONSTANTS Configs, Down

VARIABLES config, serving

vars == <<config, serving>>

Init == config \in Configs /\ serving = Down

Configure == config' \in Configs /\ UNCHANGED serving
Launch == serving = Down /\ serving' = config /\ UNCHANGED config
Quit == serving # Down /\ serving' = Down /\ UNCHANGED config

Next == Configure \/ Launch \/ Quit

Spec == Init /\ [][Next]_vars
=============================================================================
