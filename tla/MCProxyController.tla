------------------------- MODULE MCProxyController -------------------------
(***************************************************************************)
(* Two callers at a time (a command of the window and a tray item), three  *)
(* configurations, one of them without an onion endpoint, and one more run *)
(* task than may be alive.                                                 *)
(***************************************************************************)
EXTENDS ProxyController, TLC
=============================================================================
