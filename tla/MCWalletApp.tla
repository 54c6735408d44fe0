---------------------------- MODULE MCWalletApp ----------------------------
(***************************************************************************)
(* One connection -- connections share nothing but the configuration they  *)
(* were accepted with -- two configurations and two tokens: the discovery   *)
(* server's and a fresh one.  One tick is 15 s.                            *)
(***************************************************************************)
EXTENDS WalletApp, TLC

Symmetry == Permutations(Tokens)
=============================================================================
