--------------------------- MODULE MCRateLimiter ---------------------------
(***************************************************************************)
(* Two identifiers, and observations of up to two windows.  With u64 and   *)
(* u32 cut to eight and four values, a budget of 2 is what 2 and 6 become, *)
(* and what the default gives for texts that are no u64.                   *)
(***************************************************************************)
EXTENDS ObservedLimiter

MCTexts == {Absent, Garbage} \cup 0 .. 2 * U64Values
=============================================================================
