------------------------------ MODULE Settings ------------------------------
(***************************************************************************)
(* How AppConfig::from_env of src/src/app.rs reads a number: env_u64 takes *)
(* the default for a variable that is not set or not a u64, and a limit of *)
(* requests is then cast to u32, which keeps its low bits.  The widths are *)
(* parameters, so that a model checker meets every case.                   *)
(***************************************************************************)
EXTENDS Naturals

CONSTANTS
  U64Values,  \* how many values a u64 has
  U32Values,  \* how many values a u32 has
  Absent,     \* the variable is not set
  Garbage     \* its text is not a natural number

ASSUME SettingsAssumption ==
  /\ U64Values \in Nat
  /\ U32Values \in 1 .. U64Values
  /\ {Absent, Garbage} \cap Nat = {}

Parses(text) == text \in 0 .. U64Values - 1

EnvU64ZeroUnset(text, default) ==   \* mutant: a zero counts as not set
  IF Parses(text) /\ text # 0 THEN text ELSE default

EnvU64(text, default) == IF Parses(text) THEN text ELSE default

(* RATE_LIMIT_REQUESTS and WRITE_RATE_LIMIT_REQUESTS, as u32. *)
RequestLimit(text, default) == EnvU64(text, default) % U32Values
=============================================================================
