---------------------------- MODULE FixedWindow ----------------------------
(***************************************************************************)
(* What a fixed-window limiter promises: a window opens with the first     *)
(* request after the last one closed, admits Budget requests, and closes   *)
(* Window ticks later; a request is refused only inside a window whose     *)
(* budget is spent.  There is no table, no stale entry and no cleanup.     *)
(***************************************************************************)
EXTENDS Naturals

CONSTANTS Keys, Budget, Window

VARIABLES
  used,     \* requests admitted in the running window, 0 when none runs
  elapsed,  \* age of the running window
  allowed   \* the last answer

vars == <<used, elapsed, allowed>>

Init ==
  /\ used = [k \in Keys |-> 0]
  /\ elapsed = [k \in Keys |-> 0]
  /\ allowed = [k \in Keys |-> TRUE]

Answer(k, yes) == allowed' = [allowed EXCEPT ![k] = yes]

(* A window of length zero is over as soon as it opens. *)
OpenWindow(k) ==
  /\ used[k] = 0
  /\ used' = [used EXCEPT ![k] = IF Window = 0 THEN 0 ELSE 1]
  /\ Answer(k, TRUE)
  /\ UNCHANGED elapsed

Spend(k) ==
  /\ used[k] > 0 /\ used[k] < Budget
  /\ used' = [used EXCEPT ![k] = used[k] + 1]
  /\ Answer(k, TRUE)
  /\ UNCHANGED elapsed

Refuse(k) ==
  /\ used[k] >= Budget
  /\ Answer(k, FALSE)
  /\ UNCHANGED <<used, elapsed>>

Running(k) == used[k] > 0
Closing(k) == Running(k) /\ elapsed[k] + 1 = Window

Tick ==
  /\ used' = [k \in Keys |-> IF Closing(k) THEN 0 ELSE used[k]]
  /\ elapsed' = [k \in Keys |->
       IF Running(k) /\ ~Closing(k) THEN elapsed[k] + 1 ELSE 0]
  /\ UNCHANGED allowed

Next == Tick \/ \E k \in Keys : OpenWindow(k) \/ Spend(k) \/ Refuse(k)

Spec == Init /\ [][Next]_vars
=============================================================================
