------------------------- MODULE RateLimiterProofs -------------------------
(***************************************************************************)
(* For every set of identifiers, every budget and every window length:     *)
(* the limiter with its table and its cleanup implements the ideal         *)
(* fixed-window limiter.  The invariant needed is the type invariant: an   *)
(* entry whose window still runs is younger than the cleanup's cutoff, so  *)
(* what the cleanup removes the ideal limiter has already forgotten.       *)
(*                                                                         *)
(* And for every length of an observation and every width of the numbers:  *)
(* how much an observer sees it let through.                               *)
(***************************************************************************)
EXTENDS ObservedLimiter, TLAPS

LEMMA BudgetFacts ==
  /\ Budget \in Nat \ {0}
  /\ Cutoff \in Nat
  /\ Window <= Cutoff
  BY LimiterAssumption DEF Budget, Cutoff

LEMMA InitType == LimiterInit => LimiterTypeOK
  BY BudgetFacts DEF LimiterInit, LimiterTypeOK

(* The table after a check: only the entry of the identifier changes. *)
LEMMA CheckType ==
  ASSUME LimiterTypeOK, NEW k \in Keys, CheckRateLimit(k)
  PROVE  LimiterTypeOK'
  <1>1. allowed' \in [Keys -> BOOLEAN]
    BY DEF LimiterTypeOK, CheckRateLimit
  <1>2. CASE Exhausted(k) /\ UNCHANGED <<count, windowAge>>
    BY <1>1, <1>2 DEF LimiterTypeOK
  <1>3. CASE InWindow(k) /\ ~Exhausted(k) /\ Entry(k, count[k] + 1, windowAge[k])
    <2>1. count[k] + 1 \in 0..Budget /\ windowAge[k] \in 0..Cutoff
      BY <1>3, BudgetFacts, LimiterAssumption
         DEF LimiterTypeOK, InWindow, Exhausted, Budget
    <2>2. QED
      BY <1>1, <1>3, <2>1 DEF LimiterTypeOK, Entry
  <1>4. CASE ~InWindow(k) /\ Entry(k, 1, 0)
    BY <1>1, <1>4, BudgetFacts DEF LimiterTypeOK, Entry
  <1>5. QED
    BY <1>2, <1>3, <1>4 DEF CheckRateLimit

LEMMA CleanupType ==
  ASSUME LimiterTypeOK, Cleanup
  PROVE  LimiterTypeOK'
  BY BudgetFacts DEF LimiterTypeOK, Cleanup

LEMMA TickType ==
  ASSUME LimiterTypeOK, LimiterTick
  PROVE  LimiterTypeOK'
  <1>1. \A k \in Keys : windowAge[k] < Cutoff => windowAge[k] + 1 \in 0..Cutoff
    BY BudgetFacts DEF LimiterTypeOK
  <1>2. QED
    BY <1>1 DEF LimiterTypeOK, LimiterTick

THEOREM LimiterTypeCorrect == LimiterSpec => []LimiterTypeOK
  <1>1. LimiterTypeOK /\ [LimiterNext]_limiterVars => LimiterTypeOK'
    BY CheckType, CleanupType, TickType
       DEF LimiterNext, LimiterTypeOK, limiterVars
  <1>2. QED
    BY InitType, <1>1, PTL DEF LimiterSpec

-----------------------------------------------------------------------------
(* The refinement mapping, entry by entry. *)

LEMMA MappedState ==
  ASSUME LimiterTypeOK, NEW k \in Keys
  PROVE  /\ used[k] = IF InWindow(k) THEN count[k] ELSE 0
         /\ elapsed[k] = IF InWindow(k) THEN windowAge[k] ELSE 0
         /\ (used[k] > 0) <=> InWindow(k)
         /\ count[k] \in Nat /\ windowAge[k] \in Nat
  BY BudgetFacts DEF used, elapsed, LimiterTypeOK, InWindow, Tracked

LEMMA CheckRefines ==
  ASSUME LimiterTypeOK, NEW k \in Keys, CheckRateLimit(k)
  PROVE  Ideal!OpenWindow(k) \/ Ideal!Spend(k) \/ Ideal!Refuse(k)
  <1> USE DEF Ideal!Answer
  <1>a. allowed' = [allowed EXCEPT ![k] = ~Exhausted(k)]
    BY DEF CheckRateLimit
  <1>1. CASE Exhausted(k) /\ UNCHANGED <<count, windowAge>>
    <2>1. used' = used /\ elapsed' = elapsed
      BY <1>1 DEF used, elapsed, InWindow, Tracked
    <2>2. used[k] >= Budget
      BY <1>1, MappedState, LimiterAssumption
         DEF Exhausted, Budget, InWindow, Tracked
    <2>3. allowed' = [allowed EXCEPT ![k] = FALSE]
      BY <1>a, <1>1
    <2>4. QED
      BY <2>1, <2>2, <2>3 DEF Ideal!Refuse
  <1>2. CASE InWindow(k) /\ ~Exhausted(k) /\ Entry(k, count[k] + 1, windowAge[k])
    <2>1. /\ count' = [count EXCEPT ![k] = count[k] + 1]
          /\ windowAge' = windowAge
      BY <1>2 DEF Entry, LimiterTypeOK
    <2>2. \A q \in Keys : InWindow(q)' <=> InWindow(q)
      BY <2>1, <1>2, MappedState DEF InWindow, Tracked, LimiterTypeOK
    <2>3. used' = [used EXCEPT ![k] = used[k] + 1]
      <3>1. \A q \in Keys : (IF InWindow(q)' THEN count'[q] ELSE 0) =
                            IF q = k THEN used[k] + 1 ELSE used[q]
        BY <1>2, <2>1, <2>2, MappedState DEF LimiterTypeOK
      <3>2. QED
        BY <3>1 DEF used
    <2>4. elapsed' = elapsed
      BY <2>1, <2>2 DEF elapsed
    <2>5. used[k] > 0 /\ used[k] < Budget
      BY <1>2, MappedState, LimiterAssumption DEF Exhausted, Budget
    <2>6. allowed' = [allowed EXCEPT ![k] = TRUE]
      BY <1>a, <1>2
    <2>7. QED
      BY <2>3, <2>4, <2>5, <2>6 DEF Ideal!Spend
  <1>3. CASE ~InWindow(k) /\ Entry(k, 1, 0)
    <2>1. /\ count' = [count EXCEPT ![k] = 1]
          /\ windowAge' = [windowAge EXCEPT ![k] = 0]
      BY <1>3 DEF Entry
    <2>2. \A q \in Keys : InWindow(q)' <=> IF q = k THEN Window # 0 ELSE InWindow(q)
      BY <2>1, LimiterAssumption DEF InWindow, Tracked, LimiterTypeOK
    <2>3. used' = [used EXCEPT ![k] = IF Window = 0 THEN 0 ELSE 1]
      <3>1. \A q \in Keys : (IF InWindow(q)' THEN count'[q] ELSE 0) =
                            IF q = k THEN (IF Window = 0 THEN 0 ELSE 1) ELSE used[q]
        BY <2>1, <2>2, MappedState DEF LimiterTypeOK
      <3>2. QED
        BY <3>1 DEF used
    <2>4. elapsed' = elapsed
      <3>1. \A q \in Keys : (IF InWindow(q)' THEN windowAge'[q] ELSE 0) = elapsed[q]
        BY <1>3, <2>1, <2>2, MappedState DEF LimiterTypeOK
      <3>2. QED
        BY <3>1 DEF elapsed
    <2>5. used[k] = 0
      BY <1>3, MappedState
    <2>6. allowed' = [allowed EXCEPT ![k] = TRUE]
      BY <1>a, <1>3 DEF Exhausted
    <2>7. QED
      BY <2>3, <2>4, <2>5, <2>6 DEF Ideal!OpenWindow
  <1>4. QED
    BY <1>1, <1>2, <1>3 DEF CheckRateLimit

(* What the cleanup removes is no longer in its window. *)
LEMMA CleanupRefines ==
  ASSUME LimiterTypeOK, Cleanup
  PROVE  UNCHANGED Ideal!vars
  <1>1. \A k \in Keys :
          IF Tracked(k) /\ windowAge[k] >= Cutoff
          THEN ~InWindow(k) /\ count'[k] = 0
          ELSE count'[k] = count[k] /\ windowAge'[k] = windowAge[k]
    BY BudgetFacts, LimiterAssumption DEF Cleanup, InWindow, LimiterTypeOK
  <1>2. \A k \in Keys : InWindow(k)' <=> InWindow(k)
    BY <1>1 DEF InWindow, Tracked
  <1>3. \A k \in Keys : InWindow(k) =>
          count'[k] = count[k] /\ windowAge'[k] = windowAge[k]
    BY <1>1
  <1>4. used' = used /\ elapsed' = elapsed
    BY <1>2, <1>3 DEF used, elapsed
  <1>5. QED
    BY <1>4 DEF Cleanup, Ideal!vars

LEMMA TickRefines ==
  ASSUME LimiterTypeOK, LimiterTick
  PROVE  Ideal!Tick
  <1> USE DEF Ideal!Running, Ideal!Closing
  <1>1. \A k \in Keys :
          /\ count'[k] = count[k]
          /\ InWindow(k) => windowAge'[k] = windowAge[k] + 1
          /\ InWindow(k)' <=> InWindow(k) /\ windowAge[k] + 1 # Window
    <2> SUFFICES ASSUME NEW k \in Keys
                 PROVE  /\ count'[k] = count[k]
                        /\ InWindow(k) => windowAge'[k] = windowAge[k] + 1
                        /\ InWindow(k)' <=> InWindow(k) /\ windowAge[k] + 1 # Window
      OBVIOUS
    <2>1. /\ count' = count
          /\ windowAge'[k] = IF Tracked(k) /\ windowAge[k] < Cutoff
                             THEN windowAge[k] + 1 ELSE windowAge[k]
          /\ windowAge[k] \in Nat
      BY BudgetFacts DEF LimiterTick, LimiterTypeOK
    <2>2. QED
      BY <2>1, BudgetFacts, LimiterAssumption DEF InWindow, Tracked
  <1>2. used' = [k \in Keys |-> IF Ideal!Closing(k) THEN 0 ELSE used[k]]
    <2>1. \A k \in Keys : (IF InWindow(k)' THEN count'[k] ELSE 0) =
                          IF Ideal!Closing(k) THEN 0 ELSE used[k]
      BY <1>1, MappedState
    <2>2. QED
      BY <2>1 DEF used
  <1>3. elapsed' = [k \in Keys |-> IF Ideal!Running(k) /\ ~Ideal!Closing(k)
                                   THEN elapsed[k] + 1 ELSE 0]
    <2>1. \A k \in Keys : (IF InWindow(k)' THEN windowAge'[k] ELSE 0) =
                          IF Ideal!Running(k) /\ ~Ideal!Closing(k)
                          THEN elapsed[k] + 1 ELSE 0
      BY <1>1, MappedState
    <2>2. QED
      BY <2>1 DEF elapsed
  <1>4. QED
    BY <1>2, <1>3 DEF LimiterTick, Ideal!Tick

(***************************************************************************)
(* Cleanup, stale entries and saturating ages are invisible: every         *)
(* behaviour of the limiter is one of the ideal fixed-window limiter.      *)
(***************************************************************************)
THEOREM LimiterRefinesFixedWindow == LimiterSpec => ImplementsFixedWindow
  <1>1. LimiterInit => Ideal!Init
    <2> SUFFICES ASSUME LimiterInit PROVE Ideal!Init
      OBVIOUS
    <2>1. ASSUME NEW k \in Keys PROVE ~InWindow(k)
      <3>1. count[k] = 0
        BY DEF LimiterInit
      <3>2. QED
        BY <3>1 DEF InWindow, Tracked
    <2>2. QED
      BY <2>1 DEF LimiterInit, Ideal!Init, used, elapsed
  <1>2. ASSUME LimiterTypeOK, [LimiterNext]_limiterVars
        PROVE  [Ideal!Next]_(Ideal!vars)
    <2>1. CASE LimiterTick
      BY <1>2, <2>1, TickRefines DEF Ideal!Next
    <2>2. CASE Cleanup
      BY <1>2, <2>2, CleanupRefines
    <2>3. ASSUME NEW k \in Keys, CheckRateLimit(k)
          PROVE  Ideal!Next
      BY <1>2, <2>3, CheckRefines DEF Ideal!Next
    <2>4. CASE UNCHANGED limiterVars
      BY <2>4 DEF limiterVars, Ideal!vars, used, elapsed, InWindow, Tracked
    <2>5. QED
      BY <1>2, <2>1, <2>2, <2>3, <2>4 DEF LimiterNext
  <1>3. QED
    BY <1>1, <1>2, LimiterTypeCorrect, PTL
       DEF LimiterSpec, ImplementsFixedWindow, Ideal!Spec

-----------------------------------------------------------------------------
(***************************************************************************)
(* What an observer sees.  An observed window of the limiter that still    *)
(* runs either opened in the present window of the observation, after at   *)
(* most one window for each earlier one and the one the observation began  *)
(* in, or it opened before, and takes the place of one of those.           *)
(***************************************************************************)
Paced(k) ==
  /\ ~InWindow(k) => seen[k] <= Budgets(whole + 1)
  /\ InWindow(k) /\ windowAge[k] <= since => seen[k] <= Budgets(whole + 1) + count[k]
  /\ InWindow(k) /\ windowAge[k] > since => seen[k] <= Budgets(whole) + count[k]

ObservedInv == ObservedTypeOK /\ (Window > 0 => \A k \in Keys : Paced(k))

LEMMA BudgetsFacts ==
  ASSUME NEW n \in Nat
  PROVE  /\ Budgets(n) \in Nat
         /\ Budgets(n + 1) = Budgets(n) + Budget
         /\ Budgets(n) <= Budgets(n + 1)
         /\ n + 1 \in Nat
  <1>1. Budget \in Nat
    BY BudgetFacts
  <1>2. n * Budget \in Nat /\ (n + 1) * Budget = n * Budget + Budget
    BY <1>1
  <1>3. QED
    BY <1>1, <1>2 DEF Budgets

(* The observation of a step that begins it anew. *)
LEMMA BeginPaced ==
  ASSUME LimiterTypeOK', Begin
  PROVE  ObservedInv'
  <1>1. seen' = [k \in Keys |-> 0] /\ whole' = 0 /\ since' = 0
    BY DEF Begin
  <1>2. ObservedTypeOK'
    BY <1>1, ObservedAssumption DEF ObservedTypeOK
  <1>3. ASSUME NEW k \in Keys
        PROVE  Paced(k)'
    <2>1. Budgets(0) \in Nat /\ Budgets(1) \in Nat /\ Budgets(0)' = Budgets(0) /\ Budgets(1)' = Budgets(1)
      BY BudgetsFacts
    <2>2. count'[k] \in Nat
      BY BudgetFacts DEF LimiterTypeOK
    <2>3. QED
      BY <1>1, <2>1, <2>2 DEF Paced
  <1>4. QED
    BY <1>2, <1>3 DEF ObservedInv

(* An identifier whose entry and count of admissions a step leaves alone.  *)
LEMMA UntouchedPaced ==
  ASSUME NEW q \in Keys, Paced(q),
         count'[q] = count[q], windowAge'[q] = windowAge[q], seen'[q] = seen[q],
         UNCHANGED <<whole, since>>
  PROVE  Paced(q)'
  BY DEF Paced, InWindow, Tracked, Budgets

(* A check that admits counts once for the limiter and once here; one that *)
(* opens a window finds the one before it over.                            *)
LEMMA CheckPaced ==
  ASSUME ObservedTypeOK, Window > 0, NEW k \in Keys, ObservedCheck(k),
         NEW q \in Keys, Paced(q)
  PROVE  Paced(q)'
  <1>1. /\ whole' = whole /\ since' = since /\ CheckRateLimit(k)
        /\ whole \in Nat /\ since \in Nat
    BY ObservedAssumption DEF ObservedCheck, ObservedTypeOK
  <1>2. /\ Budgets(whole) \in Nat /\ Budgets(whole + 1) \in Nat
        /\ Budgets(whole)' = Budgets(whole) /\ Budgets(whole + 1)' = Budgets(whole + 1)
    BY <1>1, BudgetsFacts DEF Budgets
  <1>3. /\ count[q] \in Nat /\ windowAge[q] \in Nat /\ seen[q] \in Nat
        /\ DOMAIN count = Keys /\ DOMAIN windowAge = Keys /\ DOMAIN seen = Keys
    BY BudgetFacts DEF ObservedTypeOK, LimiterTypeOK
  <1>4. CASE q # k
    <2>1. count'[q] = count[q] /\ windowAge'[q] = windowAge[q]
      BY <1>1, <1>3, <1>4 DEF CheckRateLimit, Entry
    <2>2. seen'[q] = seen[q]
      BY <1>3, <1>4 DEF ObservedCheck
    <2>3. QED
      BY <1>1, <2>1, <2>2, UntouchedPaced
  <1>5. CASE q = k /\ Exhausted(k)
    <2>1. count'[q] = count[q] /\ windowAge'[q] = windowAge[q] /\ seen'[q] = seen[q]
      BY <1>1, <1>5 DEF CheckRateLimit, Exhausted, ObservedCheck
    <2>2. QED
      BY <1>1, <2>1, UntouchedPaced
  <1>6. CASE q = k /\ InWindow(k) /\ ~Exhausted(k)
    <2>1. /\ count'[q] = count[q] + 1 /\ windowAge'[q] = windowAge[q]
          /\ seen'[q] = seen[q] + 1
      BY <1>1, <1>3, <1>6 DEF CheckRateLimit, Entry, Exhausted, ObservedCheck
    <2>2. InWindow(q)'
      BY <1>3, <1>6, <2>1 DEF InWindow, Tracked
    <2>3. QED
      BY <1>1, <1>2, <1>3, <1>6, <2>1, <2>2 DEF Paced
  <1>7. CASE q = k /\ ~InWindow(k)
    <2>1. count'[q] = 1 /\ windowAge'[q] = 0 /\ seen'[q] = seen[q] + 1
      BY <1>1, <1>3, <1>7 DEF CheckRateLimit, Entry, Exhausted, ObservedCheck
    <2>2. seen[q] <= Budgets(whole + 1)
      BY <1>7 DEF Paced
    <2>3. InWindow(q)'
      BY <2>1 DEF InWindow, Tracked
    <2>4. QED
      BY <1>1, <1>2, <1>3, <2>1, <2>2, <2>3 DEF Paced
  <1>8. QED
    BY <1>4, <1>5, <1>6, <1>7

(* A cleanup takes away only entries whose window is over. *)
LEMMA CleanupPaced ==
  ASSUME ObservedTypeOK, ObservedCleanup, NEW q \in Keys, Paced(q)
  PROVE  Paced(q)'
  <1>1. seen' = seen /\ whole' = whole /\ since' = since /\ Cleanup
    BY DEF ObservedCleanup
  <1>2. CASE Tracked(q) /\ windowAge[q] >= Cutoff
    <2>1. ~InWindow(q) /\ count'[q] = 0
      BY <1>1, <1>2, BudgetFacts, LimiterAssumption
         DEF Cleanup, InWindow, ObservedTypeOK, LimiterTypeOK
    <2>2. ~InWindow(q)'
      BY <2>1 DEF InWindow, Tracked
    <2>3. QED
      BY <1>1, <2>1, <2>2 DEF Paced, Budgets
  <1>3. CASE ~(Tracked(q) /\ windowAge[q] >= Cutoff)
    <2>1. count'[q] = count[q] /\ windowAge'[q] = windowAge[q]
      BY <1>1, <1>3 DEF Cleanup
    <2>2. QED
      BY <1>1, <2>1, UntouchedPaced
  <1>4. QED
    BY <1>2, <1>3

(* Time: the limiter's window and the observation's both grow older, and a *)
(* window that opened in the present one does not end before it.           *)
LEMMA TickPaced ==
  ASSUME ObservedTypeOK, Window > 0, LimiterTick, GoOn \/ NextWindow,
         NEW q \in Keys, Paced(q)
  PROVE  Paced(q)'
  <1>1. /\ count' = count
        /\ windowAge'[q] = IF Tracked(q) /\ windowAge[q] < Cutoff
                           THEN windowAge[q] + 1 ELSE windowAge[q]
        /\ count[q] \in 0..Budget /\ windowAge[q] \in Nat /\ seen[q] \in Nat
        /\ Budget \in Nat /\ Cutoff \in Nat /\ Window <= Cutoff /\ Window \in Nat
        /\ whole \in Nat /\ since \in Nat /\ since < Window
    BY BudgetFacts, LimiterAssumption, ObservedAssumption
       DEF LimiterTick, ObservedTypeOK, LimiterTypeOK
  <1>2. /\ InWindow(q)' <=> InWindow(q) /\ windowAge[q] + 1 < Window
        /\ InWindow(q) => windowAge'[q] = windowAge[q] + 1 /\ windowAge[q] < Window
    BY <1>1 DEF InWindow, Tracked
  <1>3. /\ Budgets(whole) \in Nat /\ Budgets(whole + 1) \in Nat /\ Budgets(whole + 2) \in Nat
        /\ Budgets(whole + 1) = Budgets(whole) + Budget
        /\ Budgets(whole + 2) = Budgets(whole + 1) + Budget
    <2>1. whole + 1 \in Nat /\ (whole + 1) + 1 = whole + 2
      BY <1>1
    <2>2. QED
      BY <1>1, <2>1, BudgetsFacts
  <1>4. CASE GoOn
    <2>1. /\ since' = since + 1 /\ since + 1 < Window /\ whole' = whole /\ seen' = seen
          /\ Budgets(whole)' = Budgets(whole) /\ Budgets(whole + 1)' = Budgets(whole + 1)
      BY <1>4 DEF GoOn, Budgets
    <2>2. QED
      BY <1>1, <1>2, <1>3, <2>1 DEF Paced
  <1>5. CASE NextWindow
    <2>1. /\ since' = 0 /\ since + 1 >= Window /\ whole' = whole + 1 /\ seen' = seen
          /\ Budgets(whole)' = Budgets(whole + 1) /\ Budgets(whole + 1)' = Budgets(whole + 2)
      <3>1. (whole + 1) + 1 = whole + 2
        BY <1>1
      <3>2. QED
        BY <1>5, <3>1 DEF NextWindow, Budgets
    <2>2. QED
      BY <1>1, <1>2, <1>3, <2>1 DEF Paced
  <1>6. QED
    BY <1>4, <1>5

LEMMA ObservedStep == ObservedInv /\ [ObservedNext]_observedVars => ObservedInv'
  <1> SUFFICES ASSUME ObservedInv, [ObservedNext]_observedVars
               PROVE  ObservedInv'
    OBVIOUS
  <1>t. /\ ObservedTypeOK /\ LimiterTypeOK
        /\ Window > 0 => \A q \in Keys : Paced(q)
    BY DEF ObservedInv, ObservedTypeOK
  <1>1. CASE ObservedTick
    <2>1. LimiterTick /\ LimiterTypeOK'
      BY <1>1, <1>t, TickType DEF ObservedTick
    <2>2. CASE GoOn \/ NextWindow
      <3>1. ObservedTypeOK'
        BY <1>t, <2>1, <2>2, ObservedAssumption, LimiterAssumption
           DEF ObservedTypeOK, GoOn, NextWindow
      <3>2. QED
        BY <1>t, <2>1, <2>2, <3>1, TickPaced DEF ObservedInv
    <2>3. CASE Complete
      BY <2>1, <2>3, BeginPaced DEF Complete
    <2>4. QED
      BY <1>1, <2>2, <2>3 DEF ObservedTick
  <1>2. CASE ObservedCleanup
    <2>1. LimiterTypeOK'
      BY <1>2, <1>t, CleanupType DEF ObservedCleanup
    <2>2. ObservedTypeOK'
      BY <1>2, <1>t, <2>1 DEF ObservedTypeOK, ObservedCleanup
    <2>3. QED
      BY <1>2, <1>t, <2>2, CleanupPaced DEF ObservedInv
  <1>3. CASE BeginAnew
    <2>1. LimiterTypeOK'
      BY <1>3, <1>t DEF BeginAnew, LimiterTypeOK, limiterVars
    <2>2. QED
      BY <1>3, <2>1, BeginPaced DEF BeginAnew
  <1>4. ASSUME NEW k \in Keys, ObservedCheck(k)
        PROVE  ObservedInv'
    <2>1. LimiterTypeOK'
      BY <1>4, <1>t, CheckType DEF ObservedCheck
    <2>2. ObservedTypeOK'
      BY <1>4, <1>t, <2>1 DEF ObservedTypeOK, ObservedCheck
    <2>3. QED
      BY <1>4, <1>t, <2>2, CheckPaced DEF ObservedInv
  <1>5. CASE UNCHANGED observedVars
    <2>1. UNCHANGED <<count, windowAge, allowed, seen, whole, since>>
      BY <1>5 DEF observedVars, limiterVars
    <2>2. ObservedTypeOK'
      BY <1>t, <2>1 DEF ObservedTypeOK, LimiterTypeOK
    <2>3. \A q \in Keys : Paced(q) => Paced(q)'
      BY <2>1 DEF Paced, InWindow, Tracked, Budgets
    <2>4. QED
      BY <1>t, <2>2, <2>3 DEF ObservedInv
  <1>6. QED
    BY <1>1, <1>2, <1>3, <1>4, <1>5 DEF ObservedNext

LEMMA ObservedHolds == ObservedSpec => []ObservedInv
  <1>1. ObservedInit => ObservedInv
    <2> SUFFICES ASSUME ObservedInit PROVE ObservedInv
      OBVIOUS
    <2>1. ObservedTypeOK
      BY InitType, ObservedAssumption DEF ObservedInit, ObservedTypeOK
    <2>2. ASSUME NEW k \in Keys PROVE Paced(k)
      <3>1. seen[k] = 0 /\ count[k] = 0 /\ whole = 0
        BY DEF ObservedInit, LimiterInit
      <3>2. Budgets(0 + 1) \in Nat /\ 0 \in Nat
        BY BudgetsFacts
      <3>3. QED
        BY <3>1, <3>2 DEF Paced, InWindow, Tracked
    <2>3. QED
      BY <2>1, <2>2 DEF ObservedInv
  <1>2. QED
    BY <1>1, ObservedStep, PTL DEF ObservedSpec

(* The limiter and its observer keep their types, for every set of         *)
(* identifiers, budget, window and length of the observation.              *)
THEOREM ObservedTypeCorrect == ObservedSpec => []ObservedTypeOK
  <1>1. ObservedInv => ObservedTypeOK
    BY DEF ObservedInv
  <1>2. QED
    BY <1>1, ObservedHolds, PTL

LEMMA PacedBound == ObservedInv => OneBudgetPerWindow
  <1> SUFFICES ASSUME ObservedInv, Window > 0, NEW k \in Keys
               PROVE  seen[k] <= Budgets(whole + 2)
    BY DEF OneBudgetPerWindow
  <1>1. /\ Paced(k) /\ whole \in Nat /\ since \in Nat /\ seen[k] \in Nat
        /\ count[k] \in 0..Budget /\ windowAge[k] \in Nat /\ Budget \in Nat
    BY BudgetFacts, ObservedAssumption DEF ObservedInv, ObservedTypeOK, LimiterTypeOK
  <1>2. /\ Budgets(whole) \in Nat /\ Budgets(whole + 1) \in Nat
        /\ Budgets(whole + 1) = Budgets(whole) + Budget
        /\ Budgets(whole + 2) = Budgets(whole + 1) + Budget
    <2>1. whole + 1 \in Nat /\ (whole + 1) + 1 = whole + 2
      BY <1>1
    <2>2. QED
      BY <1>1, <2>1, BudgetsFacts
  <1>3. QED
    BY <1>1, <1>2 DEF Paced

(***************************************************************************)
(* check_rate_limit with its cleanup lets through at most n + 1 budgets of *)
(* an identifier in any interval of n windows, for every n.                *)
(***************************************************************************)
THEOREM LongRunRate == ObservedSpec => []OneBudgetPerWindow
  BY PacedBound, ObservedHolds, PTL

-----------------------------------------------------------------------------
(* What from_env makes of a number that was written. *)
LEMMA RemainderFacts ==
  ASSUME NEW n \in Nat
  PROVE  /\ n % U32Values \in 0 .. U32Values - 1
         /\ n % U32Values <= n
  BY SettingsAssumption

LEMMA NeverMoreThanWritten ==
  ASSUME NEW text \in Nat
  PROVE  /\ RequestLimit(text, Default) \in Nat
         /\ RequestLimit(text, Default) <= text
  <1>1. CASE Parses(text)
    BY <1>1, RemainderFacts DEF RequestLimit, EnvU64
  <1>2. CASE ~Parses(text)
    <2>1. text >= U64Values
      BY <1>2, SettingsAssumption DEF Parses
    <2>2. RequestLimit(text, Default) = Default % U32Values
      BY <1>2 DEF RequestLimit, EnvU64
    <2>3. QED
      BY <2>1, <2>2, RemainderFacts, SettingsAssumption, ObservedAssumption
  <1>3. QED
    BY <1>1, <1>2

LEMMA ProductMonotone ==
  ASSUME NEW n \in Nat, NEW a \in Nat, NEW b \in Nat, a <= b
  PROVE  n * a <= n * b
  OBVIOUS

(***************************************************************************)
(* Whatever number RATE_LIMIT_REQUESTS was set to, and however it was cut, *)
(* the limiter it configures is no looser than that number.                *)
(***************************************************************************)
THEOREM WrittenLimitKept == ObservedSpec => []NoLooserThanWritten
  <1>1. ObservedInv => NoLooserThanWritten
    <2> SUFFICES ASSUME ObservedInv, NEW text \in Texts \cap Nat, Window > 0,
                        RequestLimit(text, Default) = MaxRequests,
                        NEW k \in Keys
                 PROVE  seen[k] <= (whole + 2) * AtLeastOne(text)
      BY DEF NoLooserThanWritten
    <2>1. /\ seen[k] \in Nat /\ whole + 2 \in Nat
          /\ Budget \in Nat /\ AtLeastOne(text) \in Nat
      BY BudgetFacts, ObservedAssumption DEF ObservedInv, ObservedTypeOK, AtLeastOne
    <2>2. Budget <= AtLeastOne(text)
      <3>1. text \in Nat /\ MaxRequests \in Nat /\ MaxRequests <= text
        BY NeverMoreThanWritten, LimiterAssumption
      <3>2. QED
        BY <3>1 DEF Budget, AtLeastOne
    <2>3. seen[k] <= (whole + 2) * Budget
      BY PacedBound DEF OneBudgetPerWindow, Budgets
    <2>4. /\ (whole + 2) * Budget <= (whole + 2) * AtLeastOne(text)
          /\ (whole + 2) * Budget \in Nat /\ (whole + 2) * AtLeastOne(text) \in Nat
      BY <2>1, <2>2, ProductMonotone
    <2>5. QED
      BY <2>1, <2>3, <2>4
  <1>2. QED
    BY <1>1, ObservedHolds, PTL
=============================================================================
