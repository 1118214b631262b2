------------------------- MODULE TokenBucketProofs --------------------------
(* The rate limit for any capacity, rate and length of time.                *)
EXTENDS TokenBucket, TLAPS

USE BucketAssumption DEF BucketAssumption

\* The refill of a longer time is the sum of the refills of its parts.
LEMMA RefillAdds ==
  ASSUME NEW a \in Int, NEW b \in Int
  PROVE  (a + b) * Rate = a * Rate + b * Rate /\ a * Rate \in Int
  OBVIOUS

LEMMA RefillGrows ==
  ASSUME NEW a \in Nat, NEW b \in Nat, a <= b
  PROVE  a * Rate <= b * Rate /\ a * Rate \in Nat
  OBVIOUS

LEMMA FullHoldsToken == Full \in Nat /\ Full >= Unit /\ Full' = Full
<1>1. Full = (Capacity - 1) * Unit + Unit /\ (Capacity - 1) * Unit \in Nat
  BY DEF Full
<1> QED BY <1>1 DEF Full

\* Granted and left together never exceed the burst and the refill up to the
\* last call; before the first call of a stretch nothing was granted in it.
Budget ==
    IF last < since THEN spent = 0
    ELSE spent * Unit + tokens <= Full + (last - since) * Rate

LEMMA InitBucket == Init => TypeOK /\ Budget
<1> SUFFICES ASSUME Init PROVE TypeOK /\ Budget
  OBVIOUS
<1>1. TypeOK
  <2>1. now \in 0..MaxTime /\ last \in 0..now /\ since \in 0..now /\ spent \in Nat
    BY DEF Init
  <2>2. tokens \in 0..Full
    BY FullHoldsToken DEF Init
  <2>3. steady \in BOOLEAN /\ asked \in BOOLEAN /\ refused \in BOOLEAN
    BY DEF Init
  <2> QED BY <2>1, <2>2, <2>3 DEF TypeOK
<1>2. 0 * Unit = 0 /\ (0 - 0) * Rate = 0
  OBVIOUS
<1> QED BY <1>1, <1>2, FullHoldsToken DEF Init, Budget

LEMMA FilledType == ASSUME TypeOK PROVE Filled \in 0..Full /\ Filled <= tokens + Elapsed * Rate
  BY FullHoldsToken, RefillGrows DEF TypeOK, Filled, Elapsed

LEMMA StepTypes == TypeOK /\ [Next]_vars => TypeOK'
<1> SUFFICES ASSUME TypeOK, [Next]_vars PROVE TypeOK'
  OBVIOUS
<1>1. CASE Take
  <2>1. tokens' \in 0..Full
    BY <1>1, FilledType, FullHoldsToken DEF Take, Enough
  <2>2. steady' \in BOOLEAN
    BY <1>1 DEF Take
  <2>3. spent' \in Nat
    BY <1>1 DEF Take, TypeOK
  <2>4. now' \in 0..MaxTime /\ last' \in 0..now' /\ since' \in 0..now'
    BY <1>1 DEF Take, TypeOK
  <2>5. asked' \in BOOLEAN /\ refused' \in BOOLEAN
    BY <1>1 DEF Take
  <2> QED BY <2>1, <2>2, <2>3, <2>4, <2>5, FullHoldsToken DEF TypeOK
<1>2. CASE Tick
  BY <1>2, FullHoldsToken DEF Tick, TypeOK
<1>3. CASE Observe
  BY <1>3, FullHoldsToken DEF Observe, TypeOK
<1>4. CASE UNCHANGED vars
  BY <1>4, FullHoldsToken DEF vars, TypeOK
<1> QED BY <1>1, <1>2, <1>3, <1>4 DEF Next

LEMMA GrantedType == ASSUME TypeOK PROVE spent * Unit \in Nat /\ Filled \in Nat
  BY FilledType, FullHoldsToken DEF TypeOK

LEMMA TakeBudget == ASSUME TypeOK, Budget, Take PROVE Budget'
<1>0. last' = now /\ since' = since /\ since <= now
  BY DEF Take, TypeOK
<1>1. spent' * Unit + tokens' = spent * Unit + Filled
  BY FilledType DEF Take, TypeOK
<1>2. CASE last < since
  <2>1. spent * Unit + Filled <= Full
    BY <1>2, FilledType, FullHoldsToken DEF Budget
  <2>2. (now - since) * Rate \in Nat
    BY RefillGrows DEF TypeOK
  <2>3. spent' * Unit + tokens' <= Full + (now - since) * Rate
    BY <1>1, <2>1, <2>2, FullHoldsToken, GrantedType
  <2> QED BY <1>0, <2>3, FullHoldsToken DEF Budget, TypeOK
<1>3. CASE last >= since
  <2>1. spent * Unit + tokens <= Full + (last - since) * Rate
    BY <1>3 DEF Budget, TypeOK
  <2>2. (now - since) * Rate = (last - since) * Rate + Elapsed * Rate
    BY RefillAdds DEF TypeOK, Elapsed
  <2>3. spent * Unit + Filled <= Full + (now - since) * Rate
    BY <2>1, <2>2, FilledType, RefillAdds, FullHoldsToken DEF TypeOK, Elapsed
  <2> QED BY <1>0, <1>1, <2>3, FullHoldsToken DEF Budget, TypeOK
<1> QED BY <1>2, <1>3 DEF TypeOK

LEMMA StepBudget == TypeOK /\ Budget /\ [Next]_vars => Budget'
<1> SUFFICES ASSUME TypeOK, Budget, [Next]_vars PROVE Budget'
  OBVIOUS
<1>1. CASE Take
  BY <1>1, TakeBudget
<1>2. CASE Tick \/ UNCHANGED vars
  BY <1>2, FullHoldsToken DEF Tick, vars, Budget
<1>3. CASE Observe
  BY <1>3, FullHoldsToken, RefillGrows DEF Observe, Budget, TypeOK
<1> QED BY <1>1, <1>2, <1>3 DEF Next

LEMMA BudgetBounds == TypeOK /\ Budget => RateBounded
<1> SUFFICES ASSUME TypeOK, Budget PROVE RateBounded
  OBVIOUS
<1>1. CASE last < since
  <2>1. (now - since) * Rate \in Nat
    BY RefillGrows DEF TypeOK
  <2> QED BY <1>1, <2>1, FullHoldsToken DEF Budget, RateBounded
<1>2. CASE last >= since
  <2>1. (last - since) * Rate <= (now - since) * Rate
    BY <1>2, RefillGrows DEF TypeOK
  <2>2. (last - since) * Rate \in Int /\ (now - since) * Rate \in Int /\ spent * Unit \in Nat
    BY RefillAdds DEF TypeOK
  <2> QED BY <1>2, <2>1, <2>2, FullHoldsToken DEF Budget, RateBounded, TypeOK
<1> QED BY <1>1, <1>2 DEF TypeOK

\* The bucket is never overdrawn and never above its capacity.
THEOREM BucketTypes == Spec => []TypeOK
<1>1. Init => TypeOK
  BY InitBucket
<1> QED BY <1>1, StepTypes, PTL DEF Spec

\* No connection gets more than a burst and the refill, over any time.
THEOREM BucketBounded == Spec => []RateBounded
<1>1. Spec => [](TypeOK /\ Budget)
  <2>1. TypeOK /\ Budget /\ [Next]_vars => (TypeOK /\ Budget)'
    BY StepTypes, StepBudget
  <2> QED BY <2>1, InitBucket, PTL DEF Spec
<1> QED BY <1>1, BudgetBounds, PTL

\* Nobody has touched the full bucket before the first call.
Steady == SteadyNeverRefused /\ (~ asked => tokens = Full)

LEMMA StepSteady == TypeOK /\ Steady /\ [Next]_vars => Steady'
<1> SUFFICES ASSUME TypeOK, Steady, [Next]_vars PROVE Steady'
  OBVIOUS
<1>1. CASE Take
  <2>1. Elapsed * Rate \in Nat
    BY RefillGrows DEF TypeOK, Elapsed
  <2>2. Elapsed * Rate >= Unit \/ ~ asked => Filled >= Unit
    BY <2>1, FullHoldsToken DEF Filled, TypeOK, Steady
  <2>3. (now - last) * Rate = Elapsed * Rate
    BY DEF Elapsed
  <2> QED BY <1>1, <2>2, <2>3 DEF Take, Enough, Steady, SteadyNeverRefused
<1>2. CASE Tick \/ Observe \/ UNCHANGED vars
  BY <1>2, FullHoldsToken DEF Tick, Observe, vars, Steady, SteadyNeverRefused
<1> QED BY <1>1, <1>2 DEF Next

\* No steady client is ever refused.
THEOREM SteadyServed == Spec => []SteadyNeverRefused
<1>1. Init => TypeOK /\ Steady
  BY InitBucket DEF Init, Steady, SteadyNeverRefused
<1>2. TypeOK /\ Steady /\ [Next]_vars => (TypeOK /\ Steady)'
  BY StepTypes, StepSteady
<1>3. Steady => SteadyNeverRefused
  BY DEF Steady
<1> QED BY <1>1, <1>2, <1>3, PTL DEF Spec
=============================================================================
