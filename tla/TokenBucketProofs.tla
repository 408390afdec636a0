-------------------------- MODULE TokenBucketProofs -------------------------
(***************************************************************************)
(* Proofs about module TokenBucket, for every limit and every granularity    *)
(* of time.                                                                  *)
(***************************************************************************)
EXTENDS TokenBucket, TLAPS

USE BucketAssumption DEF Full

(* A full bucket holds at least one token.                                   *)
LEMMA FullHoldsAToken == Full \in Nat /\ Full >= Minute
<1>1. \A r, m \in Nat \ {0} : r * m \in Nat /\ r * m >= m
  OBVIOUS
<1> QED BY <1>1

(* What a refill may make of the bucket.                                     *)
LEMMA RefilledBounds ==
  ASSUME TypeOK
  PROVE  /\ Refilled \in 0..Full
         /\ Refilled = Full \/ Refilled = tokens + (now - last_refill) * rpm
         /\ Refilled <= tokens + (now - last_refill) * rpm
<1>1. (now - last_refill) * rpm \in Nat
  <2>1. now - last_refill \in Nat
    BY DEF TypeOK
  <2>2. \A a, b \in Nat : a * b \in Nat
    OBVIOUS
  <2> QED BY <2>1, <2>2
<1>2. Full \in Nat /\ tokens \in Nat /\ tokens <= Full
  BY FullHoldsAToken DEF TypeOK
<1> HIDE DEF Full
<1> DEFINE credit == (now - last_refill) * rpm
<1> HIDE DEF credit
<1>3. credit \in Nat
  BY <1>1 DEF credit
<1>4. Refilled = IF tokens + credit <= Full THEN tokens + credit ELSE Full
  BY DEF Refilled, credit
<1>5. Refilled \in 0..Full /\ (Refilled = Full \/ Refilled = tokens + credit)
      /\ Refilled <= tokens + credit
  BY <1>2, <1>3, <1>4
<1> QED BY <1>5 DEF credit

(* A grant takes only a token that is there, and crediting stops at the cap, *)
(* so the tokens stay within 0 and Full (daemon.py:71-79).                   *)
LEMMA TypeStep == TypeOK /\ [Next]_vars => TypeOK'
<1> SUFFICES ASSUME TypeOK, [Next]_vars PROVE TypeOK'
  OBVIOUS
<1> USE FullHoldsAToken DEF TypeOK
<1> HIDE DEF Full
<1>1. CASE Tick
  BY <1>1 DEF Tick
<1>2. CASE Grant
  <2>1. Refilled \in 0..Full /\ Refilled >= Minute
    BY <1>2, RefilledBounds DEF Grant
  <2> QED BY <1>2, <2>1 DEF Grant
<1>3. CASE Refuse
  <2>1. Refilled \in 0..Full
    BY RefilledBounds
  <2> QED BY <1>3, <2>1 DEF Refuse
<1>4. CASE Observe
  BY <1>4 DEF Observe
<1>5. CASE UNCHANGED vars
  BY <1>5 DEF vars
<1> QED BY <1>1, <1>2, <1>3, <1>4, <1>5 DEF Next

(* A new bucket is full and owes nothing.                                    *)
LEMMA InitHolds == Init => TypeOK /\ Budget /\ Saved
<1>1. Init => TypeOK
  BY FullHoldsAToken DEF Init, TypeOK
<1> QED BY <1>1 DEF Init, Budget, Saved

(* The bucket never holds more than rpm tokens, nor less than none, and its  *)
(* clock never runs ahead (daemon.py:71-79).                                 *)
THEOREM Typing == Spec => []TypeOK
BY InitHolds, TypeStep, PTL DEF Spec

-----------------------------------------------------------------------------
(* Products over adjoining stretches of time add up.                         *)
LEMMA Stretches ==
  ASSUME NEW a \in Int, NEW b \in Int, NEW c \in Int, NEW r \in Int
  PROVE  (c - a) * r = (b - a) * r + (c - b) * r
OBVIOUS

(* A product with a number that is not negative grows with its other factor. *)
LEMMA Monotone ==
  ASSUME NEW a \in Int, NEW b \in Int, NEW r \in Nat, a <= b
  PROVE  a * r <= b * r
<1>1. (b - a) * r \in Nat
  <2>1. b - a \in Nat
    OBVIOUS
  <2>2. \A x, y \in Nat : x * y \in Nat
    OBVIOUS
  <2> QED BY <2>1, <2>2
<1>2. b * r = a * r + (b - a) * r
  OBVIOUS
<1>3. a * r \in Int /\ b * r \in Int
  OBVIOUS
<1> QED BY <1>1, <1>2, <1>3

(* A call of allow() brings the credit of the observed window up to now.     *)
LEMMA BudgetCredited ==
  ASSUME TypeOK, Budget
  PROVE  count * Minute + Refilled <= Full + (now - since) * rpm
<1> DEFINE spent == count * Minute
           past == (last_refill - since) * rpm
           credit == (now - last_refill) * rpm
           whole == (now - since) * rpm
<1>1. spent \in Nat /\ past \in Int /\ credit \in Int /\ whole \in Nat
  <2>1. \A x, y \in Nat : x * y \in Nat
    OBVIOUS
  <2>2. now - since \in Nat /\ count \in Nat /\ Minute \in Nat /\ rpm \in Nat
    BY DEF TypeOK
  <2>3. last_refill - since \in Int /\ now - last_refill \in Int
    BY DEF TypeOK
  <2>4. \A x, y \in Int : x * y \in Int
    OBVIOUS
  <2> QED BY <2>1, <2>2, <2>3, <2>4
<1>2. whole = past + credit
  BY Stretches DEF TypeOK
<1>3. Refilled \in 0..Full /\ Refilled <= tokens + credit /\ tokens \in 0..Full
  BY RefilledBounds DEF TypeOK
<1>4. CASE last_refill < since
  <2>1. count = 0 /\ spent = 0
    BY <1>4 DEF Budget
  <2> QED BY <2>1, <1>1, <1>3, FullHoldsAToken
<1>5. CASE ~(last_refill < since)
  <2>1. spent + tokens <= Full + past
    <3>1. rpm * (last_refill - since) = past
      BY DEF TypeOK
    <3> QED BY <1>5, <3>1 DEF Budget
  <2>2. spent + Refilled <= Full + whole
    <3> HIDE DEF spent, past, credit, whole, Full
    <3> QED BY <2>1, <1>1, <1>2, <1>3, FullHoldsAToken
  <2> QED BY <2>2
<1> QED BY <1>4, <1>5

(* Every step keeps the budget: a grant moves one token from the bucket to   *)
(* the count, a refusal credits no more than the time that has passed.       *)
LEMMA BudgetStep == TypeOK /\ TypeOK' /\ Budget /\ [Next]_vars => Budget'
<1> SUFFICES ASSUME TypeOK, TypeOK', Budget, [Next]_vars PROVE Budget'
  OBVIOUS
<1>1. CASE Tick
  BY <1>1 DEF Tick, Budget
<1>2. CASE Grant
  <2> DEFINE whole == (now - since) * rpm
             spent == count * Minute
  <2>1. spent + Refilled <= Full + whole
    BY BudgetCredited
  <2>2. count' * Minute = spent + Minute
    BY <1>2 DEF Grant, TypeOK
  <2>3. tokens' = Refilled - Minute /\ last_refill' = now /\ since' = since /\ since <= now
    BY <1>2 DEF Grant, TypeOK
  <2>4. rpm * (last_refill' - since') = whole
    BY <2>3 DEF TypeOK
  <2>5. spent \in Nat /\ whole \in Int /\ Refilled \in Nat /\ Full \in Nat
    <3>1. \A x, y \in Nat : x * y \in Nat
      OBVIOUS
    <3>2. now - since \in Nat /\ count \in Nat
      BY DEF TypeOK
    <3> QED BY <3>1, <3>2, RefilledBounds, FullHoldsAToken
  <2>6. count' * Minute + tokens' <= Full + rpm * (last_refill' - since')
    <3> HIDE DEF whole, spent, Full
    <3> QED BY <2>1, <2>2, <2>3, <2>4, <2>5
  <2> QED BY <2>6, <2>3 DEF Budget, TypeOK
<1>3. CASE Refuse
  <2>1. count * Minute + Refilled <= Full + (now - since) * rpm
    BY BudgetCredited
  <2>2. tokens' = Refilled /\ last_refill' = now /\ since' = since /\ count' = count /\ since <= now
    BY <1>3 DEF Refuse, TypeOK
  <2>3. rpm * (last_refill' - since') = (now - since) * rpm
    BY <2>2 DEF TypeOK
  <2> QED BY <2>1, <2>2, <2>3 DEF Budget, TypeOK
<1>4. CASE Observe
  <2>1. since' = now /\ count' = 0 /\ last_refill' = last_refill /\ tokens' = tokens
    BY <1>4 DEF Observe
  <2>2. CASE last_refill < now
    BY <2>1, <2>2 DEF Budget
  <2>3. CASE last_refill = now
    BY <2>1, <2>3 DEF Budget, TypeOK
  <2> QED BY <2>2, <2>3 DEF TypeOK
<1>5. CASE UNCHANGED vars
  BY <1>5 DEF vars, Budget
<1> QED BY <1>1, <1>2, <1>3, <1>4, <1>5 DEF Next

(* The budget bounds the window: the bucket never holds less than nothing,   *)
(* so what was granted is at most what came in.                              *)
LEMMA BudgetBoundsWindow == TypeOK /\ Budget => WindowBound
<1> SUFFICES ASSUME TypeOK, Budget PROVE WindowBound
  OBVIOUS
<1>1. count * Minute + Refilled <= Full + (now - since) * rpm
  BY BudgetCredited
<1>2. rpm * (now - since) = (now - since) * rpm
  BY DEF TypeOK
<1>3. count * Minute \in Nat /\ Refilled \in Nat
  <2>1. \A x, y \in Nat : x * y \in Nat
    OBVIOUS
  <2> QED BY <2>1, RefilledBounds, FullHoldsAToken DEF TypeOK
<1>4. (now - since) * rpm \in Int
  BY DEF TypeOK
<1> QED BY <1>1, <1>2, <1>3, <1>4, FullHoldsAToken DEF WindowBound

(* In any stretch of time a bucket grants at most what a full bucket and the *)
(* refills of that stretch hold, so never more than 2 * rpm in a minute      *)
(* (daemon.py:61-79).                                                        *)
THEOREM GrantsAreBounded == Spec => []WindowBound
<1>1. Init => TypeOK /\ Budget
  BY InitHolds
<1>2. TypeOK /\ Budget /\ [Next]_vars => (TypeOK /\ Budget)'
  BY TypeStep, BudgetStep
<1> QED BY <1>1, <1>2, BudgetBoundsWindow, PTL DEF Spec

-----------------------------------------------------------------------------
(* Until the cap is met, what the bucket could pay is all the time since its *)
(* last grant.                                                               *)
LEMMA SavedCredited ==
  ASSUME TypeOK, Saved
  PROVE  Refilled = Full \/ Refilled >= (now - granted_at) * rpm
<1> DEFINE past == (last_refill - granted_at) * rpm
           credit == (now - last_refill) * rpm
           whole == (now - granted_at) * rpm
<1>1. past \in Int /\ credit \in Nat /\ whole \in Int
  <2>1. \A x, y \in Nat : x * y \in Nat
    OBVIOUS
  <2>2. \A x, y \in Int : x * y \in Int
    OBVIOUS
  <2>3. now - last_refill \in Nat /\ rpm \in Nat
    BY DEF TypeOK
  <2>4. last_refill - granted_at \in Int /\ now - granted_at \in Int
    BY DEF TypeOK
  <2> QED BY <2>1, <2>2, <2>3, <2>4
<1>2. whole = past + credit
  BY Stretches DEF TypeOK
<1>3. Refilled \in 0..Full /\ (Refilled = Full \/ Refilled = tokens + credit) /\ tokens \in 0..Full
      /\ Refilled <= tokens + credit
  BY RefilledBounds DEF TypeOK
<1>4. tokens = Full \/ tokens >= past
  BY DEF Saved
<1>5. tokens = Full => Refilled = Full
  <2> HIDE DEF Full, credit
  <2> QED BY <1>1, <1>3, FullHoldsAToken
<1> HIDE DEF past, credit, whole, Full
<1>6. Refilled = Full \/ Refilled >= whole
  BY <1>1, <1>2, <1>3, <1>4, <1>5, FullHoldsAToken
<1> QED BY <1>6 DEF whole

(* Every step keeps the credit since the last grant: a refusal stores what   *)
(* it has credited (daemon.py:71-79).                                        *)
LEMMA SavedStep == TypeOK /\ TypeOK' /\ Saved /\ [Next]_vars => Saved'
<1> SUFFICES ASSUME TypeOK, TypeOK', Saved, [Next]_vars PROVE Saved'
  OBVIOUS
<1>1. CASE Tick
  BY <1>1 DEF Tick, Saved
<1>2. CASE Grant
  <2>1. (last_refill' - granted_at') * rpm = 0 /\ tokens' \in Nat
    BY <1>2, FullHoldsAToken DEF Grant, TypeOK
  <2> QED BY <2>1 DEF Saved
<1>3. CASE Refuse
  BY <1>3, SavedCredited DEF Refuse, Saved
<1>4. CASE Observe
  BY <1>4 DEF Observe, Saved
<1>5. CASE UNCHANGED vars
  BY <1>5 DEF vars, Saved
<1> QED BY <1>1, <1>2, <1>3, <1>4, <1>5 DEF Next

(* However often it is asked meanwhile, the bucket grants again 60/rpm       *)
(* seconds after its last grant (daemon.py:71-79).                           *)
THEOREM RefusalsAreShort == Spec => RefusedOnlySoonAfterGrant
<1>1. Init => TypeOK /\ Saved
  BY InitHolds
<1>2. TypeOK /\ Saved /\ [Next]_vars => (TypeOK /\ Saved)'
  BY TypeStep, SavedStep
<1>3. TypeOK /\ Saved => (Refuse => (now - granted_at) * rpm < Minute)
  <2> SUFFICES ASSUME TypeOK, Saved, Refuse PROVE (now - granted_at) * rpm < Minute
    OBVIOUS
  <2>1. Refilled < Minute /\ Refilled \in 0..Full
    BY RefilledBounds DEF Refuse
  <2>2. (now - granted_at) * rpm \in Int
    BY DEF TypeOK
  <2>3. Refilled # Full
    BY <2>1, FullHoldsAToken
  <2>4. Refilled >= (now - granted_at) * rpm
    BY <2>3, SavedCredited
  <2> HIDE DEF Full
  <2> QED BY <2>1, <2>2, <2>4, FullHoldsAToken
<1> QED BY <1>1, <1>2, <1>3, PTL DEF Spec, RefusedOnlySoonAfterGrant
=============================================================================
