------------------------- MODULE RateLimiterProofs --------------------------
(***************************************************************************)
(* What the bucket lets through, for every width, capacity, rate and       *)
(* amount: the bound on what leaves in a window, that a new rate takes     *)
(* nothing back, and how an overflow ends.                                 *)
(***************************************************************************)
EXTENDS RateLimiter, TLAPS

(***************************************************************************)
(* The inductive invariant.  Between two refills the tokens that are left  *)
(* and those that were sent share one budget: the capacity, what came in,  *)
(* and what the refills up to last_refill_time granted.  Before the first  *)
(* refill of a window nothing was counted, and what the time before the    *)
(* window grants is cut off at the capacity.                               *)
(***************************************************************************)
Budget ==
  Limited =>
    /\ limiter.tokens <= limiter.capacity
    /\ limiter.last_refill_time <= now
    /\ IF windowStart <= limiter.last_refill_time
         THEN limiter.tokens + sent <=
                limiter.capacity + received
                  + 2 * ((limiter.last_refill_time - windowStart)
                           * limiter.refill_per_second)
         ELSE sent = 0 /\ received = 0

IInv == TypeOK /\ windowStart <= now /\ Budget

-----------------------------------------------------------------------------
LEMMA ProductType == ASSUME NEW x \in Nat, NEW r \in Nat PROVE x * r \in Nat
  OBVIOUS

LEMMA Distribute ==
  ASSUME NEW x \in Nat, NEW y \in Nat, NEW r \in Nat
  PROVE  (x + y) * r = x * r + y * r
  OBVIOUS

\* What a refill does to the four fields.
LEMMA RefilledFields ==
  ASSUME now \in Nat, NEW r \in Limiter, NEW a \in U64
  PROVE  LET new == Refilled(r, a)
         IN  /\ new \in Limiter
             /\ new.capacity = r.capacity
             /\ new.refill_per_second = r.refill_per_second
             /\ new.last_refill_time = now
             /\ new.tokens <= new.capacity
             /\ new.tokens <= r.tokens + a + Earned(r)
             /\ Earned(r) = 2 * (Elapsed(r) * r.refill_per_second)
             /\ Elapsed(r) \in Nat
             /\ r.last_refill_time <= now => Elapsed(r) = now - r.last_refill_time
  <1> DEFINE e == Elapsed(r)
  <1>1. /\ MaxU64 \in Nat
        /\ a \in Nat
        /\ r.capacity \in U64 /\ r.tokens \in U64
        /\ r.refill_per_second \in U64 /\ r.last_refill_time \in Nat
    BY WidthAssumption DEF Limiter, U64
  <1>2. /\ e \in Nat
        /\ r.last_refill_time <= now => e = now - r.last_refill_time
    BY <1>1 DEF Elapsed
  <1>3. e * r.refill_per_second \in Nat
    BY <1>1, <1>2, ProductType DEF U64
  <1>4. Earned(r) = 2 * (e * r.refill_per_second) /\ Earned(r) \in Nat
    BY <1>3 DEF Earned
  <1> DEFINE n == r.tokens + a + Earned(r)
  <1>5. n \in Nat
    BY <1>1, <1>4 DEF U64
  <1>6. Capped(r, n) \in U64 /\ Capped(r, n) <= r.capacity /\ Capped(r, n) <= n
    <2> HIDE DEF n
    <2> QED BY <1>1, <1>5 DEF Capped, U64
  <1>7. ASSUME NEW x \in U64
        PROVE  LET new == [r EXCEPT !.tokens = x, !.last_refill_time = now]
               IN  /\ new \in Limiter
                   /\ new.capacity = r.capacity
                   /\ new.tokens = x
                   /\ new.refill_per_second = r.refill_per_second
                   /\ new.last_refill_time = now
    BY DEF Limiter
  <1>8. Refilled(r, a) = [r EXCEPT !.tokens = Capped(r, n), !.last_refill_time = now]
    BY DEF Refilled
  <1> HIDE DEF n
  <1>9. n = r.tokens + a + Earned(r)
    BY DEF n
  <1> QED
    BY <1>2, <1>4, <1>6, <1>7, <1>8, <1>9

\* A refill within a window keeps the budget, with a more received.
LEMMA RefillKeepsBudget ==
  ASSUME IInv, Limited, NEW a \in U64
  PROVE  LET new == Refilled(limiter, a)
         IN  new.tokens + sent <=
               new.capacity + received + a
                 + 2 * ((now - windowStart) * new.refill_per_second)
  <1> DEFINE new  == Refilled(limiter, a)
             rate == limiter.refill_per_second
             last == limiter.last_refill_time
  <1>1. limiter \in Limiter /\ now \in Nat /\ windowStart \in Nat
        /\ sent \in Nat /\ received \in Nat /\ a \in Nat
    BY WidthAssumption DEF IInv, TypeOK, Limited, U64
  <1>2. rate \in Nat /\ last \in Nat /\ limiter.tokens \in Nat
        /\ limiter.capacity \in Nat
    BY <1>1, WidthAssumption DEF Limiter, U64
  <1>3. last <= now /\ windowStart <= now
    BY DEF IInv, Budget
  <1>4. /\ new \in Limiter /\ new.capacity = limiter.capacity
        /\ new.refill_per_second = rate
        /\ new.tokens <= limiter.capacity
        /\ new.tokens <= limiter.tokens + a + 2 * ((now - last) * rate)
    <2>1. Elapsed(limiter) = now - last
      BY <1>1, <1>3, RefilledFields
    <2> QED BY <1>1, <2>1, RefilledFields
  <1>5. new.tokens \in Nat
    BY <1>4, WidthAssumption DEF Limiter, U64
  <1>6. (now - windowStart) * rate \in Nat
    BY <1>1, <1>2, <1>3, ProductType
  <1> HIDE DEF new
  <1>7. ASSUME windowStart <= last
        PROVE  new.tokens + sent <= limiter.capacity + received + a
                          + 2 * ((now - windowStart) * rate)
    <2>1. (now - windowStart) * rate = (now - last) * rate + (last - windowStart) * rate
      <3>1. now - last \in Nat /\ last - windowStart \in Nat
        BY <1>1, <1>2, <1>3, <1>7
      <3>2. (now - last) + (last - windowStart) = now - windowStart
        BY <1>1, <1>2
      <3> QED BY <1>2, <3>1, <3>2, Distribute
    <2>2. limiter.tokens + sent <=
            limiter.capacity + received + 2 * ((last - windowStart) * rate)
      BY <1>7 DEF IInv, Budget
    <2>3. (now - last) * rate \in Nat /\ (last - windowStart) * rate \in Nat
      BY <1>1, <1>2, <1>3, <1>7, ProductType
    <2> HIDE DEF rate, last
    <2> QED BY <1>1, <1>2, <1>4, <1>5, <2>1, <2>2, <2>3
  <1>8. ASSUME ~(windowStart <= last)
        PROVE  new.tokens + sent <= limiter.capacity + received + a
                          + 2 * ((now - windowStart) * rate)
    <2>1. sent = 0 /\ received = 0
      BY <1>8 DEF IInv, Budget
    <2> HIDE DEF rate, last
    <2> QED BY <1>1, <1>2, <1>4, <1>5, <1>6, <2>1
  <1> QED BY <1>4, <1>7, <1>8 DEF new

-----------------------------------------------------------------------------
LEMMA InitIInv == Init => IInv
  BY DEF Init, IInv, TypeOK, Budget, Limited

\* The limiter that set_rate_limit leaves behind.
LEMMA SetRateLimitType ==
  ASSUME TypeOK, Budget, NEW c \in Capacity \cup {NotGiven}, NEW n \in Rate \cup {NotGiven},
         SetRateLimit(c, n)
  PROVE  /\ limiter' \in Limiter
         /\ limiter'.tokens <= limiter'.capacity
         /\ limiter'.last_refill_time <= now
  <1> DEFINE old == IF Limited THEN limiter ELSE DefaultLimiter
             new == IF c = NotGiven THEN old ELSE WithCapacity(old, c)
  <1>1. old \in Limiter /\ old.tokens <= old.capacity /\ old.last_refill_time <= now
    <2>1. CASE Limited
      BY <2>1 DEF TypeOK, Limited, Budget
    <2>2. CASE ~Limited
      BY <2>2, WidthAssumption DEF DefaultLimiter, Limiter, U64, TypeOK
    <2> QED BY <2>1, <2>2
  <1> HIDE DEF old
  <1>2. new \in Limiter /\ new.tokens <= new.capacity /\ new.last_refill_time <= now
    <2>1. CASE c = NotGiven
      BY <1>1, <2>1
    <2>2. CASE c # NotGiven
      <3>1. c \in U64
        BY <2>2, WidthAssumption DEF U64
      <3>2. new = [capacity |-> c, tokens |-> c,
                   refill_per_second |-> old.refill_per_second, last_refill_time |-> now]
        BY <1>1, <2>2 DEF WithCapacity, Limiter
      <3> QED
        BY <1>1, <3>1, <3>2, WidthAssumption DEF Limiter, TypeOK, U64
    <2> QED BY <2>1, <2>2
  <1>3. limiter' = IF n = NotGiven THEN new ELSE WithRate(new, n)
    BY DEF SetRateLimit, old
  <1> HIDE DEF new
  <1>4. CASE n = NotGiven
    BY <1>2, <1>3, <1>4
  <1>5. CASE n # NotGiven
    <2> DEFINE full == Refilled(new, 0)
    <2>1. full \in Limiter /\ full.tokens <= full.capacity /\ full.last_refill_time = now
      <3>1. 0 \in U64
        BY WidthAssumption DEF U64
      <3> QED BY <1>2, <3>1, RefilledFields DEF TypeOK
    <2>2. limiter' = [full EXCEPT !.refill_per_second = n]
      BY <1>3, <1>5 DEF WithRate
    <2>3. n \in U64
      BY <1>5, WidthAssumption DEF U64
    <2> HIDE DEF full
    <2> QED BY <2>1, <2>2, <2>3 DEF Limiter, TypeOK
  <1> QED BY <1>4, <1>5

LEMMA StepIInv == ASSUME IInv, [Next]_vars PROVE IInv'
  <1> USE DEF IInv
  <1>0. /\ now \in Nat /\ windowStart \in Nat /\ sent \in Nat /\ received \in Nat
        /\ windowStart <= now
        /\ limiter \in Limiter \cup {NoLimiter}
    BY DEF TypeOK
  <1>1. CASE Tick
    BY <1>0, <1>1 DEF Tick, TypeOK, Budget, Limited, Limiter
  <1>2. CASE StartWindow
    <2>1. limiter' = limiter /\ now' = now /\ windowStart' = now /\ sent' = 0 /\ received' = 0
      BY <1>2 DEF StartWindow, OpenWindow
    <2>2. TypeOK' /\ windowStart' <= now'
      BY <1>0, <2>1 DEF TypeOK
    <2>3. Budget'
      <3> SUFFICES ASSUME Limited PROVE Budget'
        BY <2>1 DEF Budget, Limited
      <3>1. limiter.tokens <= limiter.capacity /\ limiter.last_refill_time <= now
        BY DEF Budget
      <3>2. CASE now <= limiter.last_refill_time
        <4>1. limiter.last_refill_time = now /\ limiter.refill_per_second \in Nat
              /\ limiter.tokens \in Nat /\ limiter.capacity \in Nat
          BY <1>0, <3>1, <3>2, WidthAssumption DEF Limiter, Limited, U64
        <4>2. (limiter.last_refill_time - now) * limiter.refill_per_second = 0
          BY <1>0, <4>1
        <4> QED BY <2>1, <3>1, <4>1, <4>2 DEF Budget
      <3>3. CASE ~(now <= limiter.last_refill_time)
        BY <2>1, <3>1, <3>3 DEF Budget
      <3> QED BY <3>2, <3>3
    <2> QED BY <2>2, <2>3
  <1>3. ASSUME NEW a \in Amount, Send(a) PROVE IInv'
    <2> DEFINE full == Refilled(limiter, 0)
    <2>1. limiter \in Limiter /\ 0 \in U64 /\ a \in Nat
      BY <1>0, <1>3, WidthAssumption DEF Send, Limited, U64
    <2>2. /\ full \in Limiter /\ full.last_refill_time = now
          /\ full.tokens <= full.capacity
      BY <1>0, <2>1, RefilledFields
    <2>3. full.tokens + sent <= full.capacity + received + 0
                   + 2 * ((now - windowStart) * full.refill_per_second)
      BY <1>3, <2>1, RefillKeepsBudget DEF Send
    <2>4. limiter' = [full EXCEPT !.tokens = @ - a] /\ a <= full.tokens
          /\ sent' = sent + a /\ UNCHANGED <<now, windowStart, received>>
      BY <1>3 DEF Send
    <2> HIDE DEF full
    <2>5. /\ limiter' \in Limiter
          /\ limiter'.tokens = full.tokens - a
          /\ limiter'.capacity = full.capacity
          /\ limiter'.last_refill_time = now
          /\ limiter'.refill_per_second = full.refill_per_second
      BY <2>1, <2>2, <2>4, WidthAssumption DEF Limiter, U64
    <2>6. TypeOK' /\ windowStart' <= now'
      BY <1>0, <2>1, <2>4, <2>5 DEF TypeOK
    <2>7. full.tokens \in Nat /\ full.capacity \in Nat /\ full.refill_per_second \in Nat
      BY <2>2, WidthAssumption DEF Limiter, U64
    <2>8. (now - windowStart) * full.refill_per_second \in Nat
      BY <1>0, <2>7, ProductType
    <2>9. limiter'.tokens <= limiter'.capacity
          /\ limiter'.tokens + sent' <= limiter'.capacity + received'
                + 2 * ((limiter'.last_refill_time - windowStart') * limiter'.refill_per_second)
      BY <1>0, <2>1, <2>2, <2>3, <2>4, <2>5, <2>7, <2>8
    <2> QED BY <1>0, <2>4, <2>5, <2>6, <2>9 DEF Budget
  <1>4. ASSUME NEW a \in Amount, Receive(a) PROVE IInv'
    <2> DEFINE full == Refilled(limiter, a)
    <2>1. limiter \in Limiter /\ a \in U64 /\ a \in Nat
      BY <1>0, <1>4, WidthAssumption DEF Receive, Limited, U64
    <2>2. /\ full \in Limiter /\ full.last_refill_time = now
          /\ full.tokens <= full.capacity
      BY <1>0, <2>1, RefilledFields
    <2>3. full.tokens + sent <= full.capacity + received + a
                   + 2 * ((now - windowStart) * full.refill_per_second)
      BY <1>4, <2>1, RefillKeepsBudget DEF Receive
    <2>4. limiter' = full /\ received' = received + a /\ UNCHANGED <<now, windowStart, sent>>
      BY <1>4 DEF Receive
    <2> HIDE DEF full
    <2>5. TypeOK' /\ windowStart' <= now'
      BY <1>0, <2>1, <2>2, <2>4 DEF TypeOK
    <2>6. full.tokens \in Nat /\ full.capacity \in Nat
      BY <2>2, WidthAssumption DEF Limiter, U64
    <2> QED BY <1>0, <2>1, <2>2, <2>3, <2>4, <2>5, <2>6 DEF Budget
  <1>5. CASE Disable
    BY <1>0, <1>5 DEF Disable, OpenWindow, TypeOK, Budget, Limited
  <1>6. ASSUME NEW c \in Capacity \cup {NotGiven}, NEW n \in Rate \cup {NotGiven},
               SetRateLimit(c, n)
        PROVE  IInv'
    <2>1. /\ limiter' \in Limiter
          /\ limiter'.tokens <= limiter'.capacity
          /\ limiter'.last_refill_time <= now
      BY <1>6, SetRateLimitType
    <2>2. now' = now /\ windowStart' = now /\ sent' = 0 /\ received' = 0
      BY <1>6 DEF SetRateLimit, OpenWindow
    <2>3. TypeOK' /\ windowStart' <= now'
      BY <1>0, <2>1, <2>2 DEF TypeOK
    <2>4. CASE now <= limiter'.last_refill_time
      <3>1. limiter'.last_refill_time = now /\ limiter'.refill_per_second \in Nat
            /\ limiter'.tokens \in Nat /\ limiter'.capacity \in Nat
        BY <1>0, <2>1, <2>4, WidthAssumption DEF Limiter, U64
      <3>2. (limiter'.last_refill_time - now) * limiter'.refill_per_second = 0
        BY <1>0, <3>1
      <3> QED BY <2>1, <2>2, <2>3, <3>1, <3>2 DEF Budget
    <2>5. CASE ~(now <= limiter'.last_refill_time)
      BY <2>1, <2>2, <2>3, <2>5 DEF Budget
    <2> QED BY <2>4, <2>5
  <1>7. CASE UNCHANGED vars
    BY <1>7 DEF vars, TypeOK, Budget, Limited
  <1> QED BY <1>1, <1>2, <1>3, <1>4, <1>5, <1>6, <1>7 DEF Next

\* The budget implies the bound on every window.
LEMMA BudgetBounds == IInv => WindowBound
  <1> SUFFICES ASSUME IInv, Limited
               PROVE  sent <= limiter.capacity + received
                        + 2 * ((now - windowStart) * limiter.refill_per_second)
    BY DEF WindowBound
  <1> DEFINE rate == limiter.refill_per_second
             last == limiter.last_refill_time
  <1>1. limiter \in Limiter /\ now \in Nat /\ windowStart \in Nat
        /\ sent \in Nat /\ received \in Nat
    BY DEF IInv, TypeOK, Limited
  <1>2. rate \in Nat /\ last \in Nat /\ limiter.tokens \in Nat /\ limiter.capacity \in Nat
    BY <1>1, WidthAssumption DEF Limiter, U64
  <1>3. last <= now /\ windowStart <= now
    BY DEF IInv, Budget
  <1>4. (now - windowStart) * rate \in Nat
    BY <1>1, <1>2, <1>3, ProductType
  <1>5. CASE windowStart <= last
    <2>1. (now - windowStart) * rate = (now - last) * rate + (last - windowStart) * rate
      <3>1. now - last \in Nat /\ last - windowStart \in Nat
        BY <1>1, <1>2, <1>3, <1>5
      <3>2. (now - last) + (last - windowStart) = now - windowStart
        BY <1>1, <1>2
      <3> QED BY <1>2, <3>1, <3>2, Distribute
    <2>2. limiter.tokens + sent <=
            limiter.capacity + received + 2 * ((last - windowStart) * rate)
      BY <1>5 DEF IInv, Budget
    <2>3. (now - last) * rate \in Nat /\ (last - windowStart) * rate \in Nat
      BY <1>1, <1>2, <1>3, <1>5, ProductType
    <2> HIDE DEF rate, last
    <2>4. sent <= limiter.capacity + received + 2 * ((now - windowStart) * rate)
      BY <1>1, <1>2, <2>1, <2>2, <2>3
    <2> QED BY <2>4 DEF rate
  <1>6. CASE ~(windowStart <= last)
    <2>1. sent = 0 /\ received = 0
      BY <1>6 DEF IInv, Budget
    <2> QED BY <1>2, <1>4, <2>1
  <1> QED BY <1>5, <1>6

LEMMA Invariance == Spec => []IInv
  <1>1. Init => IInv
    BY InitIInv
  <1>2. IInv /\ [Next]_vars => IInv'
    BY StepIInv
  <1> QED BY <1>1, <1>2, PTL DEF Spec

(***************************************************************************)
(* Types, for every width: no subtraction of try_consume underflows.       *)
(***************************************************************************)
THEOREM TypeCorrect == Spec => []TypeOK
  <1>1. IInv => TypeOK
    BY DEF IInv
  <1> QED BY <1>1, Invariance, PTL

(***************************************************************************)
(* From any moment on, no more leaves than the capacity, the refill and    *)
(* what came in (peer.rs, refill and try_consume), whatever the width of   *)
(* the integers and whichever amounts and settings are used.               *)
(***************************************************************************)
THEOREM WindowBounded == Spec => []WindowBound
  <1>1. IInv => WindowBound
    BY BudgetBounds
  <1> QED BY <1>1, Invariance, PTL

-----------------------------------------------------------------------------
(***************************************************************************)
(* A new rate leaves what can be sent at this moment as it is, for any     *)
(* rates and any time since the last refill.                               *)
(***************************************************************************)
THEOREM RateChangeKeepsAvailable == Spec => RateNotRetroactive
  <1>1. ASSUME IInv, NEW n \in Rate, Limited, SetRateLimit(NotGiven, n)
        PROVE  Available' = Available
    <2> DEFINE full == Refilled(limiter, 0)
    <2>1. limiter \in Limiter /\ now \in Nat /\ 0 \in U64 /\ n \in Nat /\ n # NotGiven
      BY <1>1, WidthAssumption DEF IInv, TypeOK, Limited, U64
    <2>2. /\ full \in Limiter
          /\ full.capacity = limiter.capacity
          /\ full.last_refill_time = now
          /\ full.tokens <= full.capacity
          /\ Elapsed(limiter) \in Nat
          /\ Earned(limiter) = 2 * (Elapsed(limiter) * limiter.refill_per_second)
      BY <2>1, RefilledFields
    <2>3. limiter' = [full EXCEPT !.refill_per_second = n] /\ now' = now
      BY <1>1, <2>1 DEF SetRateLimit, WithRate
    <2>4. full.tokens = Available
      <3>1. limiter.refill_per_second \in Nat /\ limiter.tokens \in Nat
        BY <2>1, WidthAssumption DEF Limiter, U64
      <3>2. Earned(limiter) \in Nat
        BY <2>2, <3>1, ProductType
      <3>3. limiter.tokens + 0 + Earned(limiter) = limiter.tokens + Earned(limiter)
        BY <3>1, <3>2
      <3>4. full.tokens = Capped(limiter, limiter.tokens + 0 + Earned(limiter))
        BY <2>1 DEF Refilled, Limiter
      <3> QED BY <3>3, <3>4 DEF Available
    <2> HIDE DEF full
    <2>5. /\ limiter'.tokens = full.tokens /\ limiter'.capacity = full.capacity
          /\ limiter'.last_refill_time = now' /\ limiter'.refill_per_second = n
      BY <2>2, <2>3 DEF Limiter
    <2>6. Elapsed(limiter)' = 0
      BY <2>1, <2>3, <2>5 DEF Elapsed
    <2>7. Earned(limiter)' = 0
      BY <2>1, <2>5, <2>6 DEF Earned
    <2>8. full.tokens \in Nat /\ full.capacity \in Nat
      BY <2>2, WidthAssumption DEF Limiter, U64
    <2>9. Available' = full.tokens
      BY <2>2, <2>5, <2>7, <2>8 DEF Available, Capped
    <2> QED BY <2>4, <2>9
  <1>2. ASSUME IInv, [Next]_vars PROVE [NewRateKeepsAvailable]_vars
    BY <1>1, <1>2 DEF NewRateKeepsAvailable
  <1> QED BY <1>2, Invariance, PTL DEF Spec, RateNotRetroactive

(***************************************************************************)
(* A refill that does not fit its u64 stops the peer for good: time only   *)
(* makes it grow, and only a capacity or no limiter at all ends it.        *)
(***************************************************************************)
THEOREM OverflowIsFinal == Spec => OverflowNeedsReset
  <1>1. ASSUME IInv, [Next]_vars, Overflowing
        PROVE  \/ Overflowing' /\ limiter' = limiter
               \/ limiter' = NoLimiter
               \/ \E c \in Capacity, n \in Rate \cup {NotGiven} : SetRateLimit(c, n)
    <2> USE <1>1
    <2>1. /\ limiter \in Limiter /\ now \in Nat /\ MaxU64 \in Nat
          /\ limiter.refill_per_second \in Nat /\ limiter.last_refill_time \in Nat
          /\ limiter.last_refill_time <= now
      BY WidthAssumption DEF IInv, TypeOK, Budget, Overflowing, Limited, Limiter, U64
    <2> DEFINE rate == limiter.refill_per_second
               last == limiter.last_refill_time
    <2>2. /\ Earned(limiter) = 2 * ((now - last) * rate)
          /\ (now - last) * rate \in Nat
          /\ Earned(limiter) > MaxU64
      BY <2>1, ProductType DEF Earned, Elapsed, Overflowing
    <2>3. ASSUME NEW a \in Nat PROVE ~ RefillFits(limiter, a)
      BY <2>1, <2>2 DEF RefillFits
    <2>4. ASSUME limiter' = limiter, now' = now
          PROVE  Overflowing' /\ limiter' = limiter
      BY <2>4 DEF Overflowing, Limited, Earned, Elapsed
    <2>5. CASE Tick
      <3>1. now' = now + 1 /\ limiter' = limiter
        BY <2>5 DEF Tick
      <3>2. (now + 1 - last) * rate = (now - last) * rate + 1 * rate
        <4>1. now - last \in Nat /\ now + 1 - last = (now - last) + 1
          BY <2>1
        <4> QED BY <2>1, <4>1, Distribute
      <3>3. Earned(limiter)' = 2 * ((now + 1 - last) * rate)
        <4>1. Elapsed(limiter)' = now + 1 - last
          BY <2>1, <3>1 DEF Elapsed
        <4> QED BY <3>1, <4>1 DEF Earned
      <3> HIDE DEF rate, last
      <3>4. Earned(limiter)' > MaxU64
        <4>1. rate \in Nat
          BY <2>1 DEF rate
        <4> QED BY <2>1, <2>2, <3>2, <3>3, <4>1
      <3> QED BY <3>1, <3>4 DEF Overflowing, Limited
    <2>6. CASE StartWindow
      BY <2>4, <2>6 DEF StartWindow
    <2>7. CASE \E a \in Amount : Send(a)
      BY <2>3, <2>7 DEF Send
    <2>8. CASE \E a \in Amount : Receive(a)
      BY <2>3, <2>8, WidthAssumption DEF Receive
    <2>9. CASE Disable
      BY <2>9 DEF Disable
    <2>10. ASSUME NEW c \in Capacity \cup {NotGiven}, NEW n \in Rate \cup {NotGiven},
                  SetRateLimit(c, n)
           PROVE  \/ Overflowing' /\ limiter' = limiter
                  \/ \E d \in Capacity, m \in Rate \cup {NotGiven} : SetRateLimit(d, m)
      <3>1. CASE c \in Capacity
        BY <2>10, <3>1
      <3>2. CASE c = NotGiven /\ n = NotGiven
        <4>1. limiter' = limiter /\ now' = now
          BY <2>10, <3>2 DEF SetRateLimit, Overflowing
        <4> QED BY <2>4, <4>1
      <3>3. CASE c = NotGiven /\ n # NotGiven
        BY <2>3, <2>10, <3>3 DEF SetRateLimit, Overflowing
      <3> QED BY <3>1, <3>2, <3>3
    <2>11. CASE UNCHANGED vars
      BY <2>4, <2>11 DEF vars
    <2> QED BY <2>5, <2>6, <2>7, <2>8, <2>9, <2>10, <2>11 DEF Next
  <1>2. ASSUME IInv, [Next]_vars PROVE OverflowStays
    BY <1>1, <1>2 DEF OverflowStays
  <1> QED BY <1>2, Invariance, PTL DEF Spec, OverflowNeedsReset

=============================================================================
