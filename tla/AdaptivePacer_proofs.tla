------------------------- MODULE AdaptivePacer_proofs -------------------------
(***************************************************************************)
(* Proofs about the adaptive pacer, for any number of threads, any rates   *)
(* and any Retry-After.                                                    *)
(*                                                                         *)
(* A reference bucket stays ahead of the real one: whatever acquire would  *)
(* refill now, the reference already holds.  That is inductive because     *)
(* every change of the rate only reprices time that the reference has      *)
(* already been paid for, at the ceiling (ceiling) or by starting full     *)
(* (allowance).                                                            *)
(***************************************************************************)
EXTENDS AdaptivePacer, TLAPS

-----------------------------------------------------------------------------
(* Arithmetic *)

\* Products of naturals are naturals and grow with their factors.
LEMMA Product ==
  ASSUME NEW a \in Nat, NEW b \in Nat, NEW c \in Nat, a <= b
  PROVE  a * c \in Nat /\ a * c <= b * c /\ c * a <= c * b /\ (a + 1) * c = a * c + c
  OBVIOUS

\* A bucket holds at least one request, and more at a higher rate.
LEMMA CapacityGrows ==
  ASSUME NEW r \in Nat, NEW q \in Nat, r <= q
  PROVE  /\ Capacity(r) \in Nat /\ Capacity(q) \in Nat
         /\ Token <= Capacity(r)
         /\ Capacity(r) <= Capacity(q)
<1>1. r * Second \in Nat /\ q * Second \in Nat /\ r * Second <= q * Second
  BY Product, RateAssumption
<1> QED
  BY <1>1, RateAssumption DEF Capacity, Larger

\* Halving the rate, floored, and raising it stay between 1 and the larger limit.
LEMMA NewRates ==
  ASSUME rate \in 1..Larger(MaxRate, MinRate)
  PROVE  /\ Larger(MinRate, rate \div 2) \in 1..Larger(MaxRate, MinRate)
         /\ Raised \in 1..Larger(MaxRate, MinRate)
         /\ Raised <= MaxRate
         /\ Raised >= rate \/ rate >= MaxRate
<1>1. rate \div 2 \in Int /\ rate \div 2 <= rate
  BY RateAssumption DEF Larger
<1> QED
  BY <1>1, RateAssumption DEF Larger, Raised, Smaller

\* What acquire refills is bounded by the bucket and by the time credited.
LEMMA RefillBound ==
  ASSUME TypeOK
  PROVE  /\ Refilled \in 0..Capacity(rate)
         /\ Refilled <= tokens + age * rate
         /\ age * rate \in Nat
<1>1. rate \in Nat /\ age \in Nat /\ tokens \in Nat
  BY CapacityGrows, RateAssumption, AgeAssumption DEF TypeOK, Larger
<1>2. age * rate \in Nat
  BY <1>1
<1>3. Capacity(rate) \in Nat /\ tokens <= Capacity(rate)
  BY <1>1, CapacityGrows DEF TypeOK
<1> QED
  BY <1>1, <1>2, <1>3 DEF Refilled, Smaller

-----------------------------------------------------------------------------
(* Types *)

LEMMA TypeInit == Init => TypeOK
<1> SUFFICES ASSUME Init PROVE TypeOK
  OBVIOUS
<1>1. Capacity(MaxRate) \in Nat
  BY CapacityGrows, RateAssumption
<1> QED
  BY <1>1, RateAssumption, AgeAssumption DEF Init, TypeOK, Larger

\* Steps that only move a thread to another stage or let it sleep.
LEMMA TypeMove ==
  ASSUME TypeOK, NEW t \in Threads, NEW n \in Nat,
         NEW s \in {"out", "cooldown", "bucket", "sent"}
  PROVE  /\ Enter(t, s) => /\ stage' \in [Threads -> {"out", "cooldown", "bucket", "sent"}]
                           /\ nap' \in [Threads -> Nat]
         /\ SleepFor(t, n) => /\ stage' \in [Threads -> {"out", "cooldown", "bucket", "sent"}]
                              /\ nap' \in [Threads -> Nat]
  BY DEF TypeOK, Enter, SleepFor

\* The wait for the deficit is a number of ticks.
LEMMA WaitIsNat ==
  ASSUME TypeOK, Refilled < Token
  PROVE  Ceil(Token - Refilled, rate) \in Nat
<1>1. Token - Refilled + rate - 1 \in Nat /\ rate \in Nat \ {0}
  BY RefillBound, CapacityGrows, RateAssumption DEF TypeOK, Larger
<1>2. \A a \in Nat, b \in Nat \ {0} : a \div b \in Nat
  OBVIOUS
<1> QED
  BY <1>1, <1>2 DEF Ceil

LEMMA TypeTake ==
  ASSUME TypeOK, NEW t \in Threads, TakeToken(t)
  PROVE  TypeOK'
<1>1. Refilled \in 0..Capacity(rate) /\ Capacity(rate) \in Nat /\ Token \in Nat
  BY RefillBound, CapacityGrows, RateAssumption DEF TypeOK, Larger
<1>2. CASE Refilled >= Token
  BY <1>1, <1>2, TypeMove, AgeAssumption DEF TypeOK, TakeToken, Charge
<1>3. CASE ~(Refilled >= Token)
  <2>1. Ceil(Token - Refilled, rate) \in Nat
    BY <1>1, <1>3, WaitIsNat
  <2>2. WaitForToken(t) /\ UNCHANGED <<ledger, window, rate, successes, cooldown>>
    BY <1>3 DEF TakeToken
  <2> QED
    BY <1>1, <2>1, <2>2, TypeMove, AgeAssumption DEF TypeOK, WaitForToken, ledger, window
<1> QED
  BY <1>2, <1>3

LEMMA TypeSucceed ==
  ASSUME TypeOK, NEW t \in Threads, Succeed(t)
  PROVE  TypeOK'
<1>1. /\ stage' \in [Threads -> {"out", "cooldown", "bucket", "sent"}]
      /\ nap' \in [Threads -> Nat]
  BY TypeMove DEF Succeed
<1>2. tokens' = tokens /\ age' = age /\ cooldown' = cooldown /\ UNCHANGED window
  BY DEF Succeed
<1>3. RecordSuccess
  BY DEF Succeed
<1>4. successes' \in 0..(RecoverAfter - 1)
  BY <1>3, RateAssumption DEF RecordSuccess, TypeOK
<1>5. CASE UNCHANGED <<rate, ledger>>
  BY <1>1, <1>2, <1>4, <1>5 DEF TypeOK, ledger, window
<1>6. CASE rate < MaxRate /\ Rate(Raised)
  <2>1. rate' \in 1..Larger(MaxRate, MinRate) /\ rate <= rate'
    BY <1>6, NewRates, RateAssumption DEF Rate, TypeOK, Larger
  <2>2. Capacity(rate) <= Capacity(rate') /\ Capacity(rate) \in Nat /\ Capacity(rate') \in Nat
    BY <2>1, CapacityGrows, RateAssumption DEF TypeOK, Larger
  <2>3. tokens' \in 0..Capacity(rate')
    BY <1>2, <2>2 DEF TypeOK
  <2>4. allowance' \in Int /\ ceiling' \in Int
    BY <1>6, <2>2 DEF Rate, TypeOK
  <2> QED
    BY <1>1, <1>2, <1>4, <2>1, <2>3, <2>4 DEF TypeOK, window
<1> QED
  BY <1>3, <1>5, <1>6 DEF RecordSuccess

LEMMA TypeThrottle ==
  ASSUME TypeOK, NEW t \in Threads, NEW delay \in RetryAfters, Throttle(t, delay)
  PROVE  TypeOK'
<1>1. /\ stage' \in [Threads -> {"out", "cooldown", "bucket", "sent"}]
      /\ nap' \in [Threads -> Nat]
  BY TypeMove DEF Throttle
<1>2. rate' \in 1..Larger(MaxRate, MinRate)
  BY NewRates DEF Throttle, RecordThrottle, Rate, TypeOK
<1>3. Capacity(rate') \in Nat /\ Capacity(rate) \in Nat
  BY <1>2, CapacityGrows, RateAssumption DEF TypeOK, Larger
<1>4. tokens' \in 0..Capacity(rate')
  BY <1>3 DEF Throttle, RecordThrottle, Clipped, Smaller, TypeOK
<1>5. cooldown' \in Nat /\ embargo' \in Nat
  BY RetryAssumption DEF Throttle, RecordThrottle, Larger, TypeOK
<1>6. allowance' \in Int /\ ceiling' \in Int
  BY <1>3 DEF Throttle, RecordThrottle, Rate, TypeOK
<1>7. overtaken' \subseteq Threads
  BY DEF Throttle, TypeOK
<1>8. successes' \in 0..(RecoverAfter - 1) /\ age' \in 0..AgeCap
  BY RateAssumption DEF Throttle, RecordThrottle, TypeOK
<1> QED
  BY <1>1, <1>2, <1>4, <1>5, <1>6, <1>7, <1>8 DEF TypeOK

LEMMA TypeTick ==
  ASSUME TypeOK, Tick
  PROVE  TypeOK'
<1>1. Capacity(rate) \in Nat /\ Capacity(MaxRate) \in Nat
  BY CapacityGrows, RateAssumption DEF TypeOK, Larger
<1>2. age' \in 0..AgeCap /\ cooldown' \in Nat /\ embargo' \in Nat
  BY AgeAssumption DEF Tick, TypeOK, Smaller, Larger
<1>3. nap' \in [Threads -> Nat]
  BY DEF Tick, TypeOK, Larger
<1>4. ceiling' \in Int /\ allowance' \in Int
  BY <1>1, RateAssumption DEF Tick, TypeOK, Smaller, Larger
<1> QED
  BY <1>1, <1>2, <1>3, <1>4 DEF Tick, TypeOK

\* Threads that arrive, look at the cooldown or fail change only where they are.
LEMMA TypeOther ==
  ASSUME TypeOK, NEW t \in Threads, Arrive(t) \/ CheckCooldown(t) \/ Fail(t)
  PROVE  TypeOK'
<1>1. /\ stage' \in [Threads -> {"out", "cooldown", "bucket", "sent"}]
      /\ nap' \in [Threads -> Nat]
  BY TypeMove DEF Arrive, CheckCooldown, Fail, TypeOK
<1> QED
  BY <1>1 DEF Arrive, CheckCooldown, Fail, TypeOK, bucket, ledger, window

LEMMA TypeStep == TypeOK /\ [Next]_vars => TypeOK'
<1> SUFFICES ASSUME TypeOK, [Next]_vars PROVE TypeOK'
  OBVIOUS
<1>1. CASE UNCHANGED vars
  BY <1>1 DEF TypeOK, vars, bucket, threads, ledger, window
<1>2. CASE Next
  BY <1>2, TypeTick, TypeOther, TypeTake, TypeSucceed, TypeThrottle DEF Next, Acquire, Reply
<1> QED
  BY <1>1, <1>2

\* The state stays in its types whatever Drive answers: the rate never leaves its
\* limits, tokens never exceed the burst of the present rate.
THEOREM PacerTypeCorrect == Spec => []TypeOK
<1> QED
  BY TypeInit, TypeStep, PTL DEF Spec

-----------------------------------------------------------------------------
(* The reference buckets *)

\* A bucket of rate r at this level holds what acquire would refill at rate r.
Ahead(level, r) ==
  /\ Smaller(Capacity(r), tokens + age * r) <= level
  /\ level <= Capacity(r)

\* Being ahead is enough: a level that is ahead is never negative.
LEMMA AheadHolds ==
  ASSUME TypeOK, NEW r \in Nat, NEW level \in Int, Ahead(level, r)
  PROVE  level >= 0
<1>1. age * r \in Nat /\ tokens \in Nat /\ Capacity(r) \in Nat
  BY CapacityGrows, RateAssumption, AgeAssumption DEF TypeOK, Larger
<1> QED
  BY <1>1 DEF Ahead, Smaller

\* acquire at a rate not above the reference's: the reference is still ahead of
\* what is left, after the request was charged to both or to neither.
LEMMA AheadTake ==
  ASSUME TypeOK, NEW t \in Threads, TakeToken(t),
         NEW r \in Nat, rate <= r, NEW level \in Int, Ahead(level, r)
  PROVE  /\ Smaller(Capacity(r), Refilled) <= level
         /\ Refilled >= Token => Smaller(Capacity(r), Refilled - Token + age' * r) <= level - Token
         /\ ~(Refilled >= Token) => Smaller(Capacity(r), Refilled + age' * r) <= level
<1>1. /\ rate \in Nat /\ age \in Nat /\ tokens \in Nat /\ Token \in Nat
      /\ Capacity(rate) \in Nat /\ Capacity(r) \in Nat /\ Capacity(rate) <= Capacity(r)
  BY CapacityGrows, RateAssumption, AgeAssumption DEF TypeOK, Larger
<1>2. age * rate <= age * r /\ age * rate \in Nat /\ age * r \in Nat
  BY <1>1, Product
<1>3. Refilled \in 0..Capacity(rate) /\ Refilled <= tokens + age * rate
  BY RefillBound
<1>4. Refilled <= level
  BY <1>1, <1>2, <1>3 DEF Ahead, Smaller
<1>5. age' * r = 0
  <2>1. age' = 0
    BY DEF TakeToken, WaitForToken
  <2> QED
    BY <2>1
<1> QED
  BY <1>1, <1>3, <1>4, <1>5 DEF Smaller

\* A tick adds the reference's rate to both sides, up to its capacity.
LEMMA AheadTick ==
  ASSUME TypeOK, Tick, NEW r \in Nat, NEW level \in Int, Ahead(level, r)
  PROVE  /\ Smaller(Capacity(r), tokens' + age' * r) <= Smaller(Capacity(r), level + r)
         /\ Smaller(Capacity(r), level + r) <= Capacity(r)
<1>1. age \in Nat /\ tokens \in Nat /\ Capacity(r) \in Nat /\ tokens' = tokens
  BY CapacityGrows, RateAssumption, AgeAssumption DEF TypeOK, Tick, Larger
<1>2. age * r \in Nat /\ (age + 1) * r = age * r + r
  BY <1>1, Product
<1>3. age' = age \/ age' = age + 1
  BY <1>1, AgeAssumption DEF Tick, Smaller, TypeOK
<1>4. age' * r <= age * r + r /\ age' * r \in Nat
  BY <1>2, <1>3
<1> QED
  BY <1>1, <1>2, <1>4 DEF Ahead, Smaller

\* The inductive invariant: both references are ahead of the bucket, and the rate
\* is never above the ceiling.
CeilingInv == rate <= MaxRate /\ Ahead(ceiling, MaxRate)
RateInv    == Ahead(allowance, rate)

LEMMA LedgerInit == Init => CeilingInv /\ RateInv
<1> SUFFICES ASSUME Init PROVE CeilingInv /\ RateInv
  OBVIOUS
<1>1. Capacity(MaxRate) \in Nat /\ age * MaxRate = 0
  BY CapacityGrows, RateAssumption DEF Init
<1> QED
  BY <1>1, RateAssumption DEF Init, CeilingInv, RateInv, Ahead, Smaller

\* Steps that leave the bucket and the ledger alone.
LEMMA LedgerOther ==
  ASSUME TypeOK, UNCHANGED <<bucket, ledger>>
  PROVE  /\ CeilingInv => CeilingInv'
         /\ RateInv => RateInv'
  BY DEF CeilingInv, RateInv, Ahead, bucket, ledger

LEMMA CeilingTake ==
  ASSUME TypeOK, CeilingInv, NEW t \in Threads, TakeToken(t)
  PROVE  CeilingInv'
<1>1. MaxRate \in Nat /\ ceiling \in Int /\ rate <= MaxRate /\ Ahead(ceiling, MaxRate)
  BY RateAssumption DEF CeilingInv, TypeOK
<1>2. rate' = rate
  BY DEF TakeToken
<1>3. ceiling <= Capacity(MaxRate) /\ Capacity(MaxRate) \in Nat /\ Token \in Nat
  BY <1>1, CapacityGrows, RateAssumption DEF Ahead
<1>4. CASE Refilled >= Token
  <2>1. tokens' = Refilled - Token /\ ceiling' = ceiling - Token
    BY <1>4 DEF TakeToken, Charge
  <2>2. Smaller(Capacity(MaxRate), tokens' + age' * MaxRate) <= ceiling'
    BY <1>1, <1>4, <2>1, AheadTake
  <2> QED
    BY <1>1, <1>2, <1>3, <2>1, <2>2 DEF CeilingInv, Ahead
<1>5. CASE ~(Refilled >= Token)
  <2>1. tokens' = Refilled /\ ceiling' = ceiling
    BY <1>5 DEF TakeToken, WaitForToken, ledger
  <2>2. Smaller(Capacity(MaxRate), tokens' + age' * MaxRate) <= ceiling'
    BY <1>1, <1>5, <2>1, AheadTake
  <2> QED
    BY <1>1, <1>2, <1>3, <2>1, <2>2 DEF CeilingInv, Ahead
<1> QED
  BY <1>4, <1>5

LEMMA RateTake ==
  ASSUME TypeOK, RateInv, NEW t \in Threads, TakeToken(t)
  PROVE  RateInv'
<1>1. rate \in Nat /\ allowance \in Int /\ Ahead(allowance, rate)
  BY RateAssumption DEF RateInv, TypeOK, Larger
<1>2. rate' = rate /\ rate <= rate
  BY <1>1 DEF TakeToken
<1>3. allowance <= Capacity(rate) /\ Capacity(rate) \in Nat /\ Token \in Nat
  BY <1>1, CapacityGrows, RateAssumption DEF Ahead
<1>4. CASE Refilled >= Token
  <2>1. tokens' = Refilled - Token /\ allowance' = allowance - Token
    BY <1>4 DEF TakeToken, Charge
  <2>2. Smaller(Capacity(rate), tokens' + age' * rate) <= allowance'
    BY <1>1, <1>2, <1>4, <2>1, AheadTake
  <2> QED
    BY <1>1, <1>2, <1>3, <2>1, <2>2 DEF RateInv, Ahead
<1>5. CASE ~(Refilled >= Token)
  <2>1. tokens' = Refilled /\ allowance' = allowance
    BY <1>5 DEF TakeToken, WaitForToken, ledger
  <2>2. Smaller(Capacity(rate), tokens' + age' * rate) <= allowance'
    BY <1>1, <1>2, <1>5, <2>1, AheadTake
  <2> QED
    BY <1>1, <1>2, <1>3, <2>1, <2>2 DEF RateInv, Ahead
<1> QED
  BY <1>4, <1>5

\* A new rate within the ceiling leaves the ceiling's bucket alone.
LEMMA CeilingRate ==
  ASSUME TypeOK, CeilingInv, NEW r \in 1..MaxRate, Rate(r), age' = age,
         tokens' \in Nat, tokens' <= tokens
  PROVE  CeilingInv'
<1>1. ceiling' = ceiling /\ rate' = r /\ ceiling \in Int /\ MaxRate \in Nat
  BY RateAssumption DEF Rate, TypeOK
<1>2. age * MaxRate \in Nat /\ tokens \in Nat /\ Capacity(MaxRate) \in Nat
  BY CapacityGrows, RateAssumption, AgeAssumption DEF TypeOK, Larger
<1> QED
  BY <1>1, <1>2 DEF CeilingInv, Ahead, Smaller

\* A new rate starts its bucket full; the same rate goes on with the level it had.
LEMMA RateRate ==
  ASSUME TypeOK, RateInv, NEW r \in Nat, Rate(r), age' = age,
         tokens' \in Nat, tokens' <= tokens
  PROVE  RateInv'
<1>1. /\ rate' = r /\ Capacity(r) \in Nat /\ age * r \in Nat /\ tokens \in Nat
      /\ allowance \in Int
  BY CapacityGrows, RateAssumption, AgeAssumption DEF Rate, TypeOK, Larger
<1>2. CASE r = rate
  <2>1. allowance' = allowance
    BY <1>2 DEF Rate
  <2> QED
    BY <1>1, <1>2, <2>1 DEF RateInv, Ahead, Smaller
<1>3. CASE r # rate
  <2>1. allowance' = Capacity(r)
    BY <1>3 DEF Rate
  <2> QED
    BY <1>1, <2>1 DEF RateInv, Ahead, Smaller
<1> QED
  BY <1>2, <1>3

\* Both changes of the rate: record_success raises it, record_throttle lowers it
\* and takes tokens away.
LEMMA LedgerSucceed ==
  ASSUME TypeOK, NEW t \in Threads, Succeed(t)
  PROVE  /\ CeilingInv => CeilingInv'
         /\ RateInv => RateInv'
<1>1. tokens' = tokens /\ age' = age /\ tokens \in Nat
  BY CapacityGrows, RateAssumption DEF Succeed, TypeOK, Larger
<1>2. CASE UNCHANGED <<rate, ledger>>
  BY <1>1, <1>2, LedgerOther DEF bucket
<1>3. CASE rate < MaxRate /\ Rate(Raised)
  <2>1. Raised \in 1..MaxRate /\ Raised \in Nat
    BY NewRates, RateAssumption DEF TypeOK, Larger
  <2> QED
    BY <1>1, <1>3, <2>1, CeilingRate, RateRate
<1> QED
  BY <1>2, <1>3 DEF Succeed, RecordSuccess

LEMMA LedgerThrottle ==
  ASSUME TypeOK, NEW t \in Threads, NEW delay \in RetryAfters, Throttle(t, delay)
  PROVE  /\ MinRate <= MaxRate /\ CeilingInv => CeilingInv'
         /\ RateInv => RateInv'
<1> DEFINE r == Larger(MinRate, rate \div 2)
<1>1. Rate(r) /\ age' = age /\ rate' = r
  BY DEF Throttle, RecordThrottle, Rate
<1>2. r \in Nat /\ (MinRate <= MaxRate => r \in 1..MaxRate)
  BY NewRates, RateAssumption DEF TypeOK, Larger
<1>3. tokens' \in Nat /\ tokens' <= tokens
  <2>1. Capacity(r) \in Nat /\ Capacity(rate) \in Nat
    BY <1>2, CapacityGrows, RateAssumption DEF TypeOK, Larger
  <2>2. tokens' = Clipped(r)
    BY <1>1 DEF Throttle, RecordThrottle
  <2> QED
    BY <2>1, <2>2 DEF Clipped, Smaller, TypeOK
<1> HIDE DEF r
<1>4. RateInv => RateInv'
  BY <1>1, <1>2, <1>3, RateRate
<1>5. MinRate <= MaxRate /\ CeilingInv => CeilingInv'
  BY <1>1, <1>2, <1>3, CeilingRate
<1> QED
  BY <1>4, <1>5

LEMMA LedgerTick ==
  ASSUME TypeOK, Tick
  PROVE  /\ CeilingInv => CeilingInv'
         /\ RateInv => RateInv'
<1>1. rate \in Nat /\ MaxRate \in Nat /\ ceiling \in Int /\ allowance \in Int /\ rate' = rate
  BY RateAssumption DEF TypeOK, Tick, Larger
<1>2. /\ ceiling' = Smaller(Capacity(MaxRate), ceiling + MaxRate)
      /\ allowance' = Smaller(Capacity(rate), allowance + rate)
  BY DEF Tick
<1>3. ASSUME CeilingInv PROVE CeilingInv'
  BY <1>1, <1>2, <1>3, AheadTick DEF CeilingInv, Ahead
<1>4. ASSUME RateInv PROVE RateInv'
  BY <1>1, <1>2, <1>4, AheadTick DEF RateInv, Ahead
<1> QED
  BY <1>3, <1>4

LEMMA LedgerStep ==
  ASSUME TypeOK, [Next]_vars
  PROVE  /\ MinRate <= MaxRate /\ CeilingInv => CeilingInv'
         /\ RateInv => RateInv'
<1>1. CASE UNCHANGED vars
  BY <1>1, LedgerOther DEF vars
<1>2. CASE Tick
  BY <1>2, LedgerTick
<1>3. ASSUME NEW t \in Threads, Arrive(t) \/ CheckCooldown(t) \/ Fail(t)
      PROVE  UNCHANGED <<bucket, ledger>>
  BY <1>3 DEF Arrive, CheckCooldown, Fail
<1>4. ASSUME NEW t \in Threads, TakeToken(t)
      PROVE  (CeilingInv => CeilingInv') /\ (RateInv => RateInv')
  BY <1>4, CeilingTake, RateTake
<1> QED
  BY <1>1, <1>2, <1>3, <1>4, LedgerOther, LedgerSucceed, LedgerThrottle
     DEF Next, Acquire, Reply

\* All threads together never make more requests than a bucket fixed at the
\* ceiling rate lets through, if the floor of the rate is not above the ceiling.
THEOREM CeilingTheorem ==
  ASSUME MinRate <= MaxRate
  PROVE  Spec => []CeilingHolds
<1>1. TypeOK /\ CeilingInv => CeilingHolds
  BY AheadHolds, RateAssumption DEF CeilingInv, CeilingHolds, TypeOK
<1>2. TypeOK /\ CeilingInv /\ [Next]_vars => CeilingInv'
  BY LedgerStep
<1> QED
  BY <1>1, <1>2, LedgerInit, PacerTypeCorrect, PTL DEF Spec

\* Between two changes of the rate the requests fit a bucket of the present rate,
\* whatever the rates are.
THEOREM RateTheorem == Spec => []RateHolds
<1>1. TypeOK /\ RateInv => RateHolds
  BY AheadHolds, RateAssumption DEF RateInv, RateHolds, TypeOK, Larger
<1>2. TypeOK /\ RateInv /\ [Next]_vars => RateInv'
  BY LedgerStep
<1> QED
  BY <1>1, <1>2, LedgerInit, PacerTypeCorrect, PTL DEF Spec

-----------------------------------------------------------------------------
(* The cooldown *)

\* The pacer knows what Drive asked for, and in a cooldown whoever waits for a
\* token was already past the check when it began.
CooldownInv ==
  /\ cooldown = embargo
  /\ embargo > 0 => \A t \in Threads : stage[t] = "bucket" => t \in overtaken

LEMMA CooldownStep == TypeOK /\ CooldownInv /\ [Next]_vars => CooldownInv'
<1> SUFFICES ASSUME TypeOK, CooldownInv, [Next]_vars PROVE CooldownInv'
  OBVIOUS
<1>1. CASE UNCHANGED vars
  BY <1>1 DEF CooldownInv, vars, threads, window
<1>2. CASE Tick
  <2>1. embargo' > 0 => embargo > 0
    BY <1>2 DEF Tick, TypeOK, Larger
  <2> QED
    BY <1>2, <2>1 DEF Tick, CooldownInv
<1>3. ASSUME NEW t \in Threads, Arrive(t) \/ Fail(t) \/ Succeed(t)
      PROVE  CooldownInv'
  <2>1. /\ UNCHANGED <<cooldown, window>>
        /\ \A u \in Threads : stage'[u] = "bucket" => stage[u] = "bucket"
    BY <1>3 DEF Arrive, Fail, Succeed, Enter, TypeOK
  <2> QED
    BY <2>1 DEF CooldownInv, window
<1>4. ASSUME NEW t \in Threads, CheckCooldown(t) PROVE CooldownInv'
  <2>1. UNCHANGED <<cooldown, window>> /\ cooldown = embargo
    BY <1>4 DEF CheckCooldown, CooldownInv
  <2>2. CASE cooldown > 0
    BY <1>4, <2>1, <2>2 DEF CheckCooldown, SleepFor, CooldownInv, window
  <2>3. CASE ~(cooldown > 0)
    BY <2>1, <2>3 DEF CooldownInv, window
  <2> QED
    BY <2>2, <2>3
<1>5. ASSUME NEW t \in Threads, TakeToken(t) PROVE CooldownInv'
  <2>1. CASE Refilled >= Token
    <3>1. /\ UNCHANGED <<cooldown, embargo>> /\ overtaken' = overtaken \ {t}
          /\ stage' = [stage EXCEPT ![t] = "sent"]
      BY <1>5, <2>1 DEF TakeToken, Charge, Enter
    <3> QED
      BY <3>1 DEF CooldownInv, TypeOK
  <2>2. CASE ~(Refilled >= Token)
    BY <1>5, <2>2 DEF TakeToken, WaitForToken, SleepFor, CooldownInv, window
  <2> QED
    BY <2>1, <2>2
<1>6. ASSUME NEW t \in Threads, NEW delay \in RetryAfters, Throttle(t, delay)
      PROVE  CooldownInv'
  <2>1. cooldown' = embargo'
    BY <1>6 DEF Throttle, RecordThrottle, CooldownInv
  <2>2. stage' = [stage EXCEPT ![t] = "out"]
    BY <1>6 DEF Throttle, Enter
  <2>3. CASE embargo = 0 /\ delay > 0
    BY <1>6, <2>1, <2>2, <2>3 DEF Throttle, CooldownInv, TypeOK
  <2>4. CASE ~(embargo = 0 /\ delay > 0)
    <3>1. embargo' > 0 => embargo > 0
      BY <1>6, <2>4, RetryAssumption DEF Throttle, Larger, TypeOK
    <3> QED
      BY <1>6, <2>1, <2>2, <2>4, <3>1 DEF Throttle, CooldownInv, TypeOK
  <2> QED
    BY <2>3, <2>4
<1> QED
  BY <1>1, <1>2, <1>3, <1>4, <1>5, <1>6 DEF Next, Acquire, Reply

\* In a cooldown only threads that were past the check when it began make a
\* request, one each, however often the cooldown is extended.
THEOREM CooldownTheorem == Spec => CooldownHolds
<1>1. Init => CooldownInv
  BY DEF Init, CooldownInv
<1>2. CooldownInv /\ [Next]_vars
      => [\A t \in Threads : Sends(t) /\ embargo > 0 => t \in overtaken]_vars
  BY DEF CooldownInv, Sends
<1> QED
  BY <1>1, <1>2, CooldownStep, PacerTypeCorrect, PTL DEF Spec, CooldownHolds
==============================================================================
