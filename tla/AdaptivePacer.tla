---------------------------- MODULE AdaptivePacer ----------------------------
(***************************************************************************)
(* The adaptive token bucket every Drive call goes through (pacer.py), as  *)
(* the threads of the process share it: DriveClient._exec acquires a token *)
(* before each attempt and reports successes and throttles back.           *)
(*                                                                         *)
(* Time is counted in ticks and tokens in units, Token of them per         *)
(* request; a rate is a whole number of units per tick, so that halving    *)
(* rounds down.  age is the time since _last: the bucket is refilled only  *)
(* by acquire, never when the rate changes.  A thread that sleeps has a    *)
(* nap; it wakes when the nap is over or later.                            *)
(*                                                                         *)
(* ceiling, allowance, embargo and overtaken are history variables: two    *)
(* reference buckets that every request is charged to and that never wait, *)
(* what Drive asked the program to wait, and who had passed the check.     *)
(***************************************************************************)
EXTENDS Integers, FiniteSets

CONSTANTS
  Threads,       \* the threads that call Drive
  Token,         \* units per request
  Second,        \* ticks in a second: the burst is one second's worth of tokens
  MaxRate,       \* max_rate, the ceiling of --max-tps
  MinRate,       \* min_rate, 1 request per second in make_pacer
  RecoverStep,   \* recover_step
  RecoverAfter,  \* recover_after
  RetryAfters,   \* the Retry-After values of Drive, in ticks; 0 stands for none
  AgeCap         \* age is not counted further: the bucket is full by then

Smaller(a, b) == IF a < b THEN a ELSE b
Larger(a, b)  == IF a > b THEN a ELSE b
Capacity(r)   == Larger(Token, r * Second)

ASSUME RateAssumption ==
  /\ Token \in Nat \ {0} /\ Second \in Nat \ {0}
  /\ MaxRate \in Nat \ {0} /\ MinRate \in Nat \ {0}
  /\ RecoverStep \in Nat \ {0} /\ RecoverAfter \in Nat \ {0}
ASSUME RetryAssumption == RetryAfters \subseteq Nat
ASSUME AgeAssumption ==
  /\ AgeCap \in Nat
  /\ \A r \in {MinRate, MaxRate} : AgeCap * r >= Capacity(MaxRate)

VARIABLES
  rate, tokens, age,    \* self.rate, self._tokens, time since self._last
  successes,            \* self._successes
  cooldown,             \* ticks until self._cooldown_until
  stage,                \* where each thread is in _exec
  nap,                  \* ticks each thread still sleeps
  ceiling,              \* level of a bucket fixed at MaxRate
  allowance,            \* level of a bucket at the present rate, full when it changed
  embargo,              \* ticks until the latest time Drive asked to wait for
  overtaken             \* threads past the cooldown check when the embargo began

bucket  == <<rate, tokens, age>>
threads == <<stage, nap>>
ledger  == <<ceiling, allowance>>
window  == <<embargo, overtaken>>
vars    == <<bucket, successes, cooldown, threads, ledger, window>>

Awake(t, s)     == stage[t] = s /\ nap[t] = 0
Enter(t, s)     == stage' = [stage EXCEPT ![t] = s] /\ nap' = nap
SleepFor(t, n)  == nap' = [nap EXCEPT ![t] = n] /\ stage' = stage
Ceil(a, b)      == (a + b - 1) \div b

Init ==
  /\ rate = MaxRate /\ tokens = Capacity(MaxRate) /\ age = 0
  /\ successes = 0 /\ cooldown = 0
  /\ stage = [t \in Threads |-> "out"] /\ nap = [t \in Threads |-> 0]
  /\ ceiling = Capacity(MaxRate) /\ allowance = Capacity(MaxRate)
  /\ embargo = 0 /\ overtaken = {}

-----------------------------------------------------------------------------
(* acquire *)

\* A thread is about to make an attempt, its first or a retry.
Arrive(t) ==
  /\ Awake(t, "out")
  /\ Enter(t, "cooldown")
  /\ UNCHANGED <<bucket, successes, cooldown, ledger, window>>

\* A bug: the cooldown is not looked at again after the sleep.
CheckCooldownBug(t) ==
  /\ Awake(t, "cooldown")
  /\ nap' = [nap EXCEPT ![t] = cooldown]
  /\ stage' = [stage EXCEPT ![t] = "bucket"]
  /\ UNCHANGED <<bucket, successes, cooldown, ledger, window>>

\* While the cooldown lasts, sleep until its end as it is now and look again.
CheckCooldown(t) ==
  /\ Awake(t, "cooldown")
  /\ IF cooldown > 0 THEN SleepFor(t, cooldown) ELSE Enter(t, "bucket")
  /\ UNCHANGED <<bucket, successes, cooldown, ledger, window>>

\* A bug: the refill is not capped.
RefilledBug == tokens + age * rate

\* _refill_locked
Refilled == IF age = 0 THEN tokens
            ELSE Smaller(Capacity(rate), tokens + age * rate)

\* Bugs: _last is not moved, so that time is credited twice, or it is moved and
\* the tokens are not kept, so that it is not credited at all.
WaitForTokenTwiceBug(t) ==
  /\ tokens' = Refilled /\ age' = age
  /\ SleepFor(t, Ceil(Token - Refilled, rate))
WaitForTokenLostBug(t) ==
  /\ tokens' = tokens /\ age' = 0
  /\ SleepFor(t, Ceil(Token - Refilled, rate))

\* Too few tokens: keep what has come in and sleep for the deficit.
WaitForToken(t) ==
  /\ tokens' = Refilled /\ age' = 0
  /\ SleepFor(t, Ceil(Token - Refilled, rate))

\* The request is charged to both reference buckets.
Charge(t) ==
  /\ ceiling' = ceiling - Token
  /\ allowance' = allowance - Token
  /\ overtaken' = overtaken \ {t}
  /\ UNCHANGED embargo

TakeToken(t) ==
  /\ Awake(t, "bucket")
  /\ IF Refilled >= Token
     THEN tokens' = Refilled - Token /\ age' = 0 /\ Enter(t, "sent") /\ Charge(t)
     ELSE WaitForToken(t) /\ UNCHANGED <<ledger, window>>
  /\ UNCHANGED <<rate, successes, cooldown>>

-----------------------------------------------------------------------------
(* What _exec reports of an attempt *)

Rate(r) ==
  /\ rate' = r
  /\ allowance' = IF r = rate THEN allowance ELSE Capacity(r)
  /\ UNCHANGED ceiling

\* A bug: a step that would pass the ceiling is not taken.
RaisedBug == IF rate + RecoverStep <= MaxRate THEN rate + RecoverStep ELSE rate

Raised == Smaller(MaxRate, rate + RecoverStep)

\* record_success
RecordSuccess ==
  \/ /\ rate >= MaxRate
     /\ successes' = 0
     /\ UNCHANGED <<rate, ledger>>
  \/ /\ rate < MaxRate /\ successes + 1 < RecoverAfter
     /\ successes' = successes + 1
     /\ UNCHANGED <<rate, ledger>>
  \/ /\ rate < MaxRate /\ successes + 1 >= RecoverAfter
     /\ successes' = 0
     /\ Rate(Raised)

\* A bug: the tokens saved up at the higher rate are kept.
ClippedBug(r) == tokens

Clipped(r) == Smaller(tokens, Capacity(r))

\* record_throttle; delay is 0 when there was no Retry-After.
RecordThrottle(delay) ==
  /\ successes' = 0
  /\ Rate(Larger(MinRate, rate \div 2))
  /\ tokens' = Clipped(rate')
  /\ cooldown' = Larger(cooldown, delay)

Succeed(t) ==
  /\ Awake(t, "sent")
  /\ RecordSuccess
  /\ Enter(t, "out")
  /\ UNCHANGED <<tokens, age, cooldown, window>>

Throttle(t, delay) ==
  /\ Awake(t, "sent")
  /\ RecordThrottle(delay)
  /\ Enter(t, "out")
  /\ embargo' = Larger(embargo, delay)
  /\ overtaken' = IF embargo = 0 /\ delay > 0
                  THEN {u \in Threads : stage[u] = "bucket"}
                  ELSE overtaken
  /\ UNCHANGED age

\* Any other failure, and the throttle that exhausts the retries, reports nothing.
Fail(t) ==
  /\ Awake(t, "sent")
  /\ Enter(t, "out")
  /\ UNCHANGED <<bucket, successes, cooldown, ledger, window>>

Reply(t) == Succeed(t) \/ Fail(t) \/ \E delay \in RetryAfters : Throttle(t, delay)

-----------------------------------------------------------------------------
\* The reference buckets fill as time passes, whoever sleeps.
Tick ==
  /\ age' = Smaller(AgeCap, age + 1)
  /\ cooldown' = Larger(0, cooldown - 1)
  /\ nap' = [t \in Threads |-> Larger(0, nap[t] - 1)]
  /\ ceiling' = Smaller(Capacity(MaxRate), ceiling + MaxRate)
  /\ allowance' = Smaller(Capacity(rate), allowance + rate)
  /\ embargo' = Larger(0, embargo - 1)
  /\ UNCHANGED <<rate, tokens, successes, stage, overtaken>>

Acquire(t) == CheckCooldown(t) \/ TakeToken(t)
Next == Tick \/ \E t \in Threads : Arrive(t) \/ Acquire(t) \/ Reply(t)
Spec == Init /\ [][Next]_vars

\* Time passes, a thread that may run does, and Drive answers.  Nobody has to
\* make another call.
FairSpec == Spec /\ WF_vars(Tick)
                 /\ \A t \in Threads : WF_vars(Acquire(t)) /\ WF_vars(Reply(t))

-----------------------------------------------------------------------------
(* Properties *)

TypeOK ==
  /\ rate \in 1..Larger(MaxRate, MinRate)
  /\ tokens \in 0..Capacity(rate)
  /\ age \in 0..AgeCap
  /\ successes \in 0..(RecoverAfter - 1)
  /\ cooldown \in Nat /\ embargo \in Nat
  /\ stage \in [Threads -> {"out", "cooldown", "bucket", "sent"}]
  /\ nap \in [Threads -> Nat]
  /\ ceiling \in Int /\ allowance \in Int
  /\ overtaken \subseteq Threads

\* --max-tps is a ceiling whatever the pacer learns: over every interval, all
\* threads together make no more requests than a bucket fixed at that rate would
\* let through, although each change of rate reprices the time not yet credited
\* (pacer.py:49, 129, 145).
CeilingHolds == ceiling >= 0

\* A lowered rate takes effect at once: from one change of the rate to the next
\* the requests of all threads fit a bucket of the present rate, whatever had
\* been saved up at the rate before (pacer.py:86, 130-132).
RateHolds == allowance >= 0

\* t has its token and makes its request.
Sends(t) == stage[t] = "bucket" /\ stage'[t] = "sent"

\* The cooldown is global: during it only threads that were already waiting for a
\* token when it began make a request, each of them one, and a thread that slept
\* through the first window looks again if another throttle made it longer
\* (pacer.py:114-122, 133-135).
CooldownHolds == [][\A t \in Threads : Sends(t) /\ embargo > 0 => t \in overtaken]_vars

\* Requests never stop while threads want to make one: the sleeping threads do
\* not keep each other from ever finding a token (pacer.py:61-70).
RequestsFlow ==
  \/ []<>(\A t \in Threads : stage[t] \notin {"cooldown", "bucket"})
  \/ []<><<\E t \in Threads : Sends(t)>>_vars

\* Once Drive stops throttling, enough successes bring the ceiling rate back for
\* good, failures in between or not (pacer.py:137-147).
RateRecovers ==
  /\ []<><<\E t \in Threads : Succeed(t)>>_vars
  /\ <>[][~\E t \in Threads, delay \in RetryAfters : Throttle(t, delay)]_vars
  => <>[](rate = MaxRate)
==============================================================================
