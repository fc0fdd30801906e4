----------------------------- MODULE DriveClient -----------------------------
(***************************************************************************)
(* Every call to Drive: a slot of the adaptive concurrency controller      *)
(* (concurrency.py) held around the retry loop (retry.py), as              *)
(* DriveClient._run and _exec put them together (drive_client.py).         *)
(*                                                                         *)
(* The kinds of operation have a limiter each and share one condition      *)
(* variable.  A thread in wait() is "asleep"; once notified it takes the   *)
(* lock and looks again ("enter").  Inside call() a thread first waits for *)
(* the pacer, which AdaptivePacer models, and then for Drive's answer.     *)
(*                                                                         *)
(* unheard is a history variable: the threads whose call ended with a      *)
(* throttle that was reported to nobody.                                   *)
(***************************************************************************)
EXTENDS Integers, FiniteSets

CONSTANTS
  Threads,        \* the threads that call Drive
  Ops,            \* the kinds of operation they use, of those below
  CopyWorkers,    \* copy_workers, from --workers
  IncreaseAfter,  \* increase_after (20 in the code)
  MaxAttempts     \* RetryPolicy.max_attempts (6 in the code)

None == "none"
Larger(a, b) == IF a > b THEN a ELSE b
OpKinds == {"copy", "list", "create", "log", "metadata"}

ASSUME ThreadAssumption == IsFiniteSet(Threads)
ASSUME OpAssumption     == Ops \subseteq OpKinds
ASSUME LimitAssumption  == /\ CopyWorkers \in Nat \ {0}
                           /\ IncreaseAfter \in Nat \ {0}
                           /\ MaxAttempts \in Nat \ {0}

\* max_limit of each limiter; min_limit is 1.
MaxLimit == [o \in Ops |->
  CASE o \in {"copy", "metadata"} -> CopyWorkers
    [] o = "list"   -> Larger(2, CopyWorkers)
    [] o = "create" -> Larger(1, CopyWorkers \div 2)
    [] o = "log"    -> 1]

VARIABLES
  limit, inFlight, successes,  \* the limiter of each kind of operation
  stage, op, attempt,          \* of each thread: where it is, on what, which try
  unheard

limiters == <<limit, inFlight, successes>>
calls    == <<stage, op, attempt>>
vars     == <<limiters, calls, unheard>>

Held == {"call", "backoff", "leave"}     \* stages inside the slot
Holders(o) == {t \in Threads : op[t] = o /\ stage[t] \in Held}

Goto(t, s) == stage' = [stage EXCEPT ![t] = s]

\* classify_error over what Drive and the network answer: a 429 or a rate-limit
\* 403, a 5xx, a quota that is used up (whatever the status), anything else.
Errors       == {"rate", "server", "quota", "other"}
Transient(e) == e \in {"rate", "server"}
IsThrottle(e) == e = "rate"

Init ==
  /\ limit = MaxLimit
  /\ inFlight = [o \in Ops |-> 0] /\ successes = [o \in Ops |-> 0]
  /\ stage = [t \in Threads |-> "out"]
  /\ op = [t \in Threads |-> None]
  /\ attempt = [t \in Threads |-> 1]
  /\ unheard = {}

-----------------------------------------------------------------------------
(* The slot *)

\* A thread calls one of the operations.
Begin(t, o) ==
  /\ stage[t] = "out"
  /\ op' = [op EXCEPT ![t] = o]
  /\ Goto(t, "enter")
  /\ UNCHANGED <<limiters, attempt, unheard>>

\* _acquire: one look at the limiter, under the lock.
TakeSlot(t) ==
  /\ stage[t] = "enter" /\ inFlight[op[t]] < limit[op[t]]
  /\ inFlight' = [inFlight EXCEPT ![op[t]] = @ + 1]
  /\ Goto(t, "call")
  /\ UNCHANGED <<limit, successes, op, attempt, unheard>>

Wait(t) ==
  /\ stage[t] = "enter" /\ inFlight[op[t]] >= limit[op[t]]
  /\ Goto(t, "asleep")
  /\ UNCHANGED <<limiters, op, attempt, unheard>>

\* A bug: notify() instead of notify_all(), on a condition all limiters share.
WokenBug(s) ==
  LET asleep == {t \in Threads : s[t] = "asleep"}
  IN  IF asleep = {} THEN s ELSE [s EXCEPT ![CHOOSE t \in asleep : TRUE] = "enter"]

\* notify_all wakes the waiters of every kind of operation.
Woken(s) == [t \in Threads |-> IF s[t] = "asleep" THEN "enter" ELSE s[t]]

\* A bug: a call that was throttled gives no slot back.
GiveBackBug(t) == inFlight' = [inFlight EXCEPT ![op[t]] = @ - (IF t \in unheard THEN 0 ELSE 1)]

GiveBack(t) == inFlight' = [inFlight EXCEPT ![op[t]] = @ - 1]

\* __exit__, whether the call returned or raised.
Leave(t) ==
  /\ stage[t] = "leave"
  /\ GiveBack(t)
  /\ stage' = Woken([stage EXCEPT ![t] = "out"])
  /\ op' = [op EXCEPT ![t] = None]
  /\ attempt' = [attempt EXCEPT ![t] = 1]
  /\ unheard' = unheard \ {t}
  /\ UNCHANGED <<limit, successes>>

-----------------------------------------------------------------------------
(* The retry loop *)

\* A bug: the last step up to the ceiling is not taken.
RaisesBug(o) == successes[o] + 1 >= IncreaseAfter /\ limit[o] + 1 < MaxLimit[o]

Raises(o) == successes[o] + 1 >= IncreaseAfter /\ limit[o] < MaxLimit[o]

\* Drive carries the call out; record_success may raise the limit and wake the
\* waiters.  The count goes on at the ceiling, where its value beyond
\* IncreaseAfter makes no difference.
Succeed(t) ==
  LET o == op[t]
  IN  /\ stage[t] = "call"
      /\ IF Raises(o)
         THEN /\ limit' = [limit EXCEPT ![o] = @ + 1]
              /\ successes' = [successes EXCEPT ![o] = 0]
              /\ stage' = Woken([stage EXCEPT ![t] = "leave"])
         ELSE /\ successes' = [successes EXCEPT ![o] =
                                 IF @ < IncreaseAfter THEN @ + 1 ELSE @]
              /\ Goto(t, "leave")
              /\ UNCHANGED limit
      /\ UNCHANGED <<inFlight, op, attempt, unheard>>

\* A bug: the count of attempts starts again with each throttle.
NextAttemptBug(t, e) == IF IsThrottle(e) THEN 1 ELSE attempt[t] + 1

NextAttempt(t, e) == attempt[t] + 1

\* A bug: the floor of the limit is forgotten.
HalvedBug(n) == n \div 2

Halved(n) == Larger(1, n \div 2)

\* A transient error that is not on the last attempt: on_event halves the limit
\* if it is a throttle (nobody needs waking for that), and the thread backs off,
\* keeping its slot.
Retry(t, e) ==
  /\ stage[t] = "call" /\ Transient(e) /\ attempt[t] < MaxAttempts
  /\ IF IsThrottle(e)
     THEN /\ limit' = [limit EXCEPT ![op[t]] = Halved(@)]
          /\ successes' = [successes EXCEPT ![op[t]] = 0]
     ELSE UNCHANGED <<limit, successes>>
  /\ attempt' = [attempt EXCEPT ![t] = NextAttempt(t, e)]
  /\ Goto(t, "backoff")
  /\ UNCHANGED <<inFlight, op, unheard>>

\* The delay is over: call() again, through the pacer.
TryAgain(t) ==
  /\ stage[t] = "backoff"
  /\ Goto(t, "call")
  /\ UNCHANGED <<limiters, op, attempt, unheard>>

\* A fatal error, or any on the last attempt, is raised before on_event is called.
Raise(t, e) ==
  /\ stage[t] = "call" /\ (~Transient(e) \/ attempt[t] >= MaxAttempts)
  /\ Goto(t, "leave")
  /\ unheard' = IF IsThrottle(e) THEN unheard \union {t} ELSE unheard
  /\ UNCHANGED <<limiters, op, attempt>>

-----------------------------------------------------------------------------
Step(t) == \/ TakeSlot(t) \/ Wait(t) \/ Leave(t)
           \/ Succeed(t) \/ TryAgain(t)
           \/ \E e \in Errors : Retry(t, e) \/ Raise(t, e)

Next == \E t \in Threads : Step(t) \/ \E o \in Ops : Begin(t, o)
Spec == Init /\ [][Next]_vars

\* A thread that can go on does: Drive answers or the connection breaks, the
\* pacer and the delays let it pass in the end (RequestsFlow of AdaptivePacer).
\* Nobody has to make another call.
FairSpec == Spec /\ \A t \in Threads : WF_vars(Step(t))

-----------------------------------------------------------------------------
(* Properties *)

TypeOK ==
  /\ limit \in [Ops -> Nat] /\ \A o \in Ops : limit[o] \in 1..MaxLimit[o]
  /\ inFlight \in [Ops -> Nat]
  /\ successes \in [Ops -> 0..IncreaseAfter]
  /\ stage \in [Threads -> {"out", "enter", "asleep"} \union Held]
  /\ op \in [Threads -> Ops \union {None}]
  /\ \A t \in Threads : stage[t] # "out" => op[t] \in Ops
  /\ attempt \in [Threads -> 1..MaxAttempts]
  /\ unheard \subseteq Threads

\* The count of calls in flight is exact whatever way each call ends, and the
\* threads together never pass the ceiling of their kind of operation, although
\* the limit is halved below the number in flight (concurrency.py:61-72).
SlotsConserved == \A o \in Ops : /\ inFlight[o] = Cardinality(Holders(o))
                                 /\ inFlight[o] <= MaxLimit[o]

\* No wake-up is missed: a thread sleeps only while its limiter is full, though
\* limits rise and fall and all limiters share one condition (concurrency.py:64-81).
NoMissedWakeup == \A t \in Threads : stage[t] = "asleep" => inFlight[op[t]] >= limit[op[t]]

\* A slot is never kept for ever: throttled again and again, a call ends after
\* max_attempts, and its slot is free (retry.py:190-232, drive_client.py:65-69).
CallsEnd == \A t \in Threads : stage[t] \in Held ~> stage[t] = "out"

\* Waiting calls of each kind are served, one or the other, as long as there are any.
WaitersServed == \A o \in Ops :
  \/ []<>(\A t \in Threads : ~(op[t] = o /\ stage[t] \in {"enter", "asleep"}))
  \/ []<><<\E t \in Threads : op[t] = o /\ TakeSlot(t)>>_vars

\* When an operation is throttled no more and succeeds again and again, its limit
\* climbs back to the ceiling and stays there (concurrency.py:74-81).
LimitRecovers == \A o \in Ops :
  /\ []<><<\E t \in Threads : op[t] = o /\ Succeed(t)>>_vars
  /\ <>[][~\E t \in Threads : op[t] = o /\ Retry(t, "rate")]_vars
  => <>[](limit[o] = MaxLimit[o])

\* Every throttle is reported to the pacer and to the controller (README.md:81).
EveryThrottleReported == unheard = {}
==============================================================================
