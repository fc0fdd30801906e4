-------------------------- MODULE DriveClient_proofs --------------------------
(***************************************************************************)
(* Proofs about the slots of the concurrency controller, for any number of *)
(* threads, kinds of operation, limits and attempts.                       *)
(***************************************************************************)
EXTENDS DriveClient, FiniteSetTheorems, TLAPS

Stages == {"out", "enter", "asleep"} \union Held

\* Every kind of operation may have a call in flight.
LEMMA MaxLimitType == MaxLimit \in [Ops -> Nat \ {0}]
<1>1. Larger(2, CopyWorkers) \in Nat \ {0} /\ Larger(1, CopyWorkers \div 2) \in Nat \ {0}
  BY LimitAssumption DEF Larger
<1> QED
  BY <1>1, LimitAssumption, OpAssumption DEF MaxLimit, OpKinds

\* Half a limit, floored, is a limit.
LEMMA HalvedType ==
  ASSUME NEW n \in Nat, NEW max \in Nat, n \in 1..max
  PROVE  Halved(n) \in 1..n
  BY DEF Halved, Larger

\* Waking changes only sleepers, and leaves none.
LEMMA WokenType ==
  ASSUME NEW s \in [Threads -> Stages]
  PROVE  /\ Woken(s) \in [Threads -> Stages]
         /\ \A t \in Threads : /\ Woken(s)[t] # "asleep"
                               /\ Woken(s)[t] \in Held <=> s[t] \in Held
                               /\ s[t] # "asleep" => Woken(s)[t] = s[t]
                               /\ s[t] = "asleep" => Woken(s)[t] = "enter"
  BY DEF Woken, Stages, Held

-----------------------------------------------------------------------------
(* Types *)

LEMMA TypeInit == Init => TypeOK
  BY MaxLimitType, LimitAssumption DEF Init, TypeOK, Held, None

LEMMA TypeBegin ==
  ASSUME TypeOK, NEW t \in Threads, NEW o \in Ops, Begin(t, o)
  PROVE  TypeOK'
  BY DEF TypeOK, Begin, Goto, limiters

LEMMA TypeSlot ==
  ASSUME TypeOK, NEW t \in Threads, TakeSlot(t) \/ Wait(t) \/ TryAgain(t)
  PROVE  TypeOK'
<1>1. CASE TakeSlot(t)
  <2>1. op[t] \in Ops
    BY <1>1 DEF TakeSlot, TypeOK
  <2> QED
    BY <1>1, <2>1 DEF TakeSlot, Goto, TypeOK, Held
<1>2. CASE Wait(t)
  BY <1>2 DEF Wait, Goto, TypeOK, limiters
<1>3. CASE TryAgain(t)
  BY <1>3 DEF TryAgain, Goto, TypeOK, limiters, Held
<1> QED
  BY <1>1, <1>2, <1>3

LEMMA TypeRetry ==
  ASSUME TypeOK, NEW t \in Threads, NEW e \in Errors, Retry(t, e) \/ Raise(t, e)
  PROVE  TypeOK'
<1>1. CASE Raise(t, e)
  BY <1>1 DEF Raise, Goto, TypeOK, limiters, Held
<1>2. CASE Retry(t, e)
  <2>1. op[t] \in Ops
    BY <1>2 DEF Retry, TypeOK
  <2>2. limit[op[t]] \in Nat /\ MaxLimit[op[t]] \in Nat /\ limit[op[t]] \in 1..MaxLimit[op[t]]
    BY <2>1, MaxLimitType DEF TypeOK
  <2>3. Halved(limit[op[t]]) \in 1..MaxLimit[op[t]] /\ Halved(limit[op[t]]) \in Nat
    BY <2>2, HalvedType
  <2>4. limit' \in [Ops -> Nat] /\ \A o \in Ops : limit'[o] \in 1..MaxLimit[o]
    BY <1>2, <2>3 DEF Retry, TypeOK
  <2>5. successes' \in [Ops -> 0..IncreaseAfter]
    BY <1>2, LimitAssumption DEF Retry, TypeOK
  <2>6. attempt' \in [Threads -> 1..MaxAttempts]
    BY <1>2, LimitAssumption DEF Retry, NextAttempt, TypeOK
  <2>7. stage' \in [Threads -> {"out", "enter", "asleep"} \union Held]
        /\ \A u \in Threads : stage'[u] # "out" => op[u] \in Ops
    BY <1>2, <2>1 DEF Retry, Goto, TypeOK, Held
  <2> QED
    BY <1>2, <2>4, <2>5, <2>6, <2>7 DEF Retry, TypeOK
<1> QED
  BY <1>1, <1>2

LEMMA TypeSucceed ==
  ASSUME TypeOK, NEW t \in Threads, Succeed(t)
  PROVE  TypeOK'
<1> DEFINE o == op[t]
<1>1. o \in Ops /\ [stage EXCEPT ![t] = "leave"] \in [Threads -> Stages]
  BY DEF Succeed, TypeOK, Stages, Held
<1>2. UNCHANGED <<inFlight, op, attempt, unheard>>
  BY DEF Succeed
<1>3. CASE Raises(o)
  <2>1. limit' = [limit EXCEPT ![o] = @ + 1] /\ limit[o] + 1 <= MaxLimit[o]
    BY <1>1, <1>3, MaxLimitType DEF Succeed, Raises, TypeOK
  <2>2. limit' \in [Ops -> Nat] /\ \A p \in Ops : limit'[p] \in 1..MaxLimit[p]
    BY <1>1, <2>1, MaxLimitType DEF TypeOK
  <2>3. successes' \in [Ops -> 0..IncreaseAfter]
    BY <1>3, LimitAssumption DEF Succeed, TypeOK
  <2>4. stage' = Woken([stage EXCEPT ![t] = "leave"])
    BY <1>3 DEF Succeed
  <2>5. /\ stage' \in [Threads -> Stages]
        /\ \A u \in Threads : stage'[u] # "out" => op[u] \in Ops
    BY <1>1, <2>4, WokenType DEF TypeOK
  <2> QED
    BY <1>2, <2>2, <2>3, <2>5 DEF TypeOK, Stages
<1>4. CASE ~Raises(o)
  <2>1. successes' \in [Ops -> 0..IncreaseAfter]
    BY <1>4, LimitAssumption DEF Succeed, TypeOK
  <2>2. limit' = limit /\ stage' = [stage EXCEPT ![t] = "leave"]
    BY <1>4 DEF Succeed, Goto
  <2> QED
    BY <1>1, <1>2, <2>1, <2>2 DEF TypeOK, Stages
<1> QED
  BY <1>3, <1>4

\* A thread that leaves holds a slot, so that the count does not drop below zero.
LEMMA TypeLeave ==
  ASSUME TypeOK, NEW t \in Threads, Leave(t), inFlight[op[t]] > 0
  PROVE  TypeOK'
<1>1. op[t] \in Ops /\ [stage EXCEPT ![t] = "out"] \in [Threads -> Stages]
  BY DEF Leave, TypeOK, Stages
<1>2. inFlight' \in [Ops -> Nat]
  BY <1>1 DEF Leave, GiveBack, TypeOK
<1>3. stage' = Woken([stage EXCEPT ![t] = "out"])
  BY DEF Leave
<1>4. stage' \in [Threads -> Stages]
  BY <1>1, <1>3, WokenType
<1>5. op' \in [Threads -> Ops \union {None}] /\ attempt' \in [Threads -> 1..MaxAttempts]
  BY LimitAssumption DEF Leave, TypeOK
<1>6. ASSUME NEW u \in Threads, stage'[u] # "out" PROVE op'[u] \in Ops
  <2>1. u # t
    BY <1>1, <1>3, <1>6, WokenType DEF TypeOK
  <2>2. stage[u] # "out"
    BY <1>1, <1>3, <1>6, <2>1, WokenType DEF TypeOK
  <2> QED
    BY <2>1, <2>2 DEF Leave, TypeOK
<1> QED
  BY <1>2, <1>4, <1>5, <1>6 DEF Leave, TypeOK, Stages

-----------------------------------------------------------------------------
(* The slots *)

\* Holders are finitely many.
LEMMA HoldersFinite == \A o : IsFiniteSet(Holders(o))
  BY ThreadAssumption, FS_Subset DEF Holders

\* The inductive invariant of the count: without the ceiling, which follows from
\* the limit's type and the guard of TakeSlot.
Conserved == \A o \in Ops : inFlight[o] = Cardinality(Holders(o))
Bounded   == \A o \in Ops : inFlight[o] <= MaxLimit[o]
SlotInv   == TypeOK /\ Conserved /\ Bounded

LEMMA SlotInit == Init => SlotInv
<1> SUFFICES ASSUME Init PROVE SlotInv
  OBVIOUS
<1>1. \A o \in Ops : Holders(o) = {}
  BY DEF Init, Holders, Held
<1> QED
  BY <1>1, TypeInit, FS_EmptySet, MaxLimitType DEF SlotInv, Conserved, Bounded, Init

\* Steps of a thread between two stages that are both inside or both outside.
LEMMA SlotStays ==
  ASSUME SlotInv, TypeOK', inFlight' = inFlight,
         \A u \in Threads : /\ stage'[u] \in Held <=> stage[u] \in Held
                            /\ stage[u] \in Held => op'[u] = op[u]
  PROVE  SlotInv'
<1>1. \A o \in Ops : Holders(o)' = Holders(o)
  BY DEF Holders
<1> QED
  BY <1>1 DEF SlotInv, Conserved, Bounded

LEMMA SlotTake ==
  ASSUME SlotInv, NEW t \in Threads, TakeSlot(t)
  PROVE  SlotInv'
<1>1. op[t] \in Ops /\ TypeOK /\ TypeOK'
  BY TypeSlot DEF TakeSlot, SlotInv, TypeOK
<1>2. PICK o \in Ops : o = op[t]
  BY <1>1
<1>3. /\ stage' = [stage EXCEPT ![t] = "call"] /\ op' = op
      /\ inFlight' = [inFlight EXCEPT ![o] = @ + 1] /\ inFlight[o] < limit[o]
      /\ stage[t] = "enter"
  BY <1>2 DEF TakeSlot, Goto
<1>4. Holders(o)' = Holders(o) \union {t} /\ t \notin Holders(o)
  BY <1>1, <1>2, <1>3 DEF Holders, Held, TypeOK
<1>5. \A p \in Ops \ {o} : Holders(p)' = Holders(p)
  BY <1>1, <1>2, <1>3 DEF Holders, Held, TypeOK
<1>6. Cardinality(Holders(o)') = Cardinality(Holders(o)) + 1
  BY <1>4, HoldersFinite, FS_AddElement
<1>7. inFlight'[o] = inFlight[o] + 1 /\ \A p \in Ops \ {o} : inFlight'[p] = inFlight[p]
  BY <1>1, <1>3 DEF TypeOK
<1>8. Conserved'
  BY <1>5, <1>6, <1>7 DEF Conserved, SlotInv
<1>9. inFlight'[o] <= MaxLimit[o]
  <2>1. inFlight[o] \in Nat /\ limit[o] \in Nat /\ limit[o] <= MaxLimit[o] /\ MaxLimit[o] \in Nat
    BY <1>1, MaxLimitType DEF TypeOK
  <2> QED
    BY <1>3, <1>7, <2>1
<1>10. Bounded'
  BY <1>7, <1>9 DEF Bounded, SlotInv
<1> QED
  BY <1>1, <1>8, <1>10 DEF SlotInv

LEMMA SlotLeave ==
  ASSUME SlotInv, NEW t \in Threads, Leave(t)
  PROVE  SlotInv'
<1>1. op[t] \in Ops /\ stage[t] = "leave" /\ TypeOK
  BY DEF Leave, SlotInv, TypeOK
<1>2. PICK o \in Ops : o = op[t]
  BY <1>1
<1>3. Cardinality(Holders(o) \ {t}) = Cardinality(Holders(o)) - 1
  <2>1. t \in Holders(o)
    BY <1>1, <1>2 DEF Holders, Held
  <2> QED
    BY <2>1, HoldersFinite, FS_RemoveElement
<1>4. Cardinality(Holders(o) \ {t}) \in Nat /\ inFlight[o] \in Nat
  BY <1>1, HoldersFinite, FS_RemoveElement, FS_CardinalityType DEF TypeOK
<1>5. inFlight[o] > 0
  BY <1>1, <1>3, <1>4 DEF SlotInv, Conserved
<1>6. TypeOK'
  BY <1>1, <1>2, <1>5, TypeLeave
<1>7. stage' = Woken([stage EXCEPT ![t] = "out"]) /\ op' = [op EXCEPT ![t] = None]
  BY DEF Leave
<1>8. /\ stage'[t] \notin Held
      /\ \A u \in Threads \ {t} : /\ stage'[u] \in Held <=> stage[u] \in Held
                                  /\ op'[u] = op[u]
  <2>1. [stage EXCEPT ![t] = "out"] \in [Threads -> Stages]
    BY <1>1 DEF TypeOK, Stages
  <2>2. \A u \in Threads : stage'[u] \in Held <=> [stage EXCEPT ![t] = "out"][u] \in Held
    BY <1>7, <2>1, WokenType
  <2> QED
    BY <1>1, <1>7, <2>2 DEF TypeOK, Held
<1>9. Holders(o)' = Holders(o) \ {t} /\ \A p \in Ops \ {o} : Holders(p)' = Holders(p)
  BY <1>2, <1>8 DEF Holders
<1>10. /\ inFlight'[o] = inFlight[o] - 1
       /\ \A p \in Ops \ {o} : inFlight'[p] = inFlight[p]
  BY <1>1, <1>2 DEF Leave, GiveBack, TypeOK
<1>11. Conserved'
  BY <1>3, <1>9, <1>10 DEF Conserved, SlotInv
<1>12. Bounded'
  <2>1. inFlight[o] - 1 <= MaxLimit[o]
    BY <1>4, MaxLimitType DEF SlotInv, Bounded
  <2> QED
    BY <1>10, <2>1 DEF Bounded, SlotInv
<1> QED
  BY <1>6, <1>11, <1>12 DEF SlotInv

LEMMA SlotSucceed ==
  ASSUME SlotInv, NEW t \in Threads, Succeed(t)
  PROVE  SlotInv'
<1>1. TypeOK' /\ inFlight' = inFlight /\ op' = op /\ stage[t] = "call"
  BY TypeSucceed DEF Succeed, SlotInv
<1>2. [stage EXCEPT ![t] = "leave"] \in [Threads -> Stages]
  BY DEF SlotInv, TypeOK, Stages, Held
<1>3. \/ stage' = [stage EXCEPT ![t] = "leave"]
      \/ stage' = Woken([stage EXCEPT ![t] = "leave"])
  BY DEF Succeed, Goto
<1>4. \A u \in Threads : stage'[u] \in Held <=> [stage EXCEPT ![t] = "leave"][u] \in Held
  BY <1>2, <1>3, WokenType
<1>5. \A u \in Threads : stage'[u] \in Held <=> stage[u] \in Held
  BY <1>1, <1>4 DEF Held, SlotInv, TypeOK
<1> QED
  BY <1>1, <1>5, SlotStays

LEMMA SlotStep == SlotInv /\ [Next]_vars => SlotInv'
<1> SUFFICES ASSUME SlotInv, [Next]_vars PROVE SlotInv'
  OBVIOUS
<1>1. CASE UNCHANGED vars
  BY <1>1, SlotStays DEF vars, limiters, calls, SlotInv, TypeOK
<1>2. ASSUME NEW t \in Threads, NEW o \in Ops, Begin(t, o) PROVE SlotInv'
  <2>1. TypeOK' /\ inFlight' = inFlight
    BY <1>2, TypeBegin DEF SlotInv, Begin, limiters
  <2>2. \A u \in Threads : /\ stage'[u] \in Held <=> stage[u] \in Held
                           /\ stage[u] \in Held => op'[u] = op[u]
    BY <1>2 DEF Begin, Goto, Held, SlotInv, TypeOK
  <2> QED
    BY <2>1, <2>2, SlotStays
<1>3. ASSUME NEW t \in Threads, Wait(t) \/ TryAgain(t) PROVE SlotInv'
  <2>1. TypeOK' /\ inFlight' = inFlight /\ op' = op
    BY <1>3, TypeSlot DEF SlotInv, Wait, TryAgain, limiters
  <2>2. \A u \in Threads : stage'[u] \in Held <=> stage[u] \in Held
    BY <1>3 DEF Wait, TryAgain, Goto, Held, SlotInv, TypeOK
  <2> QED
    BY <2>1, <2>2, SlotStays
<1>4. ASSUME NEW t \in Threads, NEW e \in Errors, Retry(t, e) \/ Raise(t, e) PROVE SlotInv'
  <2>1. TypeOK' /\ inFlight' = inFlight /\ op' = op
    BY <1>4, TypeRetry DEF SlotInv, Retry, Raise, limiters
  <2>2. \A u \in Threads : stage'[u] \in Held <=> stage[u] \in Held
    BY <1>4 DEF Retry, Raise, Goto, Held, SlotInv, TypeOK
  <2> QED
    BY <2>1, <2>2, SlotStays
<1> QED
  BY <1>1, <1>2, <1>3, <1>4, SlotTake, SlotLeave, SlotSucceed DEF Next, Step

\* The state stays in its types, and the count of calls in flight is the number of
\* threads that hold a slot, never above the ceiling of their operation.
THEOREM ClientTypeCorrect == Spec => []TypeOK
<1>1. SlotInv => TypeOK
  BY DEF SlotInv
<1> QED
  BY <1>1, SlotInit, SlotStep, PTL DEF Spec

THEOREM SlotTheorem == Spec => []SlotsConserved
<1>1. SlotInv => SlotsConserved
  BY DEF SlotInv, Conserved, Bounded, SlotsConserved
<1> QED
  BY <1>1, SlotInit, SlotStep, PTL DEF Spec

-----------------------------------------------------------------------------
(* The wake-ups *)

LEMMA WakeupStep == TypeOK /\ NoMissedWakeup /\ [Next]_vars => NoMissedWakeup'
<1> SUFFICES ASSUME TypeOK, NoMissedWakeup, [Next]_vars PROVE NoMissedWakeup'
  OBVIOUS
<1>1. CASE UNCHANGED vars
  BY <1>1 DEF vars, limiters, calls, NoMissedWakeup
<1>2. ASSUME NEW t \in Threads, NEW o \in Ops, Begin(t, o) PROVE NoMissedWakeup'
  BY <1>2 DEF Begin, Goto, limiters, NoMissedWakeup, TypeOK
<1>3. ASSUME NEW t \in Threads, TakeSlot(t) PROVE NoMissedWakeup'
  <2>1. op[t] \in Ops /\ \A v \in Threads : stage[v] = "asleep" => op[v] \in Ops
    BY <1>3 DEF TakeSlot, TypeOK
  <2> QED
    BY <1>3, <2>1 DEF TakeSlot, Goto, NoMissedWakeup, TypeOK
<1>4. ASSUME NEW t \in Threads, Wait(t) PROVE NoMissedWakeup'
  BY <1>4 DEF Wait, Goto, limiters, NoMissedWakeup, TypeOK
<1>5. ASSUME NEW t \in Threads, TryAgain(t) PROVE NoMissedWakeup'
  BY <1>5 DEF TryAgain, Goto, limiters, NoMissedWakeup, TypeOK
<1>6. ASSUME NEW t \in Threads, NEW e \in Errors, Raise(t, e) PROVE NoMissedWakeup'
  BY <1>6 DEF Raise, Goto, limiters, NoMissedWakeup, TypeOK
<1>7. ASSUME NEW t \in Threads, NEW e \in Errors, Retry(t, e) PROVE NoMissedWakeup'
  <2>1. op[t] \in Ops
    BY <1>7 DEF Retry, TypeOK
  <2>2. limit[op[t]] \in Nat /\ limit[op[t]] \in 1..limit[op[t]]
    BY <2>1, MaxLimitType DEF TypeOK
  <2>3. Halved(limit[op[t]]) <= limit[op[t]] /\ Halved(limit[op[t]]) \in Nat
    BY <2>2, HalvedType
  <2>4. \A o \in Ops : limit'[o] <= limit[o] /\ limit'[o] \in Nat
    BY <1>7, <2>3 DEF Retry, TypeOK
  <2>5. ASSUME NEW v \in Threads, stage'[v] = "asleep"
        PROVE  inFlight'[op'[v]] >= limit'[op'[v]]
    <3>1. stage[v] = "asleep" /\ op'[v] = op[v] /\ op[v] \in Ops /\ inFlight' = inFlight
      BY <1>7, <2>5 DEF Retry, Goto, TypeOK
    <3>2. inFlight[op[v]] >= limit[op[v]]
      BY <3>1 DEF NoMissedWakeup
    <3> QED
      BY <2>4, <3>1, <3>2 DEF TypeOK
  <2> QED
    BY <2>5 DEF NoMissedWakeup
<1>8. ASSUME NEW t \in Threads, Succeed(t) PROVE NoMissedWakeup'
  <2>1. [stage EXCEPT ![t] = "leave"] \in [Threads -> Stages]
    BY DEF TypeOK, Stages, Held
  <2>2. CASE Raises(op[t])
    BY <1>8, <2>1, <2>2, WokenType DEF Succeed, NoMissedWakeup
  <2>3. CASE ~Raises(op[t])
    BY <1>8, <2>3 DEF Succeed, Goto, NoMissedWakeup, TypeOK
  <2> QED
    BY <2>2, <2>3
<1>9. ASSUME NEW t \in Threads, Leave(t) PROVE NoMissedWakeup'
  <2>1. [stage EXCEPT ![t] = "out"] \in [Threads -> Stages]
    BY DEF TypeOK, Stages
  <2> QED
    BY <1>9, <2>1, WokenType DEF Leave, NoMissedWakeup
<1> QED
  BY <1>1, <1>2, <1>3, <1>4, <1>5, <1>6, <1>7, <1>8, <1>9 DEF Next, Step

\* A thread sleeps only while its limiter is full: no rise of a limit and no slot
\* given back is missed, though all limiters share one condition.
THEOREM WakeupTheorem == Spec => []NoMissedWakeup
<1>1. Init => NoMissedWakeup
  BY DEF Init, NoMissedWakeup
<1> QED
  BY <1>1, WakeupStep, ClientTypeCorrect, PTL DEF Spec
==============================================================================
