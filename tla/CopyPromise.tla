---------------------------- MODULE CopyPromise -----------------------------
(***************************************************************************)
(* What a user of gdrive_turbo_copy is promised, with no runs, threads,    *)
(* logs or failures in it: a file comes to the destination once, it leaves *)
(* only when the user removes it, and success is claimed only while every  *)
(* file is there.  CopyEngine implements it.                               *)
(***************************************************************************)
EXTENDS Integers

CONSTANT Files

VARIABLES
  dest,    \* dest[f]: how many copies of f the destination holds
  success  \* a run is ending that reports full success

vars == <<dest, success>>

PromiseTypeOK == dest \in [Files -> {0, 1}] /\ success \in BOOLEAN

Init == dest = [f \in Files |-> 0] /\ success = FALSE

\* New files arrive, several at once when a process dies with copies in flight.
Deliver(S) ==
  /\ \A f \in S : dest[f] = 0
  /\ dest' = [f \in Files |-> IF f \in S THEN 1 ELSE dest[f]]
  /\ success' = FALSE

\* The user removes a file, which no run does.
Remove(f) ==
  /\ ~success
  /\ dest' = [dest EXCEPT ![f] = 0]
  /\ UNCHANGED success

Succeed ==
  /\ \A f \in Files : dest[f] = 1
  /\ success' = TRUE
  /\ UNCHANGED dest

\* The run that succeeded is over.
Forget == success /\ success' = FALSE /\ UNCHANGED dest

Next == \/ \E S \in SUBSET Files : Deliver(S)
        \/ \E f \in Files : Remove(f)
        \/ Succeed \/ Forget

Spec == Init /\ [][Next]_vars
=============================================================================
