---------------------------- MODULE MirrorPromise ----------------------------
(***************************************************************************)
(* What the user sees of the destination, with no folders, files, logs or  *)
(* failures in it: a set of places of the source tree that still have no   *)
(* counterpart.  A run only makes it smaller, and claims success only when *)
(* it is empty; only the user makes it larger, between runs.               *)
(* FolderTraversal implements it.                                          *)
(***************************************************************************)
CONSTANT Places

VARIABLES
  missing,  \* places without a counterpart at the destination
  busy,     \* a run is under way
  success   \* it is ending and reports full success

vars == <<missing, busy, success>>

PromiseTypeOK == missing \subseteq Places /\ busy \in BOOLEAN /\ success \in BOOLEAN

Init == missing \in SUBSET Places /\ busy = FALSE /\ success = FALSE

Begin == ~busy /\ busy' = TRUE /\ UNCHANGED <<missing, success>>

Fill == /\ busy /\ ~success
        /\ missing' \subseteq missing
        /\ UNCHANGED <<busy, success>>

Succeed == /\ busy /\ missing = {}
           /\ success' = TRUE
           /\ UNCHANGED <<missing, busy>>

End == /\ busy /\ busy' = FALSE /\ success' = FALSE
       /\ missing' \subseteq missing

Disturb == /\ ~busy
           /\ missing' \in SUBSET Places
           /\ UNCHANGED <<busy, success>>

Next == Begin \/ Fill \/ Succeed \/ End \/ Disturb

Spec == Init /\ [][Next]_vars
=============================================================================
