------------------------- MODULE CopyEngine_proofs -------------------------
(***************************************************************************)
(* Machine-checked proofs about CopyEngine, for any number of files,       *)
(* threads, accounts and faults.                                           *)
(***************************************************************************)
EXTENDS CopyEngine, TLAPS

\* A thread that is executing _copy_file.
Busy(t) == pc[t] \notin {"idle", "finalSave"}

\* Where the threads can be while run() is where it is.
ThreadInv ==
  /\ \A t \in Threads : Busy(t) => phase \in {"submit", "drain"} /\ file[t] \in Files
  /\ \A t \in Threads : pc[t] = "finalSave" => t = Main /\ phase = "save"
  /\ queue # {} => phase \in {"submit", "drain"}
  /\ phase # "idle" => account \in Accounts

BaseInv == TypeOK /\ ThreadInv

\* The initial state satisfies the invariant.
LEMMA BaseInit == Init => BaseInv
<1> SUFFICES ASSUME Init PROVE BaseInv
  OBVIOUS
<1> USE DEF Init, Phases, Pcs
<1>1. copies \in [Files -> Seq(Qualities)]
  OBVIOUS
<1>2. faults \in 0..MaxFaults
  BY FaultAssumption
<1>3. pc \in [Threads -> Pcs] /\ file \in [Threads -> Files \union {None}]
  OBVIOUS
<1>4. snap \in [Threads -> Snap \union {None}] /\ logs \in [LogIds -> Log \union {None}]
  OBVIOUS
<1>5. /\ report \subseteq Items /\ phase \in Phases /\ account \in Accounts \union {None}
      /\ own \in LogIds \union {None} /\ index \subseteq Files /\ todo \subseteq Files
      /\ queue \subseteq Files /\ copied \subseteq Files /\ stateFailed \subseteq Items
      /\ failed \subseteq Items /\ prevFailed \subseteq Items
  OBVIOUS
<1>6. /\ dry \in BOOLEAN /\ completed \in BOOLEAN /\ stop \in BOOLEAN
      /\ listErr \in BOOLEAN /\ saveFailed \in BOOLEAN
  OBVIOUS
<1>7. runBytes \in Int /\ resBytes \in Nat /\ consec \in Nat /\ dirty \in Nat
  OBVIOUS
<1>8. TypeOK
  BY <1>1, <1>2, <1>3, <1>4, <1>5, <1>6, <1>7, Zenon DEF TypeOK
<1>. QED BY <1>8 DEF BaseInv, ThreadInv, Busy

\* The state a run leaves when it ends, or when its process dies.
LEMMA FreshTyped ==
  ASSUME EndRun
  PROVE  /\ phase' = "idle" /\ account' \in Accounts \union {None} /\ dry' = FALSE
         /\ own' \in LogIds \union {None}
         /\ completed' \in BOOLEAN /\ stop' \in BOOLEAN
         /\ index' = {} /\ todo' = {} /\ queue' = {} /\ copied' = {}
         /\ stateFailed' = {} /\ failed' = {} /\ prevFailed' = {}
         /\ listErr' \in BOOLEAN /\ saveFailed' \in BOOLEAN
         /\ runBytes' \in Int /\ resBytes' \in Nat /\ consec' \in Nat /\ dirty' \in Nat
         /\ pc' \in [Threads -> Pcs] /\ (\A t \in Threads : pc'[t] = "idle")
         /\ file' \in [Threads -> Files \union {None}]
         /\ snap' \in [Threads -> Snap \union {None}] /\ (\A t \in Threads : snap'[t] = None)
<1>1. pc' \in [Threads -> Pcs] /\ (\A t \in Threads : pc'[t] = "idle")
  BY DEF EndRun, FreshCopier, Pcs
<1>2. /\ file' \in [Threads -> Files \union {None}]
      /\ snap' \in [Threads -> Snap \union {None}] /\ (\A t \in Threads : snap'[t] = None)
  BY DEF EndRun, FreshCopier
<1>3. /\ dry' = FALSE /\ completed' \in BOOLEAN /\ stop' \in BOOLEAN
      /\ listErr' \in BOOLEAN /\ saveFailed' \in BOOLEAN
  BY DEF EndRun, FreshCopier
<1>4. runBytes' \in Int /\ resBytes' \in Nat /\ consec' \in Nat /\ dirty' \in Nat
  BY DEF EndRun, FreshCopier
<1>5. /\ phase' = "idle" /\ account' \in Accounts \union {None}
      /\ own' \in LogIds \union {None}
      /\ index' = {} /\ todo' = {} /\ queue' = {} /\ copied' = {}
      /\ stateFailed' = {} /\ failed' = {} /\ prevFailed' = {}
  BY DEF EndRun, FreshCopier
<1>. QED BY <1>1, <1>2, <1>3, <1>4, <1>5

\* Where a save leaves the threads is where they may be.
LEMMA AfterSaveTyped ==
  ASSUME BaseInv, NEW t \in Threads, Saving(t), AfterSave(t)
  PROVE  /\ phase' \in Phases /\ (phase' = "idle" <=> phase = "idle")
         /\ pc' \in [Threads -> Pcs]
         /\ file' \in [Threads -> Files \union {None}]
         /\ snap' \in [Threads -> Snap \union {None}]
         /\ \A u \in Threads : pc'[u] \notin {"idle", "finalSave"}
              => phase' \in {"submit", "drain"} /\ file'[u] \in Files
         /\ \A u \in Threads : pc'[u] = "finalSave" => u = Main /\ phase' = "save"
         /\ queue # {} => phase' \in {"submit", "drain"}
<1> USE DEF BaseInv, TypeOK, ThreadInv, Busy, Phases, Pcs
<1>1. CASE pc[t] = "flushSave"
  BY <1>1 DEF AfterSave
<1>2. CASE pc[t] = "stopSave"
  BY <1>2 DEF AfterSave
<1>3. CASE pc[t] = "finalSave"
  BY <1>3 DEF AfterSave
<1>. QED BY <1>1, <1>2, <1>3 DEF Saving

\* A save ends where it began or leaves _copy_file; the other threads stay.
LEMMA AfterSaveFrame ==
  ASSUME BaseInv, NEW t \in Threads, Saving(t), AfterSave(t)
  PROVE  /\ \/ phase' = phase
            \/ pc[t] = "stopSave" /\ phase \in {"submit", "drain"} /\ phase' = "drain"
            \/ pc[t] = "finalSave" /\ phase = "save" /\ phase' = "finalize"
         /\ \A u \in Threads \ {t} : pc'[u] = pc[u] /\ file'[u] = file[u] /\ snap'[u] = snap[u]
         /\ pc'[t] \in {"reconcile", "idle"} /\ snap'[t] = None
         /\ pc'[t] = "reconcile" => pc[t] = "flushSave" /\ file'[t] = file[t]
<1> USE DEF BaseInv, TypeOK, ThreadInv, Busy, Phases, Pcs
<1>1. CASE pc[t] = "flushSave"
  BY <1>1 DEF AfterSave
<1>2. CASE pc[t] = "stopSave"
  BY <1>2 DEF AfterSave
<1>3. CASE pc[t] = "finalSave"
  BY <1>3 DEF AfterSave
<1>. QED BY <1>1, <1>2, <1>3 DEF Saving

\* Every step of the engine or its environment preserves it.
LEMMA BaseStep == BaseInv /\ [Next]_vars => BaseInv'
<1> SUFFICES ASSUME BaseInv, [Next]_vars PROVE BaseInv'
  OBVIOUS
<1> USE SizeAssumption, DryRunAssumption, FaultAssumption,
    ThreadAssumption DEF BaseInv, TypeOK, ThreadInv, Busy, Threads, Items,
    Qualities, Phases, Pcs, Log, Snap,
        driveVars, configVars, levelVars, failVars, flagVars, byteVars,
            threadVars, Goto, Return, Raise, Begin, Fault, RecordFailed
<1>1. ASSUME NEW a \in Accounts, NEW d \in DryRuns, StartRun(a, d) PROVE BaseInv'
  BY <1>1 DEF StartRun
<1>2. CASE LoadResume
  BY <1>2 DEF LoadResume, LogsOnDrive, LoggedCopied, LoggedFailed
<1>3. CASE LoadFails
  BY <1>3, FreshTyped DEF LoadFails
<1>4. CASE ListSource
  BY <1>4 DEF ListSource
<1>5. CASE ListFails
  BY <1>5 DEF ListFails
<1>6. CASE ListQuota
  BY <1>6 DEF ListQuota
<1>7. CASE BuildIndex
  BY <1>7 DEF BuildIndex, Indexed, Present
<1>8. CASE IndexFails
  BY <1>8 DEF IndexFails, Indexed, Present
<1>9. ASSUME NEW f \in Files, SubmitFile(f) PROVE BaseInv'
  BY <1>9 DEF SubmitFile
<1>10. ASSUME NEW f \in Files, CopyInline(f) PROVE BaseInv'
  BY <1>10 DEF CopyInline
<1>11. ASSUME NEW f \in Files, ShortcutUnresolved(f) PROVE BaseInv'
  BY <1>11 DEF ShortcutUnresolved
<1>12. CASE EndLoop
  BY <1>12 DEF EndLoop
<1>13. CASE Drained
  BY <1>13 DEF Drained, Quiet
<1>14. CASE FinalSave
  BY <1>14 DEF FinalSave
<1>15. CASE CleanUp
  <2>1. logs' \in [LogIds -> Log \union {None}] /\ report' \subseteq Items /\ faults' \in 0..MaxFaults
    BY <1>15 DEF CleanUp
  <2>. QED BY <1>15, <2>1, FreshTyped DEF CleanUp
<1>16. CASE ExportReport
  <2>1. report' \subseteq Items /\ faults' \in 0..MaxFaults
    BY <1>16 DEF ExportReport, AllFailed
  <2>. QED BY <1>16, <2>1, FreshTyped DEF ExportReport
<1>17. ASSUME NEW w \in Workers, NEW f \in Files, TakeJob(w, f) PROVE BaseInv'
  BY <1>17 DEF TakeJob
<1>18. ASSUME NEW t \in Threads, SeeStop(t) PROVE BaseInv'
  BY <1>18 DEF SeeStop
<1>19. ASSUME NEW t \in Threads, SkipConfirmed(t) PROVE BaseInv'
  BY <1>19 DEF SkipConfirmed
<1>20. ASSUME NEW t \in Threads, RecordExisting(t) PROVE BaseInv'
  BY <1>20 DEF RecordExisting
<1>21. ASSUME NEW t \in Threads, RejectOversize(t) PROVE BaseInv'
  BY <1>21 DEF RejectOversize, NotPresent
<1>22. ASSUME NEW t \in Threads, CountDryRun(t) PROVE BaseInv'
  BY <1>22 DEF CountDryRun, NotPresent
<1>23. ASSUME NEW t \in Threads, NeedsCopy(t) PROVE BaseInv'
  BY <1>23 DEF NeedsCopy, NotPresent
<1>24. ASSUME NEW t \in Threads, Reserve(t) PROVE BaseInv'
  BY <1>24 DEF Reserve
<1>25. ASSUME NEW t \in Threads, BudgetReached(t) PROVE BaseInv'
  BY <1>25 DEF BudgetReached
<1>26. ASSUME NEW t \in Threads, CopyLands(t) PROVE BaseInv'
  <2>1. file[t] \in Files
    BY <1>26 DEF CopyLands
  <2>2. copies' \in [Files -> Seq(Qualities)]
    <3>1. \A q \in Qualities : Append(copies[file[t]], q) \in Seq(Qualities)
      BY <2>1
    <3>2. \E q \in Qualities : copies' = [copies EXCEPT ![file[t]] = Append(@, q)]
      BY <1>26 DEF CopyLands, Land
    <3>. QED BY <2>1, <3>1, <3>2
  <2>. QED BY <1>26, <2>1, <2>2 DEF CopyLands
<1>27. ASSUME NEW t \in Threads, CopyRetried(t) PROVE BaseInv'
  BY <1>27 DEF CopyRetried
<1>28. ASSUME NEW t \in Threads, CopyFails(t) PROVE BaseInv'
  <2>1. file[t] \in Files
    BY <1>28 DEF CopyFails
  <2>2. copies' \in [Files -> Seq(Qualities)]
    <3>1. Append(copies[file[t]], "match") \in Seq(Qualities)
      BY <2>1
    <3>. QED BY <1>28, <2>1, <3>1 DEF CopyFails, Land
  <2>3. runBytes' \in Int /\ consec' \in Nat /\ faults' \in 0..MaxFaults
    BY <1>28, <2>1 DEF CopyFails, Release
  <2>. QED BY <1>28, <2>1, <2>2, <2>3 DEF CopyFails
<1>29. ASSUME NEW t \in Threads, CopyRateLimited(t) PROVE BaseInv'
  <2>1. file[t] \in Files
    BY <1>29 DEF CopyRateLimited
  <2>2. runBytes' \in Int /\ consec' \in Nat /\ faults' \in 0..MaxFaults
    BY <1>29, <2>1 DEF CopyRateLimited, Release
  <2>3. CASE ~Tripped
    BY <1>29, <2>1, <2>2, <2>3 DEF CopyRateLimited
  <2>4. CASE Tripped
    BY <1>29, <2>1, <2>2, <2>4 DEF CopyRateLimited
  <2>. QED BY <2>3, <2>4
<1>30. ASSUME NEW t \in Threads, CopyQuota(t) PROVE BaseInv'
  BY <1>30 DEF CopyQuota, Release
<1>31. ASSUME NEW t \in Threads, MarkCopied(t) PROVE BaseInv'
  BY <1>31 DEF MarkCopied
<1>32. ASSUME NEW t \in Threads, VerifyFails(t) PROVE BaseInv'
  BY <1>32 DEF VerifyFails, Release
<1>33. ASSUME NEW t \in Threads, Flush(t) PROVE BaseInv'
  BY <1>33 DEF Flush
<1>34. ASSUME NEW t \in Threads, Reconcile(t) PROVE BaseInv'
  BY <1>34 DEF Reconcile, Reconciled, Left
<1>35. ASSUME NEW t \in Threads, Serialize(t) PROVE BaseInv'
  BY <1>35 DEF Serialize, Saving, Serialised
<1>36. ASSUME NEW t \in Threads, WriteLog(t) PROVE BaseInv'
  <2>1. snap[t] \in Snap
    BY <1>36 DEF WriteLog
  <2>2. logs' \in [LogIds -> Log \union {None}] /\ own' \in LogIds \union {None}
    BY <1>36, <2>1 DEF WriteLog, StoreSnap, KeepId
  <2>. QED BY <1>36, <2>2, AfterSaveTyped DEF WriteLog
<1>37. ASSUME NEW t \in Threads, WriteLogFails(t) PROVE BaseInv'
  <2>1. snap[t] \in Snap
    BY <1>37 DEF WriteLogFails
  <2>2. logs' \in [LogIds -> Log \union {None}]
    BY <1>37, <2>1 DEF WriteLogFails, StoreSnap
  <2>. QED BY <1>37, <2>2, AfterSaveTyped DEF WriteLogFails
<1>38. CASE Signal
  BY <1>38 DEF Signal
<1>39. CASE Crash
  <2>1. copies' \in [Files -> Seq(Qualities)]
    BY <1>39 DEF Crash
  <2>. QED BY <1>39, <2>1, FreshTyped DEF Crash
<1>40. ASSUME NEW f \in Files, UserTrash(f) PROVE BaseInv'
  BY <1>40 DEF UserTrash, Present
<1>41. CASE UNCHANGED vars
  BY <1>41 DEF vars
<1>. QED BY <1>1, <1>2, <1>3, <1>4, <1>5, <1>6, <1>7, <1>8, <1>9, <1>10, <1>11,
    <1>12, <1>13, <1>14, <1>15, <1>16, <1>17, <1>18, <1>19, <1>20, <1>21,
    <1>22, <1>23, <1>24, <1>25, <1>26, <1>27, <1>28, <1>29, <1>30, <1>31,
    <1>32, <1>33, <1>34, <1>35, <1>36, <1>37, <1>38, <1>39, <1>40,
    <1>41 DEF Next, MainStep, CopyStep

\* Type correctness, with where the threads can be.  TypeOK is not inductive
\* by itself: that file[t] is a file follows from t being inside _copy_file.
THEOREM BaseInvariant == Spec => []BaseInv
<1>. QED BY BaseInit, BaseStep, PTL DEF Spec

\* Type correctness of the engine's state in every reachable state.
THEOREM TypeCorrect == Spec => []TypeOK
<1>1. BaseInv => TypeOK
  BY DEF BaseInv
<1>. QED BY <1>1, BaseInvariant, PTL

=============================================================================
