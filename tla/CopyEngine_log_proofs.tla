----------------------- MODULE CopyEngine_log_proofs ------------------------
(***************************************************************************)
(* The resume log of CopyEngine never runs ahead of the destination, its   *)
(* last save is the last word, and a dry run writes nothing; how far the   *)
(* circuit breaker overshoots, and that the size guard's ledger is exact:  *)
(* proofs for any number of files, threads and faults.                     *)
(***************************************************************************)
EXTENDS CopyEngine_once_proofs, FiniteSetTheorems

\* What is recorded as copied is there, in the logs, in memory and in a
\* snapshot on its way from memory to a log.
LogInv ==
  /\ \A i \in LogsOnDrive : logs[i].copied \subseteq Present
  /\ copied \subseteq Present
  /\ \A t \in Threads : snap[t] # None => snap[t].log.copied \subseteq Present

\* Every step preserves it, if the user removes no copies.
LEMMA LogStep ==
  ASSUME BaseInv, ThereInv, LogInv, [Next]_vars, "userTrash" \notin Faults
  PROVE  LogInv'
<1> USE ThreadAssumption DEF BaseInv, TypeOK, ThreadInv, Busy, Threads,
    ThereInv, LogInv, LogsOnDrive, Present, Log, Snap,
        driveVars, configVars, levelVars, failVars, flagVars, byteVars,
            threadVars, Goto, Return, Raise, Begin, Fault, RecordFailed
<1>1. ASSUME NEW a \in Accounts, NEW d \in DryRuns, StartRun(a, d) PROVE LogInv'
  BY <1>1 DEF StartRun
<1>2. CASE LoadResume
  BY <1>2 DEF LoadResume, LoggedCopied
<1>3. CASE LoadFails
  BY <1>3, FreshTyped DEF LoadFails
<1>4. CASE ListSource
  BY <1>4 DEF ListSource
<1>5. CASE ListFails
  BY <1>5 DEF ListFails
<1>6. CASE ListQuota
  BY <1>6 DEF ListQuota
<1>7. CASE BuildIndex
  BY <1>7 DEF BuildIndex
<1>8. CASE IndexFails
  BY <1>8 DEF IndexFails
<1>9. ASSUME NEW f \in Files, SubmitFile(f) PROVE LogInv'
  BY <1>9 DEF SubmitFile
<1>10. ASSUME NEW f \in Files, CopyInline(f) PROVE LogInv'
  BY <1>10 DEF CopyInline
<1>11. ASSUME NEW f \in Files, ShortcutUnresolved(f) PROVE LogInv'
  BY <1>11 DEF ShortcutUnresolved
<1>12. CASE EndLoop
  BY <1>12 DEF EndLoop
<1>13. CASE Drained
  BY <1>13 DEF Drained, Quiet
<1>14. CASE FinalSave
  BY <1>14 DEF FinalSave
<1>15. CASE CleanUp
  <2>1. copies' = copies /\ \A i \in LogIds : logs'[i] \in {logs[i], None}
    BY <1>15 DEF CleanUp
  <2>. QED BY <1>15, <2>1, FreshTyped DEF CleanUp
<1>16. CASE ExportReport
  BY <1>16, FreshTyped DEF ExportReport
<1>17. ASSUME NEW w \in Workers, NEW f \in Files, TakeJob(w, f) PROVE LogInv'
  BY <1>17 DEF TakeJob
<1>18. ASSUME NEW t \in Threads, SeeStop(t) PROVE LogInv'
  BY <1>18 DEF SeeStop
<1>19. ASSUME NEW t \in Threads, SkipConfirmed(t) PROVE LogInv'
  BY <1>19 DEF SkipConfirmed
<1>20. ASSUME NEW t \in Threads, RecordExisting(t) PROVE LogInv'
  BY <1>20 DEF RecordExisting
<1>21. ASSUME NEW t \in Threads, RejectOversize(t) PROVE LogInv'
  BY <1>21 DEF RejectOversize, NotPresent
<1>22. ASSUME NEW t \in Threads, CountDryRun(t) PROVE LogInv'
  BY <1>22 DEF CountDryRun, NotPresent
<1>23. ASSUME NEW t \in Threads, NeedsCopy(t) PROVE LogInv'
  BY <1>23 DEF NeedsCopy, NotPresent
<1>24. ASSUME NEW t \in Threads, Reserve(t) PROVE LogInv'
  BY <1>24 DEF Reserve
<1>25. ASSUME NEW t \in Threads, BudgetReached(t) PROVE LogInv'
  BY <1>25 DEF BudgetReached
<1>26. ASSUME NEW t \in Threads, CopyLands(t) PROVE LogInv'
  <2>1. file[t] \in Files
    BY <1>26 DEF CopyLands
  <2>2. Present \subseteq Present'
    BY <1>26, <2>1, LandsThere DEF BaseInv
  <2>3. UNCHANGED <<logs, copied, snap>>
    BY <1>26 DEF CopyLands
  <2>. QED BY <2>2, <2>3
<1>27. ASSUME NEW t \in Threads, CopyRetried(t) PROVE LogInv'
  <2>1. file[t] \in Files
    BY <1>27 DEF CopyRetried
  <2>2. Present \subseteq Present'
    BY <1>27, <2>1, LandsThere DEF BaseInv
  <2>3. UNCHANGED <<logs, copied, snap>>
    BY <1>27 DEF CopyRetried
  <2>. QED BY <2>2, <2>3
<1>28. ASSUME NEW t \in Threads, CopyFails(t) PROVE LogInv'
  <2>1. file[t] \in Files
    BY <1>28 DEF CopyFails
  <2>2. Present \subseteq Present'
    BY <1>28, <2>1, LandsThere DEF BaseInv
  <2>3. UNCHANGED <<logs, copied, snap>>
    BY <1>28 DEF CopyFails
  <2>. QED BY <2>2, <2>3
<1>29. ASSUME NEW t \in Threads, CopyRateLimited(t) PROVE LogInv'
  BY <1>29 DEF CopyRateLimited
<1>30. ASSUME NEW t \in Threads, CopyQuota(t) PROVE LogInv'
  BY <1>30 DEF CopyQuota
<1>31. ASSUME NEW t \in Threads, MarkCopied(t) PROVE LogInv'
  BY <1>31 DEF MarkCopied
<1>32. ASSUME NEW t \in Threads, VerifyFails(t) PROVE LogInv'
  BY <1>32 DEF VerifyFails
<1>33. ASSUME NEW t \in Threads, Flush(t) PROVE LogInv'
  BY <1>33 DEF Flush
<1>34. ASSUME NEW t \in Threads, Reconcile(t) PROVE LogInv'
  BY <1>34 DEF Reconcile
<1>35. ASSUME NEW t \in Threads, Serialize(t) PROVE LogInv'
  BY <1>35 DEF Serialize, Saving, Serialised
<1>36. ASSUME NEW t \in Threads, WriteLog(t) PROVE LogInv'
  <2>1. snap[t] \in Snap /\ snap[t].log.copied \subseteq Present
    BY <1>36 DEF WriteLog
  <2>2. logs' = logs \/ \E i \in LogIds : logs' = [logs EXCEPT ![i] = snap[t].log]
    BY <1>36 DEF WriteLog, StoreSnap
  <2>3. UNCHANGED <<copies, copied>>
    BY <1>36 DEF WriteLog
  <2>4. \A u \in Threads : snap'[u] \in {snap[u], None}
    BY <1>36, AfterSaveFrame DEF WriteLog
  <2>5. \A i \in LogIds : logs'[i] # None => logs'[i].copied \subseteq Present
    BY <2>1, <2>2
  <2>. QED BY <2>1, <2>3, <2>4, <2>5
<1>37. ASSUME NEW t \in Threads, WriteLogFails(t) PROVE LogInv'
  <2>1. snap[t] \in Snap /\ snap[t].log.copied \subseteq Present
    BY <1>37 DEF WriteLogFails
  <2>2. logs' = logs \/ \E i \in LogIds : logs' = [logs EXCEPT ![i] = snap[t].log]
    BY <1>37 DEF WriteLogFails, StoreSnap
  <2>3. UNCHANGED <<copies, copied>>
    BY <1>37 DEF WriteLogFails
  <2>4. \A u \in Threads : snap'[u] \in {snap[u], None}
    BY <1>37, AfterSaveFrame DEF WriteLogFails
  <2>5. \A i \in LogIds : logs'[i] # None => logs'[i].copied \subseteq Present
    BY <2>1, <2>2
  <2>. QED BY <2>1, <2>3, <2>4, <2>5
<1>38. CASE Signal
  BY <1>38 DEF Signal
<1>39. CASE Crash
  <2>1. Present \subseteq Present'
    <3>1. \A s \in Seq(Qualities), q \in Qualities : Append(s, q) # <<>>
      BY AppendThere
    <3>3. "match" \in Qualities
      BY DEF Qualities
    <3>2. \A f \in Files : copies'[f] \in {copies[f], Append(copies[f], "match")}
      BY <1>39 DEF Crash
    <3>. QED BY <3>1, <3>2, <3>3
  <2>. QED BY <1>39, <2>1, FreshTyped DEF Crash
<1>40. ASSUME NEW f \in Files, UserTrash(f) PROVE LogInv'
  BY <1>40 DEF UserTrash
<1>41. CASE UNCHANGED vars
  BY <1>41 DEF vars
<1>. QED BY <1>1, <1>2, <1>3, <1>4, <1>5, <1>6, <1>7, <1>8, <1>9, <1>10, <1>11,
    <1>12, <1>13, <1>14, <1>15, <1>16, <1>17, <1>18, <1>19, <1>20, <1>21,
    <1>22, <1>23, <1>24, <1>25, <1>26, <1>27, <1>28, <1>29, <1>30, <1>31,
    <1>32, <1>33, <1>34, <1>35, <1>36, <1>37, <1>38, <1>39, <1>40,
    <1>41 DEF Next, MainStep, CopyStep

\* No resume log lists a file that is not at the destination, if nobody removes
\* files from it: whatever crashes, however the saves interleave.
THEOREM LogTheorem ==
  ASSUME "userTrash" \notin Faults
  PROVE  Spec => []LogNeverAhead
<1>1. Init => ThereInv /\ LogInv
  BY DEF Init, ThereInv, LogInv, LogsOnDrive
<1>2. BaseInv /\ ThereInv /\ LogInv /\ [Next]_vars => ThereInv' /\ LogInv'
  BY ThereStep, LogStep
<1>3. LogInv => LogNeverAhead
  BY DEF LogInv, LogNeverAhead, LoggedCopied
<1>. QED BY <1>1, <1>2, <1>3, BaseInvariant, PTL DEF Spec

\* The forced save writes the final state, and nothing follows it.
FinalInv ==
  /\ \A t \in Threads : snap[t] # None => Saving(t)
  /\ pc[Main] = "finalSave" /\ snap[Main] # None
       => snap[Main] = [target |-> own, log |-> Serialised]
  /\ FinalLogWins

\* Every step preserves it: no other save is under way during the last one.
LEMMA FinalStep == BaseInv /\ FinalInv /\ [Next]_vars => FinalInv'
<1> SUFFICES ASSUME BaseInv, FinalInv, [Next]_vars PROVE FinalInv'
  OBVIOUS
<1> USE ThreadAssumption, LogAssumption DEF BaseInv, TypeOK, ThreadInv, Busy,
    Threads, FinalInv, FinalLogWins, LogsOnDrive, Saving, Serialised,
        driveVars, configVars, levelVars, failVars, flagVars, byteVars,
            threadVars, Goto, Return, Raise, Begin, Fault, RecordFailed
<1>1. ASSUME NEW a \in Accounts, NEW d \in DryRuns, StartRun(a, d) PROVE FinalInv'
  BY <1>1 DEF StartRun
<1>2. CASE LoadResume
  BY <1>2 DEF LoadResume
<1>3. CASE LoadFails
  <2>1. phase' = "idle" /\ \A t \in Threads : pc'[t] = "idle" /\ snap'[t] = None
    BY <1>3, FreshTyped DEF LoadFails
  <2>2. Main \in Threads
    OBVIOUS
  <2>. QED BY <2>1, <2>2
<1>4. CASE ListSource
  BY <1>4 DEF ListSource
<1>5. CASE ListFails
  BY <1>5 DEF ListFails
<1>6. CASE ListQuota
  BY <1>6 DEF ListQuota
<1>7. CASE BuildIndex
  BY <1>7 DEF BuildIndex
<1>8. CASE IndexFails
  BY <1>8 DEF IndexFails
<1>9. ASSUME NEW f \in Files, SubmitFile(f) PROVE FinalInv'
  BY <1>9 DEF SubmitFile
<1>10. ASSUME NEW f \in Files, CopyInline(f) PROVE FinalInv'
  BY <1>10 DEF CopyInline
<1>11. ASSUME NEW f \in Files, ShortcutUnresolved(f) PROVE FinalInv'
  BY <1>11 DEF ShortcutUnresolved
<1>12. CASE EndLoop
  BY <1>12 DEF EndLoop
<1>13. CASE Drained
  BY <1>13 DEF Drained, Quiet
<1>14. CASE FinalSave
  BY <1>14 DEF FinalSave
<1>15. CASE CleanUp
  <2>1. phase' = "idle" /\ \A t \in Threads : pc'[t] = "idle" /\ snap'[t] = None
    BY <1>15, FreshTyped DEF CleanUp
  <2>2. Main \in Threads
    OBVIOUS
  <2>. QED BY <2>1, <2>2
<1>16. CASE ExportReport
  <2>1. phase' = "idle" /\ \A t \in Threads : pc'[t] = "idle" /\ snap'[t] = None
    BY <1>16, FreshTyped DEF ExportReport
  <2>2. Main \in Threads
    OBVIOUS
  <2>. QED BY <2>1, <2>2
<1>17. ASSUME NEW w \in Workers, NEW f \in Files, TakeJob(w, f) PROVE FinalInv'
  BY <1>17 DEF TakeJob
<1>18. ASSUME NEW t \in Threads, SeeStop(t) PROVE FinalInv'
  BY <1>18 DEF SeeStop
<1>19. ASSUME NEW t \in Threads, SkipConfirmed(t) PROVE FinalInv'
  BY <1>19 DEF SkipConfirmed
<1>20. ASSUME NEW t \in Threads, RecordExisting(t) PROVE FinalInv'
  BY <1>20 DEF RecordExisting
<1>21. ASSUME NEW t \in Threads, RejectOversize(t) PROVE FinalInv'
  BY <1>21 DEF RejectOversize, NotPresent
<1>22. ASSUME NEW t \in Threads, CountDryRun(t) PROVE FinalInv'
  BY <1>22 DEF CountDryRun, NotPresent
<1>23. ASSUME NEW t \in Threads, NeedsCopy(t) PROVE FinalInv'
  BY <1>23 DEF NeedsCopy, NotPresent
<1>24. ASSUME NEW t \in Threads, Reserve(t) PROVE FinalInv'
  BY <1>24 DEF Reserve
<1>25. ASSUME NEW t \in Threads, BudgetReached(t) PROVE FinalInv'
  BY <1>25 DEF BudgetReached
<1>26. ASSUME NEW t \in Threads, CopyLands(t) PROVE FinalInv'
  BY <1>26 DEF CopyLands
<1>27. ASSUME NEW t \in Threads, CopyRetried(t) PROVE FinalInv'
  BY <1>27 DEF CopyRetried
<1>28. ASSUME NEW t \in Threads, CopyFails(t) PROVE FinalInv'
  BY <1>28 DEF CopyFails
<1>29. ASSUME NEW t \in Threads, CopyRateLimited(t) PROVE FinalInv'
  BY <1>29 DEF CopyRateLimited
<1>30. ASSUME NEW t \in Threads, CopyQuota(t) PROVE FinalInv'
  BY <1>30 DEF CopyQuota
<1>31. ASSUME NEW t \in Threads, MarkCopied(t) PROVE FinalInv'
  BY <1>31 DEF MarkCopied
<1>32. ASSUME NEW t \in Threads, VerifyFails(t) PROVE FinalInv'
  BY <1>32 DEF VerifyFails
<1>33. ASSUME NEW t \in Threads, Flush(t) PROVE FinalInv'
  BY <1>33 DEF Flush
<1>34. ASSUME NEW t \in Threads, Reconcile(t) PROVE FinalInv'
  BY <1>34 DEF Reconcile
<1>35. ASSUME NEW t \in Threads, Serialize(t) PROVE FinalInv'
  BY <1>35 DEF Serialize, Serialised
<1>36. ASSUME NEW t \in Threads, WriteLog(t) PROVE FinalInv'
  <2>1. snap[t] \in Snap /\ Saving(t)
    BY <1>36 DEF WriteLog
  <2>2. /\ \A u \in Threads \ {t} : pc'[u] = pc[u] /\ snap'[u] = snap[u]
        /\ snap'[t] = None /\ pc'[t] # "finalSave"
    BY <1>36, <2>1, AfterSaveFrame DEF WriteLog
  <2>3. \A u \in Threads : snap'[u] # None => Saving(u)'
    BY <2>2 DEF Saving
  <2>4. Main \in Threads
    OBVIOUS
  <2>5. pc'[Main] # "finalSave"
    <3>1. CASE t = Main
      BY <2>2, <3>1
    <3>2. CASE t # Main
      <4>1. pc[Main] # "finalSave"
        BY <2>1, <3>2
      <4>. QED BY <2>2, <2>4, <3>2, <4>1
    <3>. QED BY <3>1, <3>2
  <2>6. CASE phase' # "finalize"
    BY <2>3, <2>5, <2>6
  <2>7. CASE phase' = "finalize"
    <3>1. pc[t] = "finalSave" /\ t = Main
      BY <1>36, <2>1, <2>7, AfterSaveFrame DEF WriteLog, Saving
    <3>2. snap[t].target = own /\ snap[t].log = Serialised
      BY <1>36, <3>1 DEF WriteLog
    <3>3. own' \in LogIds /\ logs'[own'] = Serialised /\ Serialised' = Serialised
      BY <1>36, <2>1, <3>2 DEF WriteLog, StoreSnap, KeepId, Serialised
    <3>4. Serialised \in Log
      BY <2>1, <3>2 DEF Snap
    <3>5. Serialised # None
      BY <3>4 DEF Log, Items
    <3>. QED BY <2>3, <2>5, <3>3, <3>5
  <2>. QED BY <2>6, <2>7
<1>37. ASSUME NEW t \in Threads, WriteLogFails(t) PROVE FinalInv'
  <2>1. snap[t] \in Snap /\ Saving(t) /\ saveFailed' = TRUE
    BY <1>37 DEF WriteLogFails
  <2>2. /\ \A u \in Threads \ {t} : pc'[u] = pc[u] /\ snap'[u] = snap[u]
        /\ snap'[t] = None /\ pc'[t] # "finalSave"
    BY <1>37, <2>1, AfterSaveFrame DEF WriteLogFails
  <2>3. \A u \in Threads : snap'[u] # None => Saving(u)'
    BY <2>2 DEF Saving
  <2>4. Main \in Threads
    OBVIOUS
  <2>5. pc'[Main] # "finalSave"
    <3>1. CASE t = Main
      BY <2>2, <3>1
    <3>2. CASE t # Main
      <4>1. pc[Main] # "finalSave"
        BY <2>1, <3>2
      <4>. QED BY <2>2, <2>4, <3>2, <4>1
    <3>. QED BY <3>1, <3>2
  <2>. QED BY <2>1, <2>3, <2>5
<1>38. CASE Signal
  BY <1>38 DEF Signal
<1>39. CASE Crash
  <2>1. phase' = "idle" /\ \A t \in Threads : pc'[t] = "idle" /\ snap'[t] = None
    BY <1>39, FreshTyped DEF Crash
  <2>2. Main \in Threads
    OBVIOUS
  <2>. QED BY <2>1, <2>2
<1>40. ASSUME NEW f \in Files, UserTrash(f) PROVE FinalInv'
  BY <1>40 DEF UserTrash
<1>41. CASE UNCHANGED vars
  BY <1>41 DEF vars
<1>. QED BY <1>1, <1>2, <1>3, <1>4, <1>5, <1>6, <1>7, <1>8, <1>9, <1>10, <1>11,
    <1>12, <1>13, <1>14, <1>15, <1>16, <1>17, <1>18, <1>19, <1>20, <1>21,
    <1>22, <1>23, <1>24, <1>25, <1>26, <1>27, <1>28, <1>29, <1>30, <1>31,
    <1>32, <1>33, <1>34, <1>35, <1>36, <1>37, <1>38, <1>39, <1>40,
    <1>41 DEF Next, MainStep, CopyStep

\* The last save of a run is the last word about it.
THEOREM FinalLogTheorem == Spec => []FinalLogWins
<1>1. Init => FinalInv
  BY ThreadAssumption DEF Init, FinalInv, FinalLogWins, Threads
<1>2. BaseInv /\ FinalInv /\ [Next]_vars => FinalInv'
  BY FinalStep
<1>3. FinalInv => FinalLogWins
  BY DEF FinalInv
<1>. QED BY <1>1, <1>2, <1>3, BaseInvariant, PTL DEF Spec

\* A dry run never gets to a step that writes.
DryInv == dry => /\ phase \notin {"idle", "save"}
                 /\ \A t \in Threads : pc[t] \in {"idle", "start", "flush",
                     "reconcile"}


\* Every step preserves it.
LEMMA DryStep == BaseInv /\ DryInv /\ [Next]_vars => DryInv'
<1> SUFFICES ASSUME BaseInv, DryInv, [Next]_vars PROVE DryInv'
  OBVIOUS
<1> USE ThreadAssumption DEF BaseInv, TypeOK, ThreadInv, Busy, Threads, DryInv,
        driveVars, configVars, levelVars, failVars, flagVars, byteVars,
            threadVars, Goto, Return, Raise, Begin, Fault, RecordFailed
<1>1. ASSUME NEW a \in Accounts, NEW d \in DryRuns, StartRun(a, d) PROVE DryInv'
  BY <1>1 DEF StartRun
<1>2. CASE LoadResume
  BY <1>2 DEF LoadResume
<1>3. CASE LoadFails
  BY <1>3, FreshTyped DEF LoadFails
<1>4. CASE ListSource
  BY <1>4 DEF ListSource
<1>5. CASE ListFails
  BY <1>5 DEF ListFails
<1>6. CASE ListQuota
  BY <1>6 DEF ListQuota
<1>7. CASE BuildIndex
  BY <1>7 DEF BuildIndex
<1>8. CASE IndexFails
  BY <1>8 DEF IndexFails
<1>9. ASSUME NEW f \in Files, SubmitFile(f) PROVE DryInv'
  BY <1>9 DEF SubmitFile
<1>10. ASSUME NEW f \in Files, CopyInline(f) PROVE DryInv'
  BY <1>10 DEF CopyInline
<1>11. ASSUME NEW f \in Files, ShortcutUnresolved(f) PROVE DryInv'
  BY <1>11 DEF ShortcutUnresolved
<1>12. CASE EndLoop
  BY <1>12 DEF EndLoop
<1>13. CASE Drained
  BY <1>13 DEF Drained, Quiet
<1>14. CASE FinalSave
  BY <1>14 DEF FinalSave
<1>15. CASE CleanUp
  BY <1>15, FreshTyped DEF CleanUp
<1>16. CASE ExportReport
  BY <1>16, FreshTyped DEF ExportReport
<1>17. ASSUME NEW w \in Workers, NEW f \in Files, TakeJob(w, f) PROVE DryInv'
  BY <1>17 DEF TakeJob
<1>18. ASSUME NEW t \in Threads, SeeStop(t) PROVE DryInv'
  BY <1>18 DEF SeeStop
<1>19. ASSUME NEW t \in Threads, SkipConfirmed(t) PROVE DryInv'
  BY <1>19 DEF SkipConfirmed
<1>20. ASSUME NEW t \in Threads, RecordExisting(t) PROVE DryInv'
  BY <1>20 DEF RecordExisting
<1>21. ASSUME NEW t \in Threads, RejectOversize(t) PROVE DryInv'
  BY <1>21 DEF RejectOversize, NotPresent
<1>22. ASSUME NEW t \in Threads, CountDryRun(t) PROVE DryInv'
  BY <1>22 DEF CountDryRun, NotPresent
<1>23. ASSUME NEW t \in Threads, NeedsCopy(t) PROVE DryInv'
  BY <1>23 DEF NeedsCopy, NotPresent
<1>24. ASSUME NEW t \in Threads, Reserve(t) PROVE DryInv'
  BY <1>24 DEF Reserve
<1>25. ASSUME NEW t \in Threads, BudgetReached(t) PROVE DryInv'
  BY <1>25 DEF BudgetReached
<1>26. ASSUME NEW t \in Threads, CopyLands(t) PROVE DryInv'
  BY <1>26 DEF CopyLands
<1>27. ASSUME NEW t \in Threads, CopyRetried(t) PROVE DryInv'
  BY <1>27 DEF CopyRetried
<1>28. ASSUME NEW t \in Threads, CopyFails(t) PROVE DryInv'
  BY <1>28 DEF CopyFails
<1>29. ASSUME NEW t \in Threads, CopyRateLimited(t) PROVE DryInv'
  BY <1>29 DEF CopyRateLimited
<1>30. ASSUME NEW t \in Threads, CopyQuota(t) PROVE DryInv'
  BY <1>30 DEF CopyQuota
<1>31. ASSUME NEW t \in Threads, MarkCopied(t) PROVE DryInv'
  BY <1>31 DEF MarkCopied
<1>32. ASSUME NEW t \in Threads, VerifyFails(t) PROVE DryInv'
  BY <1>32 DEF VerifyFails
<1>33. ASSUME NEW t \in Threads, Flush(t) PROVE DryInv'
  BY <1>33 DEF Flush, FlushDue
<1>34. ASSUME NEW t \in Threads, Reconcile(t) PROVE DryInv'
  BY <1>34 DEF Reconcile
<1>35. ASSUME NEW t \in Threads, Serialize(t) PROVE DryInv'
  BY <1>35 DEF Serialize, Saving
<1>36. ASSUME NEW t \in Threads, WriteLog(t) PROVE DryInv'
  BY <1>36, AfterSaveFrame DEF WriteLog, Saving
<1>37. ASSUME NEW t \in Threads, WriteLogFails(t) PROVE DryInv'
  BY <1>37, AfterSaveFrame DEF WriteLogFails, Saving
<1>38. CASE Signal
  BY <1>38 DEF Signal
<1>39. CASE Crash
  BY <1>39, FreshTyped DEF Crash
<1>40. ASSUME NEW f \in Files, UserTrash(f) PROVE DryInv'
  BY <1>40 DEF UserTrash
<1>41. CASE UNCHANGED vars
  BY <1>41 DEF vars
<1>. QED BY <1>1, <1>2, <1>3, <1>4, <1>5, <1>6, <1>7, <1>8, <1>9, <1>10, <1>11,
    <1>12, <1>13, <1>14, <1>15, <1>16, <1>17, <1>18, <1>19, <1>20, <1>21,
    <1>22, <1>23, <1>24, <1>25, <1>26, <1>27, <1>28, <1>29, <1>30, <1>31,
    <1>32, <1>33, <1>34, <1>35, <1>36, <1>37, <1>38, <1>39, <1>40,
    <1>41 DEF Next, MainStep, CopyStep

\* In such a state no step writes.
LEMMA DryQuiet == BaseInv /\ DryInv /\ [Next]_vars => [dry => UNCHANGED driveVars]_vars
<1> SUFFICES ASSUME BaseInv, DryInv, [Next]_vars, dry PROVE UNCHANGED driveVars
  OBVIOUS
<1> USE DEF BaseInv, TypeOK, DryInv, driveVars, Fault
<1>1. ASSUME NEW a \in Accounts, NEW d \in DryRuns, StartRun(a,
    d) PROVE UNCHANGED driveVars
  BY <1>1 DEF StartRun
<1>2. CASE LoadResume
  BY <1>2 DEF LoadResume
<1>3. CASE LoadFails
  BY <1>3 DEF LoadFails
<1>4. CASE ListSource
  BY <1>4 DEF ListSource
<1>5. CASE ListFails
  BY <1>5 DEF ListFails
<1>6. CASE ListQuota
  BY <1>6 DEF ListQuota
<1>7. CASE BuildIndex
  BY <1>7 DEF BuildIndex
<1>8. CASE IndexFails
  BY <1>8 DEF IndexFails
<1>9. ASSUME NEW f \in Files, SubmitFile(f) PROVE UNCHANGED driveVars
  BY <1>9 DEF SubmitFile
<1>10. ASSUME NEW f \in Files, CopyInline(f) PROVE UNCHANGED driveVars
  BY <1>10 DEF CopyInline
<1>11. ASSUME NEW f \in Files, ShortcutUnresolved(f) PROVE UNCHANGED driveVars
  BY <1>11 DEF ShortcutUnresolved
<1>12. CASE EndLoop
  BY <1>12 DEF EndLoop
<1>13. CASE Drained
  BY <1>13 DEF Drained
<1>14. CASE FinalSave
  BY <1>14 DEF FinalSave
<1>15. CASE CleanUp
  BY <1>15 DEF CleanUp, FullyOk
<1>16. CASE ExportReport
  BY <1>16 DEF ExportReport
<1>17. ASSUME NEW w \in Workers, NEW f \in Files, TakeJob(w,
    f) PROVE UNCHANGED driveVars
  BY <1>17 DEF TakeJob
<1>18. ASSUME NEW t \in Threads, SeeStop(t) PROVE UNCHANGED driveVars
  BY <1>18 DEF SeeStop
<1>19. ASSUME NEW t \in Threads, SkipConfirmed(t) PROVE UNCHANGED driveVars
  BY <1>19 DEF SkipConfirmed
<1>20. ASSUME NEW t \in Threads, RecordExisting(t) PROVE UNCHANGED driveVars
  BY <1>20 DEF RecordExisting
<1>21. ASSUME NEW t \in Threads, RejectOversize(t) PROVE UNCHANGED driveVars
  BY <1>21 DEF RejectOversize, NotPresent
<1>22. ASSUME NEW t \in Threads, CountDryRun(t) PROVE UNCHANGED driveVars
  BY <1>22 DEF CountDryRun, NotPresent
<1>23. ASSUME NEW t \in Threads, NeedsCopy(t) PROVE UNCHANGED driveVars
  BY <1>23 DEF NeedsCopy, NotPresent
<1>24. ASSUME NEW t \in Threads, Reserve(t) PROVE UNCHANGED driveVars
  BY <1>24 DEF Reserve
<1>25. ASSUME NEW t \in Threads, BudgetReached(t) PROVE UNCHANGED driveVars
  BY <1>25 DEF BudgetReached
<1>26. ASSUME NEW t \in Threads, CopyLands(t) PROVE UNCHANGED driveVars
  BY <1>26 DEF CopyLands
<1>27. ASSUME NEW t \in Threads, CopyRetried(t) PROVE UNCHANGED driveVars
  BY <1>27 DEF CopyRetried
<1>28. ASSUME NEW t \in Threads, CopyFails(t) PROVE UNCHANGED driveVars
  BY <1>28 DEF CopyFails
<1>29. ASSUME NEW t \in Threads, CopyRateLimited(t) PROVE UNCHANGED driveVars
  BY <1>29 DEF CopyRateLimited
<1>30. ASSUME NEW t \in Threads, CopyQuota(t) PROVE UNCHANGED driveVars
  BY <1>30 DEF CopyQuota
<1>31. ASSUME NEW t \in Threads, MarkCopied(t) PROVE UNCHANGED driveVars
  BY <1>31 DEF MarkCopied
<1>32. ASSUME NEW t \in Threads, VerifyFails(t) PROVE UNCHANGED driveVars
  BY <1>32 DEF VerifyFails
<1>33. ASSUME NEW t \in Threads, Flush(t) PROVE UNCHANGED driveVars
  BY <1>33 DEF Flush
<1>34. ASSUME NEW t \in Threads, Reconcile(t) PROVE UNCHANGED driveVars
  BY <1>34 DEF Reconcile
<1>35. ASSUME NEW t \in Threads, Serialize(t) PROVE UNCHANGED driveVars
  BY <1>35 DEF Serialize
<1>36. ASSUME NEW t \in Threads, WriteLog(t) PROVE UNCHANGED driveVars
  BY <1>36 DEF WriteLog, Saving
<1>37. ASSUME NEW t \in Threads, WriteLogFails(t) PROVE UNCHANGED driveVars
  BY <1>37 DEF WriteLogFails, Saving
<1>38. CASE Signal
  BY <1>38 DEF Signal
<1>39. CASE Crash
  BY <1>39 DEF Crash
<1>40. ASSUME NEW f \in Files, UserTrash(f) PROVE UNCHANGED driveVars
  BY <1>40 DEF UserTrash
<1>41. CASE UNCHANGED vars
  BY <1>41 DEF vars
<1>. QED BY <1>1, <1>2, <1>3, <1>4, <1>5, <1>6, <1>7, <1>8, <1>9, <1>10, <1>11,
    <1>12, <1>13, <1>14, <1>15, <1>16, <1>17, <1>18, <1>19, <1>20, <1>21,
    <1>22, <1>23, <1>24, <1>25, <1>26, <1>27, <1>28, <1>29, <1>30, <1>31,
    <1>32, <1>33, <1>34, <1>35, <1>36, <1>37, <1>38, <1>39, <1>40,
    <1>41 DEF Next, MainStep, CopyStep

\* A dry run writes nothing to Drive, in any state and with any faults.
THEOREM DryRunTheorem == Spec => DryRunWritesNothing
<1>1. Init => DryInv
  BY DEF Init, DryInv
<1>2. BaseInv /\ DryInv /\ [Next]_vars => DryInv'
  BY DryStep
<1>3. BaseInv /\ DryInv /\ [Next]_vars => [dry => UNCHANGED driveVars]_vars
  BY DryQuiet
<1>. QED BY <1>1, <1>2, <1>3, BaseInvariant, PTL DEF Spec, DryRunWritesNothing

-----------------------------------------------------------------------------
(* How far the circuit breaker overshoots, and the ledger of the bytes     *)

\* Threads past the check of _stop whose copy is not decided yet.
InFlight == {t \in Threads : pc[t] \in {"reserve", "copy"}}

\* Until the stop the streak is below the threshold.  From then on no thread
\* gets past the check, so that each further failure uses up one in flight.
BreakerInv ==
  IF stop THEN consec + Cardinality(InFlight) < RateThreshold + Cardinality(Threads)
          ELSE consec < RateThreshold

\* There are finitely many threads, and so of those in flight.
LEMMA FiniteThreads ==
  /\ IsFiniteSet(Threads) /\ Cardinality(Threads) \in Nat
  /\ \A S \in SUBSET Threads :
       IsFiniteSet(S) /\ Cardinality(S) \in Nat /\ Cardinality(S) <= Cardinality(Threads)
<1>1. IsFiniteSet(Threads)
  BY PoolAssumption, FS_AddElement DEF Threads
<1>. QED BY <1>1, FS_Subset, FS_CardinalityType

\* The invariant bounds the overshoot.
LEMMA BreakerBounds == BaseInv /\ BreakerInv => BreakerBounded
<1> SUFFICES ASSUME BaseInv, BreakerInv PROVE BreakerBounded
  OBVIOUS
<1>1. InFlight \in SUBSET Threads
  BY DEF InFlight
<1>2. Cardinality(InFlight) \in Nat /\ Cardinality(Threads) \in Nat
  BY <1>1, FiniteThreads
<1>. QED BY <1>2, LimitAssumption DEF BreakerInv, BreakerBounded, BaseInv, TypeOK

\* What every step but a rate-limit failure does to the streak and the stop.
Calm == /\ consec' \in {0, consec}
        /\ stop /\ ~stop' => consec' = 0
        /\ stop /\ stop' => InFlight' \subseteq InFlight

\* Such a step keeps the invariant.
LEMMA CalmKeeps ==
  ASSUME BaseInv, BaseInv', BreakerInv, Calm
  PROVE  BreakerInv'
<1>1. InFlight \in SUBSET Threads /\ InFlight' \in SUBSET Threads
  BY DEF InFlight
<1>2. /\ Cardinality(InFlight) \in Nat /\ Cardinality(InFlight') \in Nat
      /\ Cardinality(InFlight') <= Cardinality(Threads) /\ Cardinality(Threads) \in Nat
      /\ IsFiniteSet(InFlight)
  BY <1>1, FiniteThreads
<1>3. consec \in Nat /\ consec' \in Nat /\ consec' <= consec /\ RateThreshold \in Nat \ {0}
  BY LimitAssumption DEF Calm, BaseInv, TypeOK
<1>4. CASE ~stop'
  BY <1>3, <1>4 DEF BreakerInv, Calm
<1>5. CASE stop' /\ ~stop
  BY <1>2, <1>3, <1>5 DEF BreakerInv
<1>6. CASE stop' /\ stop
  <2>1. InFlight' \subseteq InFlight
    BY <1>6 DEF Calm
  <2>2. Cardinality(InFlight') <= Cardinality(InFlight)
    BY <2>1, <1>2, FS_Subset
  <2>. QED BY <2>2, <1>2, <1>3, <1>6 DEF BreakerInv
<1>. QED BY <1>4, <1>5, <1>6 DEF BaseInv, TypeOK

\* A rate-limit failure takes its thread out of flight.
LEMMA RateLimitKeeps ==
  ASSUME BaseInv, BaseInv', BreakerInv, NEW t \in Threads, CopyRateLimited(t)
  PROVE  BreakerInv'
<1>1. /\ t \in InFlight /\ InFlight' = InFlight \ {t}
  BY DEF InFlight, CopyRateLimited, Return, Goto, BaseInv, TypeOK, Pcs
<1>2. InFlight \in SUBSET Threads
  BY DEF InFlight
<1>3. /\ Cardinality(InFlight) \in Nat /\ Cardinality(Threads) \in Nat
      /\ Cardinality(InFlight) <= Cardinality(Threads) /\ IsFiniteSet(InFlight)
  BY <1>2, FiniteThreads
<1>4. Cardinality(InFlight') = Cardinality(InFlight) - 1
  BY <1>1, <1>3, FS_RemoveElement
<1>5. consec \in Nat /\ consec' = consec + 1 /\ RateThreshold \in Nat \ {0}
  BY LimitAssumption DEF CopyRateLimited, BaseInv, TypeOK
<1>6. CASE stop
  <2>1. stop'
    BY <1>6 DEF CopyRateLimited
  <2>. QED BY <2>1, <1>3, <1>4, <1>5, <1>6 DEF BreakerInv
<1>7. CASE ~stop /\ Tripped
  <2>1. stop' /\ consec < RateThreshold
    BY <1>7 DEF CopyRateLimited, BreakerInv
  <2>. QED BY <2>1, <1>3, <1>4, <1>5 DEF BreakerInv
<1>8. CASE ~stop /\ ~Tripped
  <2>1. ~stop' /\ consec' < RateThreshold
    BY <1>5, <1>8 DEF CopyRateLimited, Tripped
  <2>. QED BY <2>1 DEF BreakerInv
<1>. QED BY <1>6, <1>7, <1>8

\* Every other step is calm.
LEMMA OthersCalm ==
  BaseInv /\ [Next]_vars => Calm \/ \E t \in Threads : CopyRateLimited(t)
<1> SUFFICES ASSUME BaseInv, [Next]_vars, \A t \in Threads : ~CopyRateLimited(t)
             PROVE  Calm
  OBVIOUS
<1> USE DEF BaseInv, TypeOK, Pcs, Calm, InFlight,
        driveVars, configVars, levelVars, failVars, flagVars, byteVars,
            threadVars, Goto, Return, Raise, Begin, Fault, RecordFailed
<1>0. EndRun => Calm
  BY DEF EndRun, FreshCopier
<1>1. ASSUME NEW a \in Accounts, NEW d \in DryRuns, StartRun(a, d) PROVE Calm
  BY <1>1 DEF StartRun
<1>2. CASE LoadResume
  BY <1>2 DEF LoadResume
<1>3. CASE LoadFails
  BY <1>3, <1>0 DEF LoadFails
<1>4. CASE ListSource
  BY <1>4 DEF ListSource
<1>5. CASE ListFails
  BY <1>5 DEF ListFails
<1>6. CASE ListQuota
  BY <1>6 DEF ListQuota
<1>7. CASE BuildIndex
  BY <1>7 DEF BuildIndex
<1>8. CASE IndexFails
  BY <1>8 DEF IndexFails
<1>9. ASSUME NEW f \in Files, SubmitFile(f) PROVE Calm
  BY <1>9 DEF SubmitFile
<1>10. ASSUME NEW f \in Files, CopyInline(f) PROVE Calm
  BY <1>10 DEF CopyInline
<1>11. ASSUME NEW f \in Files, ShortcutUnresolved(f) PROVE Calm
  BY <1>11 DEF ShortcutUnresolved
<1>12. CASE EndLoop
  BY <1>12 DEF EndLoop
<1>13. CASE Drained
  BY <1>13 DEF Drained
<1>14. CASE FinalSave
  BY <1>14 DEF FinalSave
<1>15. CASE CleanUp
  BY <1>15, <1>0 DEF CleanUp
<1>16. CASE ExportReport
  BY <1>16, <1>0 DEF ExportReport
<1>17. ASSUME NEW w \in Workers, NEW f \in Files, TakeJob(w, f) PROVE Calm
  BY <1>17 DEF TakeJob
<1>18. ASSUME NEW t \in Threads, SeeStop(t) PROVE Calm
  BY <1>18 DEF SeeStop
<1>19. ASSUME NEW t \in Threads, SkipConfirmed(t) PROVE Calm
  BY <1>19 DEF SkipConfirmed
<1>20. ASSUME NEW t \in Threads, RecordExisting(t) PROVE Calm
  BY <1>20 DEF RecordExisting
<1>21. ASSUME NEW t \in Threads, RejectOversize(t) PROVE Calm
  BY <1>21 DEF RejectOversize, NotPresent
<1>22. ASSUME NEW t \in Threads, CountDryRun(t) PROVE Calm
  BY <1>22 DEF CountDryRun, NotPresent
<1>23. ASSUME NEW t \in Threads, NeedsCopy(t) PROVE Calm
  BY <1>23 DEF NeedsCopy, NotPresent
<1>24. ASSUME NEW t \in Threads, Reserve(t) PROVE Calm
  BY <1>24 DEF Reserve
<1>25. ASSUME NEW t \in Threads, BudgetReached(t) PROVE Calm
  BY <1>25 DEF BudgetReached
<1>26. ASSUME NEW t \in Threads, CopyLands(t) PROVE Calm
  BY <1>26 DEF CopyLands
<1>27. ASSUME NEW t \in Threads, CopyRetried(t) PROVE Calm
  BY <1>27 DEF CopyRetried
<1>28. ASSUME NEW t \in Threads, CopyFails(t) PROVE Calm
  BY <1>28 DEF CopyFails
<1>30. ASSUME NEW t \in Threads, CopyQuota(t) PROVE Calm
  BY <1>30 DEF CopyQuota
<1>31. ASSUME NEW t \in Threads, MarkCopied(t) PROVE Calm
  BY <1>31 DEF MarkCopied
<1>32. ASSUME NEW t \in Threads, VerifyFails(t) PROVE Calm
  BY <1>32 DEF VerifyFails
<1>33. ASSUME NEW t \in Threads, Flush(t) PROVE Calm
  BY <1>33 DEF Flush
<1>34. ASSUME NEW t \in Threads, Reconcile(t) PROVE Calm
  BY <1>34 DEF Reconcile
<1>35. ASSUME NEW t \in Threads, Serialize(t) PROVE Calm
  BY <1>35 DEF Serialize
<1>36. ASSUME NEW t \in Threads, WriteLog(t) PROVE Calm
  BY <1>36, AfterSaveFrame DEF WriteLog
<1>37. ASSUME NEW t \in Threads, WriteLogFails(t) PROVE Calm
  BY <1>37, AfterSaveFrame DEF WriteLogFails
<1>38. CASE Signal
  BY <1>38 DEF Signal
<1>39. CASE Crash
  BY <1>39, <1>0 DEF Crash
<1>40. ASSUME NEW f \in Files, UserTrash(f) PROVE Calm
  BY <1>40 DEF UserTrash
<1>41. CASE UNCHANGED vars
  BY <1>41 DEF vars
<1>. QED BY <1>1, <1>2, <1>3, <1>4, <1>5, <1>6, <1>7, <1>8, <1>9, <1>10, <1>11,
    <1>12, <1>13, <1>14, <1>15, <1>16, <1>17, <1>18, <1>19, <1>20, <1>21, <1>22,
    <1>23, <1>24, <1>25, <1>26, <1>27, <1>28, <1>30, <1>31, <1>32, <1>33, <1>34,
    <1>35, <1>36, <1>37, <1>38, <1>39, <1>40, <1>41 DEF Next, MainStep, CopyStep

\* However many copies fail on rate limits at the same time, the streak passes
\* the threshold by less than the number of threads.
THEOREM BreakerTheorem == Spec => []BreakerBounded
<1>1. Init => BreakerInv
  BY LimitAssumption DEF Init, BreakerInv
<1>2. BaseInv /\ BaseInv' /\ BreakerInv /\ [Next]_vars => BreakerInv'
  BY OthersCalm, CalmKeeps, RateLimitKeeps
<1>3. BaseInv /\ BreakerInv => BreakerBounded
  BY BreakerBounds
<1>. QED BY <1>1, <1>2, <1>3, BaseInvariant, PTL DEF Spec

-----------------------------------------------------------------------------
(* The size guard's ledger                                                 *)

\* The ledger is exact, and so many bytes can be counted.
BytesInv == IsFiniteSet(BytesInTransfer) /\ BytesAccounted

\* The bytes of a transfer are as many as its file has.
LEMMA BytesOfOne ==
  ASSUME NEW t, file[t] \in Files
  PROVE  /\ Size[file[t]] \in Nat
         /\ IsFiniteSet(BytesOf(t)) /\ Cardinality(BytesOf(t)) = Size[file[t]]
<1>2. Size[file[t]] \in Nat
  BY SizeAssumption
<1>3. IsFiniteSet({t}) /\ Cardinality({t}) = 1
  BY FS_Singleton
<1>4. /\ IsFiniteSet(1..Size[file[t]])
      /\ Cardinality(1..Size[file[t]]) = Size[file[t]]
  <2>1. ASSUME NEW n \in Nat PROVE IsFiniteSet(1..n) /\ Cardinality(1..n) = n
    <3>1. /\ IsFiniteSet(1..n)
          /\ Cardinality(1..n) = IF 1 > n THEN 0 ELSE n - 1 + 1
      BY FS_Interval
    <3>. QED BY <3>1
  <2>. QED BY <1>2, <2>1
<1>5. /\ IsFiniteSet(BytesOf(t))
      /\ Cardinality(BytesOf(t)) = 1 * Size[file[t]]
  BY <1>3, <1>4, FS_Product DEF BytesOf
<1>. QED BY <1>2, <1>5

\* Steps that begin and end no transfer and leave the ledger alone.
Still == /\ InTransfer' = InTransfer
         /\ \A t \in InTransfer : file'[t] = file[t]
         /\ UNCHANGED byteVars

LEMMA StillKeeps ==
  ASSUME BytesInv, Still
  PROVE  BytesInv'
<1>1. \A t \in InTransfer : BytesOf(t)' = BytesOf(t)
  BY DEF Still, BytesOf
<1>2. BytesInTransfer' = BytesInTransfer
  BY <1>1 DEF Still, BytesInTransfer
<1>. QED BY <1>2 DEF BytesInv, BytesAccounted, Still, byteVars

\* Thread t begins a transfer, and only t.
Starts(t) == /\ t \notin InTransfer /\ InTransfer' = InTransfer \union {t}
             /\ \A u \in InTransfer' : file'[u] = file[u]

\* Thread t ends its transfer, whatever file it has afterwards.
Ends(t) == /\ t \in InTransfer /\ InTransfer' = InTransfer \ {t}
           /\ \A u \in InTransfer' : file'[u] = file[u]

\* The bytes of a transfer that begins are added to the others.
LEMMA StartAdds ==
  ASSUME IsFiniteSet(BytesInTransfer), NEW t \in Threads, Starts(t), file[t] \in Files
  PROVE  /\ IsFiniteSet(BytesInTransfer')
         /\ Cardinality(BytesInTransfer') = Cardinality(BytesInTransfer) + Size[file[t]]
<1>1. \A u \in InTransfer' : BytesOf(u)' = BytesOf(u)
  BY DEF Starts, BytesOf
<1>2. BytesInTransfer' = BytesInTransfer \union BytesOf(t)
  BY <1>1 DEF Starts, BytesInTransfer
<1>3. BytesInTransfer \intersect BytesOf(t) = {}
  BY DEF Starts, BytesInTransfer, BytesOf
<1>4. /\ Size[file[t]] \in Nat
      /\ IsFiniteSet(BytesOf(t)) /\ Cardinality(BytesOf(t)) = Size[file[t]]
  BY BytesOfOne
<1>5. /\ Cardinality(BytesInTransfer \intersect BytesOf(t)) = 0
      /\ Cardinality(BytesInTransfer) \in Nat
  BY <1>3, FS_EmptySet, FS_CardinalityType
<1>6. /\ IsFiniteSet(BytesInTransfer \union BytesOf(t))
      /\ Cardinality(BytesInTransfer \union BytesOf(t)) =
           Cardinality(BytesInTransfer) + Cardinality(BytesOf(t))
             - Cardinality(BytesInTransfer \intersect BytesOf(t))
  BY <1>4, FS_Union
<1>. QED BY <1>2, <1>4, <1>5, <1>6

\* The bytes of a transfer that ends are taken from the others.
LEMMA EndRemoves ==
  ASSUME BaseInv, IsFiniteSet(BytesInTransfer), NEW t \in Threads, Ends(t)
  PROVE  /\ IsFiniteSet(BytesInTransfer') /\ Size[file[t]] \in Nat
         /\ Cardinality(BytesInTransfer) \in Nat
         /\ Cardinality(BytesInTransfer') = Cardinality(BytesInTransfer) - Size[file[t]]
<1>1. \A u \in InTransfer' : BytesOf(u)' = BytesOf(u)
  BY DEF Ends, BytesOf
<1>2. BytesInTransfer' = UNION {BytesOf(u) : u \in InTransfer'}
  BY <1>1 DEF BytesInTransfer
<1>3. BytesInTransfer = BytesInTransfer' \union BytesOf(t)
  BY <1>2 DEF Ends, BytesInTransfer
<1>4. BytesInTransfer' \intersect BytesOf(t) = {}
  BY <1>2 DEF Ends, BytesOf
<1>5. BytesInTransfer' = BytesInTransfer \ BytesOf(t)
  BY <1>3, <1>4
<1>6. BytesInTransfer \intersect BytesOf(t) = BytesOf(t)
  BY <1>3
<1>7. /\ Size[file[t]] \in Nat
      /\ IsFiniteSet(BytesOf(t)) /\ Cardinality(BytesOf(t)) = Size[file[t]]
  <2>1. file[t] \in Files
    BY DEF Ends, BaseInv, ThreadInv, Busy, InTransfer
  <2>. QED BY <2>1, BytesOfOne
<1>8. Cardinality(BytesInTransfer) \in Nat
  BY FS_CardinalityType
<1>9. /\ IsFiniteSet(BytesInTransfer \ BytesOf(t))
      /\ Cardinality(BytesInTransfer \ BytesOf(t)) =
           Cardinality(BytesInTransfer) - Cardinality(BytesInTransfer \intersect BytesOf(t))
  BY FS_Difference
<1>. QED BY <1>5, <1>6, <1>7, <1>8, <1>9

\* A reservation enters the ledger when its transfer begins.
LEMMA ReserveKeeps ==
  ASSUME BaseInv, BytesInv, NEW t \in Threads, Reserve(t)
  PROVE  BytesInv'
<1>1. Starts(t)
  BY DEF Starts, InTransfer, Reserve, Goto, BaseInv, TypeOK
<1>2. file[t] \in Files
  BY DEF Reserve, BaseInv, ThreadInv, Busy
<1>3. /\ runBytes \in Int /\ resBytes \in Nat /\ Size[file[t]] \in Nat /\ Budget \in Nat
      /\ Cardinality(BytesInTransfer) \in Nat
  BY <1>2, SizeAssumption, LimitAssumption, FS_CardinalityType
     DEF BaseInv, TypeOK, BytesInv
<1>4. /\ runBytes' = runBytes + Size[file[t]] /\ resBytes' = resBytes
      /\ ~(Budget > 0 /\ runBytes + Size[file[t]] > Budget)
  BY DEF Reserve, OverBudget
<1>. QED BY <1>1, <1>2, <1>3, <1>4, StartAdds DEF BytesInv, BytesAccounted

\* A failure gives the reservation back.
LEMMA ReleaseKeeps ==
  ASSUME BaseInv, BytesInv, NEW t \in Threads, Ends(t), Release(file[t]),
         resBytes' = resBytes
  PROVE  BytesInv'
<1>1. runBytes \in Int /\ resBytes \in Nat /\ Budget \in Nat
  BY LimitAssumption DEF BaseInv, TypeOK
<1>. QED BY <1>1, EndRemoves DEF BytesInv, BytesAccounted, Release

\* A success turns the reservation into copied bytes.
LEMMA MarkKeeps ==
  ASSUME BaseInv, BytesInv, NEW t \in Threads, MarkCopied(t)
  PROVE  BytesInv'
<1>1. Ends(t)
  BY DEF Ends, InTransfer, MarkCopied, Goto, BaseInv, TypeOK
<1>2. runBytes \in Int /\ resBytes \in Nat
  BY DEF BaseInv, TypeOK
<1>3. runBytes' = runBytes /\ resBytes' = resBytes + Size[file[t]]
  BY DEF MarkCopied
<1>. QED BY <1>1, <1>2, <1>3, EndRemoves DEF BytesInv, BytesAccounted

\* A run that is over leaves an empty ledger.
LEMMA EmptyLedger ==
  ASSUME EndRun
  PROVE  BytesInv'
<1>1. BytesInTransfer' = {}
  BY DEF EndRun, FreshCopier, BytesInTransfer, InTransfer
<1>2. runBytes' = 0 /\ resBytes' = 0
  BY DEF EndRun, FreshCopier
<1>. QED BY <1>1, <1>2, FS_EmptySet, LimitAssumption DEF BytesInv, BytesAccounted

\* The steps that give a reservation back, or end the run.
Fails(t) == CopyFails(t) \/ CopyRateLimited(t) \/ CopyQuota(t) \/ VerifyFails(t)
Stops == LoadFails \/ CleanUp \/ ExportReport \/ Crash

LEMMA FailsKeeps ==
  ASSUME BaseInv, BytesInv, NEW t \in Threads, Fails(t)
  PROVE  BytesInv'
<1>1. Ends(t)
  BY DEF Ends, InTransfer, Fails, CopyFails, CopyRateLimited, CopyQuota, VerifyFails,
         Goto, Return, BaseInv, TypeOK
<1>2. Release(file[t]) /\ resBytes' = resBytes
  BY DEF Fails, CopyFails, CopyRateLimited, CopyQuota, VerifyFails
<1>. QED BY <1>1, <1>2, ReleaseKeeps

\* Every other step neither begins nor ends a transfer.
LEMMA OthersStill ==
  BaseInv /\ [Next]_vars =>
    Still \/ Stops \/ \E t \in Threads : Reserve(t) \/ MarkCopied(t) \/ Fails(t)
<1> SUFFICES ASSUME BaseInv, [Next]_vars, ~Stops,
                    \A t \in Threads : ~(Reserve(t) \/ MarkCopied(t) \/ Fails(t))
             PROVE  Still
  OBVIOUS
<1> USE DEF BaseInv, TypeOK, ThreadInv, Busy, Pcs, Saving, Still, InTransfer,
        driveVars, configVars, levelVars, failVars, flagVars, byteVars,
        threadVars, Goto, Return, Raise, Begin, Fault, RecordFailed
<1>1. ASSUME NEW a \in Accounts, NEW d \in DryRuns, StartRun(a, d) PROVE Still
  BY <1>1 DEF StartRun
<1>2. CASE LoadResume
  BY <1>2 DEF LoadResume
<1>3. CASE ListSource
  BY <1>3 DEF ListSource
<1>4. CASE ListFails
  BY <1>4 DEF ListFails
<1>5. CASE ListQuota
  BY <1>5 DEF ListQuota
<1>6. CASE BuildIndex
  BY <1>6 DEF BuildIndex
<1>7. CASE IndexFails
  BY <1>7 DEF IndexFails
<1>8. ASSUME NEW f \in Files, SubmitFile(f) PROVE Still
  BY <1>8 DEF SubmitFile
<1>9. ASSUME NEW f \in Files, CopyInline(f) PROVE Still
  BY <1>9 DEF CopyInline
<1>10. ASSUME NEW f \in Files, ShortcutUnresolved(f) PROVE Still
  BY <1>10 DEF ShortcutUnresolved
<1>11. CASE EndLoop
  BY <1>11 DEF EndLoop
<1>12. CASE Drained
  BY <1>12 DEF Drained
<1>13. CASE FinalSave
  BY <1>13 DEF FinalSave
<1>14. ASSUME NEW w \in Workers, NEW f \in Files, TakeJob(w, f) PROVE Still
  BY <1>14 DEF TakeJob
<1>15. ASSUME NEW t \in Threads, SeeStop(t) PROVE Still
  BY <1>15 DEF SeeStop
<1>16. ASSUME NEW t \in Threads, SkipConfirmed(t) PROVE Still
  BY <1>16 DEF SkipConfirmed
<1>17. ASSUME NEW t \in Threads, RecordExisting(t) PROVE Still
  BY <1>17 DEF RecordExisting
<1>18. ASSUME NEW t \in Threads, RejectOversize(t) PROVE Still
  BY <1>18 DEF RejectOversize, NotPresent
<1>19. ASSUME NEW t \in Threads, CountDryRun(t) PROVE Still
  BY <1>19 DEF CountDryRun, NotPresent
<1>20. ASSUME NEW t \in Threads, NeedsCopy(t) PROVE Still
  BY <1>20 DEF NeedsCopy, NotPresent
<1>21. ASSUME NEW t \in Threads, BudgetReached(t) PROVE Still
  BY <1>21 DEF BudgetReached
<1>22. ASSUME NEW t \in Threads, CopyLands(t) PROVE Still
  BY <1>22 DEF CopyLands, Land
<1>23. ASSUME NEW t \in Threads, CopyRetried(t) PROVE Still
  BY <1>23 DEF CopyRetried
<1>24. ASSUME NEW t \in Threads, Flush(t) PROVE Still
  BY <1>24 DEF Flush
<1>25. ASSUME NEW t \in Threads, Reconcile(t) PROVE Still
  BY <1>25 DEF Reconcile
<1>26. ASSUME NEW t \in Threads, Serialize(t) PROVE Still
  BY <1>26 DEF Serialize
<1>27. ASSUME NEW t \in Threads, WriteLog(t) PROVE Still
  BY <1>27, AfterSaveFrame DEF WriteLog
<1>28. ASSUME NEW t \in Threads, WriteLogFails(t) PROVE Still
  BY <1>28, AfterSaveFrame DEF WriteLogFails
<1>29. CASE Signal
  BY <1>29 DEF Signal
<1>30. ASSUME NEW f \in Files, UserTrash(f) PROVE Still
  BY <1>30 DEF UserTrash
<1>31. CASE UNCHANGED vars
  BY <1>31 DEF vars
<1>. QED BY <1>1, <1>2, <1>3, <1>4, <1>5, <1>6, <1>7, <1>8, <1>9, <1>10, <1>11, <1>12,
    <1>13, <1>14, <1>15, <1>16, <1>17, <1>18, <1>19, <1>20, <1>21, <1>22, <1>23,
    <1>24, <1>25, <1>26, <1>27, <1>28, <1>29, <1>30, <1>31
    DEF Next, MainStep, CopyStep, Fails, Stops

\* For any number of threads and any sizes: what is reserved is what was copied
\* plus what is being copied, and it never exceeds the budget.
THEOREM BytesTheorem == Spec => []BytesAccounted
<1>1. Init => BytesInv
  <2> SUFFICES ASSUME Init PROVE BytesInv
    OBVIOUS
  <2>1. BytesInTransfer = {} /\ runBytes = 0 /\ resBytes = 0
    BY DEF Init, BytesInTransfer, InTransfer
  <2>. QED BY <2>1, FS_EmptySet, LimitAssumption DEF BytesInv, BytesAccounted
<1>2. Stops => BytesInv'
  BY EmptyLedger DEF Stops, LoadFails, CleanUp, ExportReport, Crash
<1>3. BaseInv /\ BytesInv /\ [Next]_vars => BytesInv'
  BY <1>2, OthersStill, StillKeeps, ReserveKeeps, MarkKeeps, FailsKeeps
<1>4. BytesInv => BytesAccounted
  BY DEF BytesInv
<1>. QED BY <1>1, <1>3, <1>4, BaseInvariant, PTL DEF Spec
=============================================================================
