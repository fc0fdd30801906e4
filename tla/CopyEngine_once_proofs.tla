----------------------- MODULE CopyEngine_once_proofs -----------------------
(***************************************************************************)
(* No file is copied twice, none is skipped, and the engine implements     *)
(* CopyPromise: proofs for any number of files, threads and faults.        *)
(***************************************************************************)
EXTENDS CopyEngine_proofs

\* Only the empty sequence has length 0.
LEMMA EmptySeq == \A s \in Seq(Qualities) : Len(s) = 0 <=> s = <<>>
  OBVIOUS

\* One file, one place: the loop, the queue and the threads never share one.
OwnerInv ==
  /\ \A t, u \in Threads : Busy(t) /\ Busy(u) /\ t # u => file[t] # file[u]
  /\ \A t \in Threads : Busy(t) => file[t] \notin queue
  /\ \A t \in Threads : Busy(t) /\ phase = "submit" => file[t] \notin todo
  /\ phase = "submit" => queue \intersect todo = {}

\* A file stays in one place: every step preserves it.
LEMMA OwnerStep == BaseInv /\ OwnerInv /\ [Next]_vars => OwnerInv'
<1> SUFFICES ASSUME BaseInv, OwnerInv, [Next]_vars PROVE OwnerInv'
  OBVIOUS
<1> USE ThreadAssumption DEF BaseInv, TypeOK, ThreadInv, Busy, Threads, OwnerInv,
        driveVars, configVars, levelVars, failVars, flagVars, byteVars,
            threadVars, Goto, Return, Raise, Begin, Fault, RecordFailed
<1>1. ASSUME NEW a \in Accounts, NEW d \in DryRuns, StartRun(a, d) PROVE OwnerInv'
  BY <1>1 DEF StartRun
<1>2. CASE LoadResume
  BY <1>2 DEF LoadResume
<1>3. CASE LoadFails
  BY <1>3, FreshTyped DEF LoadFails
<1>4. CASE ListSource
  BY <1>4 DEF ListSource
<1>5. CASE ListFails
  BY <1>5 DEF ListFails
<1>6. CASE ListQuota
  BY <1>6 DEF ListQuota
<1>7. CASE BuildIndex
  BY <1>7 DEF BuildIndex
<1>8. CASE IndexFails
  BY <1>8 DEF IndexFails
<1>9. ASSUME NEW f \in Files, SubmitFile(f) PROVE OwnerInv'
  BY <1>9 DEF SubmitFile
<1>10. ASSUME NEW f \in Files, CopyInline(f) PROVE OwnerInv'
  BY <1>10 DEF CopyInline
<1>11. ASSUME NEW f \in Files, ShortcutUnresolved(f) PROVE OwnerInv'
  BY <1>11 DEF ShortcutUnresolved
<1>12. CASE EndLoop
  BY <1>12 DEF EndLoop
<1>13. CASE Drained
  BY <1>13 DEF Drained, Quiet
<1>14. CASE FinalSave
  BY <1>14 DEF FinalSave
<1>15. CASE CleanUp
  BY <1>15, FreshTyped DEF CleanUp
<1>16. CASE ExportReport
  BY <1>16, FreshTyped DEF ExportReport
<1>17. ASSUME NEW w \in Workers, NEW f \in Files, TakeJob(w, f) PROVE OwnerInv'
  BY <1>17 DEF TakeJob
<1>18. ASSUME NEW t \in Threads, SeeStop(t) PROVE OwnerInv'
  BY <1>18 DEF SeeStop
<1>19. ASSUME NEW t \in Threads, SkipConfirmed(t) PROVE OwnerInv'
  BY <1>19 DEF SkipConfirmed
<1>20. ASSUME NEW t \in Threads, RecordExisting(t) PROVE OwnerInv'
  BY <1>20 DEF RecordExisting
<1>21. ASSUME NEW t \in Threads, RejectOversize(t) PROVE OwnerInv'
  BY <1>21 DEF RejectOversize, NotPresent
<1>22. ASSUME NEW t \in Threads, CountDryRun(t) PROVE OwnerInv'
  BY <1>22 DEF CountDryRun, NotPresent
<1>23. ASSUME NEW t \in Threads, NeedsCopy(t) PROVE OwnerInv'
  BY <1>23 DEF NeedsCopy, NotPresent
<1>24. ASSUME NEW t \in Threads, Reserve(t) PROVE OwnerInv'
  BY <1>24 DEF Reserve
<1>25. ASSUME NEW t \in Threads, BudgetReached(t) PROVE OwnerInv'
  BY <1>25 DEF BudgetReached
<1>26. ASSUME NEW t \in Threads, CopyLands(t) PROVE OwnerInv'
  BY <1>26 DEF CopyLands
<1>27. ASSUME NEW t \in Threads, CopyRetried(t) PROVE OwnerInv'
  BY <1>27 DEF CopyRetried
<1>28. ASSUME NEW t \in Threads, CopyFails(t) PROVE OwnerInv'
  BY <1>28 DEF CopyFails
<1>29. ASSUME NEW t \in Threads, CopyRateLimited(t) PROVE OwnerInv'
  BY <1>29 DEF CopyRateLimited
<1>30. ASSUME NEW t \in Threads, CopyQuota(t) PROVE OwnerInv'
  BY <1>30 DEF CopyQuota
<1>31. ASSUME NEW t \in Threads, MarkCopied(t) PROVE OwnerInv'
  BY <1>31 DEF MarkCopied
<1>32. ASSUME NEW t \in Threads, VerifyFails(t) PROVE OwnerInv'
  BY <1>32 DEF VerifyFails
<1>33. ASSUME NEW t \in Threads, Flush(t) PROVE OwnerInv'
  BY <1>33 DEF Flush
<1>34. ASSUME NEW t \in Threads, Reconcile(t) PROVE OwnerInv'
  BY <1>34 DEF Reconcile
<1>35. ASSUME NEW t \in Threads, Serialize(t) PROVE OwnerInv'
  BY <1>35 DEF Serialize, Saving
<1>36. ASSUME NEW t \in Threads, WriteLog(t) PROVE OwnerInv'
  <2>1. queue' = queue /\ todo' = todo
    BY <1>36 DEF WriteLog
  <2>2. \A u \in Threads : pc'[u] \notin {"idle", "finalSave"}
          => Busy(u) /\ file'[u] = file[u]
    BY <1>36, AfterSaveFrame DEF WriteLog, Saving
  <2>. QED BY <1>36, <2>1, <2>2, AfterSaveFrame DEF WriteLog
<1>37. ASSUME NEW t \in Threads, WriteLogFails(t) PROVE OwnerInv'
  <2>1. queue' = queue /\ todo' = todo
    BY <1>37 DEF WriteLogFails
  <2>2. \A u \in Threads : pc'[u] \notin {"idle", "finalSave"}
          => Busy(u) /\ file'[u] = file[u]
    BY <1>37, AfterSaveFrame DEF WriteLogFails, Saving
  <2>. QED BY <1>37, <2>1, <2>2, AfterSaveFrame DEF WriteLogFails
<1>38. CASE Signal
  BY <1>38 DEF Signal
<1>39. CASE Crash
  BY <1>39, FreshTyped DEF Crash
<1>40. ASSUME NEW f \in Files, UserTrash(f) PROVE OwnerInv'
  BY <1>40 DEF UserTrash
<1>41. CASE UNCHANGED vars
  BY <1>41 DEF vars
<1>. QED BY <1>1, <1>2, <1>3, <1>4, <1>5, <1>6, <1>7, <1>8, <1>9, <1>10, <1>11,
    <1>12, <1>13, <1>14, <1>15, <1>16, <1>17, <1>18, <1>19, <1>20, <1>21,
    <1>22, <1>23, <1>24, <1>25, <1>26, <1>27, <1>28, <1>29, <1>30, <1>31,
    <1>32, <1>33, <1>34, <1>35, <1>36, <1>37, <1>38, <1>39, <1>40,
    <1>41 DEF Next, MainStep, CopyStep

\* The index is right about f.
Right(f) == f \in index <=> copies[f] # <<>>

\* The index is right about every file still to be decided, and a file that is
\* being copied has no copy yet.
OnceInv ==
  /\ \A f \in queue : Right(f)
  /\ phase = "submit" => \A f \in todo : Right(f)
  /\ \A t \in Threads : pc[t] = "start" => Right(file[t])
  /\ \A t \in Threads : pc[t] \in {"reserve", "copy"} => copies[file[t]] = <<>>
  /\ AtMostOneCopy

\* A copy that lands where there is none is the only one, and the others stay.
LEMMA LandsOnce ==
  ASSUME TypeOK, NEW f \in Files, NEW q \in Qualities, copies[f] = <<>>,
         copies' = [copies EXCEPT ![f] = Append(@, q)]
  PROVE  \A g \in Files : IF g = f THEN Len(copies'[g]) = 1 ELSE copies'[g] = copies[g]
<1>1. copies \in [Files -> Seq(Qualities)]
  BY DEF TypeOK
<1>2. copies'[f] = Append(<<>>, q) /\ \A g \in Files \ {f} : copies'[g] = copies[g]
  BY <1>1
<1>3. Len(Append(<<>>, q)) = 1
  OBVIOUS
<1>. QED BY <1>2, <1>3

\* Every step preserves it, if listings are complete and no copy is retried
\* after it landed.
LEMMA OnceStep ==
  ASSUME BaseInv, OwnerInv, OnceInv, [Next]_vars, {"index",
      "retried"} \intersect Faults = {}
  PROVE  OnceInv'
<1> USE ThreadAssumption DEF BaseInv, TypeOK, ThreadInv, Busy, Threads,
    OwnerInv, OnceInv, Right, AtMostOneCopy, Present,
        driveVars, configVars, levelVars, failVars, flagVars, byteVars,
            threadVars, Goto, Return, Raise, Begin, Fault, RecordFailed
<1>1. ASSUME NEW a \in Accounts, NEW d \in DryRuns, StartRun(a, d) PROVE OnceInv'
  BY <1>1 DEF StartRun
<1>2. CASE LoadResume
  BY <1>2 DEF LoadResume
<1>3. CASE LoadFails
  BY <1>3, FreshTyped DEF LoadFails
<1>4. CASE ListSource
  BY <1>4 DEF ListSource
<1>5. CASE ListFails
  BY <1>5 DEF ListFails
<1>6. CASE ListQuota
  BY <1>6 DEF ListQuota
<1>7. CASE BuildIndex
  <2>1. \A t \in Threads : ~Busy(t)
    BY <1>7 DEF BuildIndex
  <2>2. queue = {}
    BY <1>7 DEF BuildIndex
  <2>3. \A f \in Files : Right(f)'
    BY <1>7 DEF BuildIndex, Indexed
  <2>. QED BY <1>7, <2>1, <2>2, <2>3 DEF BuildIndex
<1>8. CASE IndexFails
  BY <1>8 DEF IndexFails
<1>9. ASSUME NEW f \in Files, SubmitFile(f) PROVE OnceInv'
  BY <1>9 DEF SubmitFile
<1>10. ASSUME NEW f \in Files, CopyInline(f) PROVE OnceInv'
  BY <1>10 DEF CopyInline
<1>11. ASSUME NEW f \in Files, ShortcutUnresolved(f) PROVE OnceInv'
  BY <1>11 DEF ShortcutUnresolved
<1>12. CASE EndLoop
  BY <1>12 DEF EndLoop
<1>13. CASE Drained
  BY <1>13 DEF Drained, Quiet
<1>14. CASE FinalSave
  BY <1>14 DEF FinalSave
<1>15. CASE CleanUp
  BY <1>15, FreshTyped DEF CleanUp
<1>16. CASE ExportReport
  BY <1>16, FreshTyped DEF ExportReport
<1>17. ASSUME NEW w \in Workers, NEW f \in Files, TakeJob(w, f) PROVE OnceInv'
  BY <1>17 DEF TakeJob
<1>18. ASSUME NEW t \in Threads, SeeStop(t) PROVE OnceInv'
  BY <1>18 DEF SeeStop
<1>19. ASSUME NEW t \in Threads, SkipConfirmed(t) PROVE OnceInv'
  BY <1>19 DEF SkipConfirmed
<1>20. ASSUME NEW t \in Threads, RecordExisting(t) PROVE OnceInv'
  BY <1>20 DEF RecordExisting
<1>21. ASSUME NEW t \in Threads, RejectOversize(t) PROVE OnceInv'
  BY <1>21 DEF RejectOversize, NotPresent
<1>22. ASSUME NEW t \in Threads, CountDryRun(t) PROVE OnceInv'
  BY <1>22 DEF CountDryRun, NotPresent
<1>23. ASSUME NEW t \in Threads, NeedsCopy(t) PROVE OnceInv'
  BY <1>23 DEF NeedsCopy, NotPresent
<1>24. ASSUME NEW t \in Threads, Reserve(t) PROVE OnceInv'
  BY <1>24 DEF Reserve
<1>25. ASSUME NEW t \in Threads, BudgetReached(t) PROVE OnceInv'
  BY <1>25 DEF BudgetReached
<1>26. ASSUME NEW t \in Threads, CopyLands(t) PROVE OnceInv'
  <2>1. file[t] \in Files /\ copies[file[t]] = <<>>
    BY <1>26 DEF CopyLands
  <2>2. copies' = copies \/ Land(file[t], "match") \/ Land(file[t], "differ")
    BY <1>26 DEF CopyLands
  <2>3. \A f \in Files : IF f = file[t] THEN Len(copies'[f]) <= 1 ELSE copies'[f] = copies[f]
    <3>1. CASE copies' = copies
      BY <2>1, <3>1
    <3>2. CASE Land(file[t], "match")
      BY <2>1, <3>2, LandsOnce DEF Land, Qualities
    <3>3. CASE Land(file[t], "differ")
      BY <2>1, <3>3, LandsOnce DEF Land, Qualities
    <3>. QED BY <2>2, <3>1, <3>2, <3>3
  <2>4. \A u \in Threads \ {t} : Busy(u) => file[u] # file[t]
    BY <1>26 DEF CopyLands
  <2>5. file[t] \notin queue /\ (phase = "submit" => file[t] \notin todo)
    BY <1>26 DEF CopyLands
  <2>6. UNCHANGED <<index, queue, todo, phase>>
    BY <1>26 DEF CopyLands
  <2>. QED BY <1>26, <2>1, <2>3, <2>4, <2>5, <2>6 DEF CopyLands
<1>27. ASSUME NEW t \in Threads, CopyRetried(t) PROVE OnceInv'
  BY <1>27 DEF CopyRetried
<1>28. ASSUME NEW t \in Threads, CopyFails(t) PROVE OnceInv'
  <2>1. file[t] \in Files /\ copies[file[t]] = <<>>
    BY <1>28 DEF CopyFails
  <2>2. copies' = copies \/ Land(file[t], "match") \/ Land(file[t], "differ")
    BY <1>28 DEF CopyFails
  <2>3. \A f \in Files : IF f = file[t] THEN Len(copies'[f]) <= 1 ELSE copies'[f] = copies[f]
    <3>1. CASE copies' = copies
      BY <2>1, <3>1
    <3>2. CASE Land(file[t], "match")
      BY <2>1, <3>2, LandsOnce DEF Land, Qualities
    <3>3. CASE Land(file[t], "differ")
      BY <2>1, <3>3, LandsOnce DEF Land, Qualities
    <3>. QED BY <2>2, <3>1, <3>2, <3>3
  <2>4. \A u \in Threads \ {t} : Busy(u) => file[u] # file[t]
    BY <1>28 DEF CopyFails
  <2>5. file[t] \notin queue /\ (phase = "submit" => file[t] \notin todo)
    BY <1>28 DEF CopyFails
  <2>6. UNCHANGED <<index, queue, todo, phase>>
    BY <1>28 DEF CopyFails
  <2>. QED BY <1>28, <2>1, <2>3, <2>4, <2>5, <2>6 DEF CopyFails
<1>29. ASSUME NEW t \in Threads, CopyRateLimited(t) PROVE OnceInv'
  BY <1>29 DEF CopyRateLimited
<1>30. ASSUME NEW t \in Threads, CopyQuota(t) PROVE OnceInv'
  BY <1>30 DEF CopyQuota
<1>31. ASSUME NEW t \in Threads, MarkCopied(t) PROVE OnceInv'
  BY <1>31 DEF MarkCopied
<1>32. ASSUME NEW t \in Threads, VerifyFails(t) PROVE OnceInv'
  BY <1>32 DEF VerifyFails
<1>33. ASSUME NEW t \in Threads, Flush(t) PROVE OnceInv'
  BY <1>33 DEF Flush
<1>34. ASSUME NEW t \in Threads, Reconcile(t) PROVE OnceInv'
  BY <1>34 DEF Reconcile
<1>35. ASSUME NEW t \in Threads, Serialize(t) PROVE OnceInv'
  BY <1>35 DEF Serialize, Saving
<1>36. ASSUME NEW t \in Threads, WriteLog(t) PROVE OnceInv'
  BY <1>36, AfterSaveFrame DEF WriteLog, Saving
<1>37. ASSUME NEW t \in Threads, WriteLogFails(t) PROVE OnceInv'
  BY <1>37, AfterSaveFrame DEF WriteLogFails, Saving
<1>38. CASE Signal
  BY <1>38 DEF Signal
<1>39. CASE Crash
  BY <1>39, FreshTyped DEF Crash
<1>40. ASSUME NEW f \in Files, UserTrash(f) PROVE OnceInv'
  BY <1>40 DEF UserTrash
<1>41. CASE UNCHANGED vars
  BY <1>41 DEF vars
<1>. QED BY <1>1, <1>2, <1>3, <1>4, <1>5, <1>6, <1>7, <1>8, <1>9, <1>10, <1>11,
    <1>12, <1>13, <1>14, <1>15, <1>16, <1>17, <1>18, <1>19, <1>20, <1>21,
    <1>22, <1>23, <1>24, <1>25, <1>26, <1>27, <1>28, <1>29, <1>30, <1>31,
    <1>32, <1>33, <1>34, <1>35, <1>36, <1>37, <1>38, <1>39, <1>40,
    <1>41 DEF Next, MainStep, CopyStep


\* No file is copied twice, whatever threads, runs, accounts and faults do, as
\* long as a listing of the destination is complete and a request that was
\* carried out is not sent again.
THEOREM OnceTheorem ==
  ASSUME {"index", "retried"} \intersect Faults = {}
  PROVE  Spec => []AtMostOneCopy
<1>1. Init => OwnerInv /\ OnceInv
  BY DEF Init, OwnerInv, OnceInv, Busy, AtMostOneCopy
<1>2. BaseInv /\ OwnerInv /\ OnceInv /\ [Next]_vars => OwnerInv' /\ OnceInv'
  BY OwnerStep, OnceStep
<1>3. OnceInv => AtMostOneCopy
  BY DEF OnceInv
<1>. QED BY <1>1, <1>2, <1>3, BaseInvariant, PTL DEF Spec

\* Appending makes a sequence that is not empty.
LEMMA AppendThere ==
  \A s \in Seq(Qualities), q \in Qualities : Append(s,
      q) \in Seq(Qualities) /\ Append(s, q) # <<>>
<1> SUFFICES ASSUME NEW s \in Seq(Qualities), NEW q \in Qualities
             PROVE  Append(s, q) \in Seq(Qualities) /\ Append(s, q) # <<>>
  OBVIOUS
<1>1. Len(s) \in Nat /\ Len(Append(s, q)) = Len(s) + 1
  OBVIOUS
<1>2. Len(<<>>) = 0
  OBVIOUS
<1>. QED BY <1>1, <1>2

\* A copy that lands is there, and takes nothing away.
LEMMA LandsThere ==
  ASSUME TypeOK, NEW t \in Threads, file[t] \in Files,
         CopyLands(t) \/ CopyRetried(t) \/ CopyFails(t)
  PROVE  /\ Present \subseteq Present'
         /\ pc'[t] = "verify" => copies'[file[t]] # <<>>
<1>1. copies \in [Files -> Seq(Qualities)]
  BY DEF TypeOK
<1>2. \A s \in Seq(Qualities), q \in Qualities : Append(s,
    q) \in Seq(Qualities) /\ Append(s, q) # <<>>
  BY AppendThere
<1>3. "match" \in Qualities /\ "differ" \in Qualities
  BY DEF Qualities
<1>4. ASSUME NEW s, s # <<>>, copies' = [copies EXCEPT ![file[t]] = s]
      PROVE  Present \subseteq Present' /\ copies'[file[t]] # <<>>
  BY <1>1, <1>4 DEF Present
<1>5. CASE CopyLands(t)
  <2>1. copies[file[t]] \in Seq(Qualities)
    BY <1>1
  <2>2. \/ copies' = [copies EXCEPT ![file[t]] = Append(copies[file[t]], "match")]
        \/ copies' = [copies EXCEPT ![file[t]] = Append(copies[file[t]], "differ")]
    BY <1>5 DEF CopyLands, Land
  <2>. QED BY <1>2, <1>3, <1>4, <2>1, <2>2
<1>6. CASE CopyRetried(t)
  <2>1. Append(copies[file[t]], "match") \in Seq(Qualities)
    BY <1>1, <1>2, <1>3
  <2>2. copies' = [copies EXCEPT ![file[t]] = Append(Append(copies[file[t]], "match"), "match")]
    BY <1>6 DEF CopyRetried
  <2>. QED BY <1>2, <1>3, <1>4, <2>1, <2>2
<1>7. CASE CopyFails(t)
  <2>1. copies[file[t]] \in Seq(Qualities)
    BY <1>1
  <2>2. \/ copies' = copies
        \/ copies' = [copies EXCEPT ![file[t]] = Append(copies[file[t]], "match")]
    BY <1>7 DEF CopyFails, Land
  <2>3. CASE copies' = copies
    BY <1>7, <2>3 DEF Present, TypeOK, CopyFails, Return
  <2>. QED BY <1>2, <1>3, <1>4, <2>1, <2>2, <2>3
<1>. QED BY <1>5, <1>6, <1>7

\* The index lists only what is there, and a copy to be verified is there.
ThereInv ==
  /\ index \subseteq Present /\ (phase = "idle" => index = {})
  /\ \A t \in Threads : pc[t] = "verify" => copies[file[t]] # <<>>

\* Every step preserves it.
LEMMA ThereStep == BaseInv /\ ThereInv /\ [Next]_vars => ThereInv'
<1> SUFFICES ASSUME BaseInv, ThereInv, [Next]_vars PROVE ThereInv'
  OBVIOUS
<1> USE ThreadAssumption DEF BaseInv, TypeOK, ThreadInv, Busy, Threads,
    ThereInv, Present,
        driveVars, configVars, levelVars, failVars, flagVars, byteVars,
            threadVars, Goto, Return, Raise, Begin, Fault, RecordFailed
<1>1. ASSUME NEW a \in Accounts, NEW d \in DryRuns, StartRun(a, d) PROVE ThereInv'
  BY <1>1 DEF StartRun
<1>2. CASE LoadResume
  BY <1>2 DEF LoadResume
<1>3. CASE LoadFails
  BY <1>3, FreshTyped DEF LoadFails
<1>4. CASE ListSource
  BY <1>4 DEF ListSource
<1>5. CASE ListFails
  BY <1>5 DEF ListFails
<1>6. CASE ListQuota
  BY <1>6 DEF ListQuota
<1>7. CASE BuildIndex
  BY <1>7 DEF BuildIndex, Indexed
<1>8. CASE IndexFails
  BY <1>8 DEF IndexFails, Indexed
<1>9. ASSUME NEW f \in Files, SubmitFile(f) PROVE ThereInv'
  BY <1>9 DEF SubmitFile
<1>10. ASSUME NEW f \in Files, CopyInline(f) PROVE ThereInv'
  BY <1>10 DEF CopyInline
<1>11. ASSUME NEW f \in Files, ShortcutUnresolved(f) PROVE ThereInv'
  BY <1>11 DEF ShortcutUnresolved
<1>12. CASE EndLoop
  BY <1>12 DEF EndLoop
<1>13. CASE Drained
  BY <1>13 DEF Drained, Quiet
<1>14. CASE FinalSave
  BY <1>14 DEF FinalSave
<1>15. CASE CleanUp
  BY <1>15, FreshTyped DEF CleanUp
<1>16. CASE ExportReport
  BY <1>16, FreshTyped DEF ExportReport
<1>17. ASSUME NEW w \in Workers, NEW f \in Files, TakeJob(w, f) PROVE ThereInv'
  BY <1>17 DEF TakeJob
<1>18. ASSUME NEW t \in Threads, SeeStop(t) PROVE ThereInv'
  BY <1>18 DEF SeeStop
<1>19. ASSUME NEW t \in Threads, SkipConfirmed(t) PROVE ThereInv'
  BY <1>19 DEF SkipConfirmed
<1>20. ASSUME NEW t \in Threads, RecordExisting(t) PROVE ThereInv'
  BY <1>20 DEF RecordExisting
<1>21. ASSUME NEW t \in Threads, RejectOversize(t) PROVE ThereInv'
  BY <1>21 DEF RejectOversize, NotPresent
<1>22. ASSUME NEW t \in Threads, CountDryRun(t) PROVE ThereInv'
  BY <1>22 DEF CountDryRun, NotPresent
<1>23. ASSUME NEW t \in Threads, NeedsCopy(t) PROVE ThereInv'
  BY <1>23 DEF NeedsCopy, NotPresent
<1>24. ASSUME NEW t \in Threads, Reserve(t) PROVE ThereInv'
  BY <1>24 DEF Reserve
<1>25. ASSUME NEW t \in Threads, BudgetReached(t) PROVE ThereInv'
  BY <1>25 DEF BudgetReached
<1>26. ASSUME NEW t \in Threads, CopyLands(t) PROVE ThereInv'
  <2>1. file[t] \in Files
    BY <1>26 DEF CopyLands
  <2>2. Present \subseteq Present' /\ (pc'[t] = "verify" => copies'[file[t]] # <<>>)
    BY <1>26, <2>1, LandsThere
  <2>3. \A u \in Threads : Busy(u) => file[u] \in Files
    OBVIOUS
  <2>. QED BY <1>26, <2>1, <2>2, <2>3 DEF CopyLands
<1>27. ASSUME NEW t \in Threads, CopyRetried(t) PROVE ThereInv'
  <2>1. file[t] \in Files
    BY <1>27 DEF CopyRetried
  <2>2. Present \subseteq Present' /\ (pc'[t] = "verify" => copies'[file[t]] # <<>>)
    BY <1>27, <2>1, LandsThere
  <2>3. \A u \in Threads : Busy(u) => file[u] \in Files
    OBVIOUS
  <2>. QED BY <1>27, <2>1, <2>2, <2>3 DEF CopyRetried
<1>28. ASSUME NEW t \in Threads, CopyFails(t) PROVE ThereInv'
  <2>1. file[t] \in Files
    BY <1>28 DEF CopyFails
  <2>2. Present \subseteq Present' /\ (pc'[t] = "verify" => copies'[file[t]] # <<>>)
    BY <1>28, <2>1, LandsThere
  <2>3. \A u \in Threads : Busy(u) => file[u] \in Files
    OBVIOUS
  <2>. QED BY <1>28, <2>1, <2>2, <2>3 DEF CopyFails
<1>29. ASSUME NEW t \in Threads, CopyRateLimited(t) PROVE ThereInv'
  BY <1>29 DEF CopyRateLimited
<1>30. ASSUME NEW t \in Threads, CopyQuota(t) PROVE ThereInv'
  BY <1>30 DEF CopyQuota
<1>31. ASSUME NEW t \in Threads, MarkCopied(t) PROVE ThereInv'
  BY <1>31 DEF MarkCopied
<1>32. ASSUME NEW t \in Threads, VerifyFails(t) PROVE ThereInv'
  BY <1>32 DEF VerifyFails
<1>33. ASSUME NEW t \in Threads, Flush(t) PROVE ThereInv'
  BY <1>33 DEF Flush
<1>34. ASSUME NEW t \in Threads, Reconcile(t) PROVE ThereInv'
  BY <1>34 DEF Reconcile
<1>35. ASSUME NEW t \in Threads, Serialize(t) PROVE ThereInv'
  BY <1>35 DEF Serialize, Saving
<1>36. ASSUME NEW t \in Threads, WriteLog(t) PROVE ThereInv'
  BY <1>36, AfterSaveFrame DEF WriteLog, Saving
<1>37. ASSUME NEW t \in Threads, WriteLogFails(t) PROVE ThereInv'
  BY <1>37, AfterSaveFrame DEF WriteLogFails, Saving
<1>38. CASE Signal
  BY <1>38 DEF Signal
<1>39. CASE Crash
  BY <1>39, FreshTyped DEF Crash
<1>40. ASSUME NEW f \in Files, UserTrash(f) PROVE ThereInv'
  BY <1>40 DEF UserTrash
<1>41. CASE UNCHANGED vars
  BY <1>41 DEF vars
<1>. QED BY <1>1, <1>2, <1>3, <1>4, <1>5, <1>6, <1>7, <1>8, <1>9, <1>10, <1>11,
    <1>12, <1>13, <1>14, <1>15, <1>16, <1>17, <1>18, <1>19, <1>20, <1>21,
    <1>22, <1>23, <1>24, <1>25, <1>26, <1>27, <1>28, <1>29, <1>30, <1>31,
    <1>32, <1>33, <1>34, <1>35, <1>36, <1>37, <1>38, <1>39, <1>40,
    <1>41 DEF Next, MainStep, CopyStep

\* Where a child of the source can be while the run works on it.
Accounted(f) ==
  \/ f \in failed \/ f \in copied \intersect Present
  \/ f \in queue \/ (phase = "submit" /\ f \in todo)
  \/ \E t \in Threads : pc[t] \in {"start", "reserve", "copy",
      "verify"} /\ file[t] = f

AccountInv ==
  /\ phase = "index" /\ ~listErr => todo = Files
  /\ \A t \in Threads : pc[t] = "stopSave" => stop
  /\ phase \in {"submit", "drain"} /\ ~stop /\ ~listErr /\ ~dry
       => \A f \in Files : Accounted(f)
  /\ phase \in {"save", "finalize"} /\ completed /\ ~listErr /\ ~dry
       => Files \subseteq (copied \intersect Present) \union failed

\* No step loses a file.
LEMMA AccountStep == BaseInv /\ ThereInv /\ AccountInv /\ [Next]_vars => AccountInv'
<1> SUFFICES ASSUME BaseInv, ThereInv, AccountInv, [Next]_vars PROVE AccountInv'
  OBVIOUS
<1> USE ThreadAssumption DEF BaseInv, TypeOK, ThreadInv, Busy, Threads,
    ThereInv, AccountInv, Accounted, Present,
        driveVars, configVars, levelVars, failVars, flagVars, byteVars,
            threadVars, Goto, Return, Raise, Begin, Fault, RecordFailed
<1>1. ASSUME NEW a \in Accounts, NEW d \in DryRuns, StartRun(a, d) PROVE AccountInv'
  BY <1>1 DEF StartRun
<1>2. CASE LoadResume
  BY <1>2 DEF LoadResume
<1>3. CASE LoadFails
  BY <1>3, FreshTyped DEF LoadFails
<1>4. CASE ListSource
  BY <1>4 DEF ListSource
<1>5. CASE ListFails
  BY <1>5 DEF ListFails
<1>6. CASE ListQuota
  BY <1>6 DEF ListQuota
<1>7. CASE BuildIndex
  BY <1>7 DEF BuildIndex
<1>8. CASE IndexFails
  BY <1>8 DEF IndexFails
<1>9. ASSUME NEW f \in Files, SubmitFile(f) PROVE AccountInv'
  BY <1>9 DEF SubmitFile
<1>10. ASSUME NEW f \in Files, CopyInline(f) PROVE AccountInv'
  BY <1>10 DEF CopyInline
<1>11. ASSUME NEW f \in Files, ShortcutUnresolved(f) PROVE AccountInv'
  BY <1>11 DEF ShortcutUnresolved
<1>12. CASE EndLoop
  BY <1>12 DEF EndLoop
<1>13. CASE Drained
  BY <1>13 DEF Drained, Quiet
<1>14. CASE FinalSave
  BY <1>14 DEF FinalSave
<1>15. CASE CleanUp
  BY <1>15, FreshTyped DEF CleanUp
<1>16. CASE ExportReport
  BY <1>16, FreshTyped DEF ExportReport
<1>17. ASSUME NEW w \in Workers, NEW f \in Files, TakeJob(w, f) PROVE AccountInv'
  BY <1>17 DEF TakeJob
<1>18. ASSUME NEW t \in Threads, SeeStop(t) PROVE AccountInv'
  BY <1>18 DEF SeeStop
<1>19. ASSUME NEW t \in Threads, SkipConfirmed(t) PROVE AccountInv'
  BY <1>19 DEF SkipConfirmed
<1>20. ASSUME NEW t \in Threads, RecordExisting(t) PROVE AccountInv'
  BY <1>20 DEF RecordExisting
<1>21. ASSUME NEW t \in Threads, RejectOversize(t) PROVE AccountInv'
  BY <1>21 DEF RejectOversize, NotPresent
<1>22. ASSUME NEW t \in Threads, CountDryRun(t) PROVE AccountInv'
  BY <1>22 DEF CountDryRun, NotPresent
<1>23. ASSUME NEW t \in Threads, NeedsCopy(t) PROVE AccountInv'
  BY <1>23 DEF NeedsCopy, NotPresent
<1>24. ASSUME NEW t \in Threads, Reserve(t) PROVE AccountInv'
  BY <1>24 DEF Reserve
<1>25. ASSUME NEW t \in Threads, BudgetReached(t) PROVE AccountInv'
  BY <1>25 DEF BudgetReached
<1>26. ASSUME NEW t \in Threads, CopyLands(t) PROVE AccountInv'
  <2>1. Present \subseteq Present'
    BY <1>26, LandsThere DEF CopyLands
  <2>2. \A f \in Files : Accounted(f) => Accounted(f)'
    BY <1>26, <2>1 DEF CopyLands
  <2>. QED BY <1>26, <2>1, <2>2 DEF CopyLands, Accounted
<1>27. ASSUME NEW t \in Threads, CopyRetried(t) PROVE AccountInv'
  <2>1. Present \subseteq Present'
    BY <1>27, LandsThere DEF CopyRetried
  <2>2. \A f \in Files : Accounted(f) => Accounted(f)'
    BY <1>27, <2>1 DEF CopyRetried
  <2>. QED BY <1>27, <2>1, <2>2 DEF CopyRetried, Accounted
<1>28. ASSUME NEW t \in Threads, CopyFails(t) PROVE AccountInv'
  <2>1. Present \subseteq Present'
    BY <1>28, LandsThere DEF CopyFails
  <2>2. \A f \in Files : Accounted(f) => Accounted(f)'
    BY <1>28, <2>1 DEF CopyFails
  <2>. QED BY <1>28, <2>1, <2>2 DEF CopyFails, Accounted
<1>29. ASSUME NEW t \in Threads, CopyRateLimited(t) PROVE AccountInv'
  <2>1. CASE ~Tripped
    <3>1. /\ file[t] \in failed' /\ failed \subseteq failed'
          /\ UNCHANGED <<phase, copied, copies, queue, todo, completed, stop,
              listErr, dry>>
      BY <1>29, <2>1 DEF CopyRateLimited
    <3>2. /\ pc'[t] = "idle"
          /\ \A u \in Threads \ {t} : pc'[u] = pc[u] /\ file'[u] = file[u]
      BY <1>29, <2>1 DEF CopyRateLimited
    <3>3. \A f \in Files : Accounted(f) => Accounted(f)'
      BY <3>1, <3>2
    <3>. QED BY <1>29, <3>1, <3>2, <3>3 DEF CopyRateLimited
  <2>2. CASE Tripped
    BY <1>29, <2>2 DEF CopyRateLimited
  <2>. QED BY <2>1, <2>2
<1>30. ASSUME NEW t \in Threads, CopyQuota(t) PROVE AccountInv'
  BY <1>30 DEF CopyQuota
<1>31. ASSUME NEW t \in Threads, MarkCopied(t) PROVE AccountInv'
  BY <1>31 DEF MarkCopied
<1>32. ASSUME NEW t \in Threads, VerifyFails(t) PROVE AccountInv'
  BY <1>32 DEF VerifyFails
<1>33. ASSUME NEW t \in Threads, Flush(t) PROVE AccountInv'
  <2>1. \A f \in Files : Accounted(f) => Accounted(f)'
    <3>1. CASE FlushDue
      BY <1>33, <3>1 DEF Flush
    <3>2. CASE ~FlushDue
      BY <1>33, <3>2 DEF Flush
    <3>. QED BY <3>1, <3>2
  <2>. QED BY <1>33, <2>1 DEF Flush, Accounted
<1>34. ASSUME NEW t \in Threads, Reconcile(t) PROVE AccountInv'
  BY <1>34 DEF Reconcile
<1>35. ASSUME NEW t \in Threads, Serialize(t) PROVE AccountInv'
  BY <1>35 DEF Serialize, Saving
<1>36. ASSUME NEW t \in Threads, WriteLog(t) PROVE AccountInv'
  <2>1. /\ copies' = copies /\ failed' = failed /\ copied' = copied /\ queue' = queue /\ todo' = todo
        /\ completed' = completed /\ stop' = stop /\ listErr' = listErr /\ dry' = dry
    BY <1>36 DEF WriteLog
  <2>2. \A f \in Files : Accounted(f) /\ (phase = "submit" => phase' = "submit" \/ stop)
                          => Accounted(f)' \/ stop
    BY <1>36, <2>1, AfterSaveFrame DEF WriteLog, Saving
  <2>3. /\ phase' = "index" => phase = "index"
        /\ phase' \in {"save", "finalize"} => phase \in {"save", "finalize"}
        /\ phase' \in {"submit", "drain"} => phase \in {"submit", "drain"}
        /\ phase = "submit" => phase' = "submit" \/ stop
        /\ \A u \in Threads : pc'[u] = "stopSave" => pc[u] = "stopSave"
    BY <1>36, AfterSaveFrame DEF WriteLog, Saving
  <2>. QED BY <2>1, <2>2, <2>3
<1>37. ASSUME NEW t \in Threads, WriteLogFails(t) PROVE AccountInv'
  <2>1. /\ copies' = copies /\ failed' = failed /\ copied' = copied /\ queue' = queue /\ todo' = todo
        /\ completed' = completed /\ stop' = stop /\ listErr' = listErr /\ dry' = dry
    BY <1>37 DEF WriteLogFails
  <2>2. \A f \in Files : Accounted(f) /\ (phase = "submit" => phase' = "submit" \/ stop)
                          => Accounted(f)' \/ stop
    BY <1>37, <2>1, AfterSaveFrame DEF WriteLogFails, Saving
  <2>3. /\ phase' = "index" => phase = "index"
        /\ phase' \in {"save", "finalize"} => phase \in {"save", "finalize"}
        /\ phase' \in {"submit", "drain"} => phase \in {"submit", "drain"}
        /\ phase = "submit" => phase' = "submit" \/ stop
        /\ \A u \in Threads : pc'[u] = "stopSave" => pc[u] = "stopSave"
    BY <1>37, AfterSaveFrame DEF WriteLogFails, Saving
  <2>. QED BY <2>1, <2>2, <2>3
<1>38. CASE Signal
  BY <1>38 DEF Signal
<1>39. CASE Crash
  BY <1>39, FreshTyped DEF Crash
<1>40. ASSUME NEW f \in Files, UserTrash(f) PROVE AccountInv'
  BY <1>40 DEF UserTrash
<1>41. CASE UNCHANGED vars
  BY <1>41 DEF vars
<1>. QED BY <1>1, <1>2, <1>3, <1>4, <1>5, <1>6, <1>7, <1>8, <1>9, <1>10, <1>11,
    <1>12, <1>13, <1>14, <1>15, <1>16, <1>17, <1>18, <1>19, <1>20, <1>21,
    <1>22, <1>23, <1>24, <1>25, <1>26, <1>27, <1>28, <1>29, <1>30, <1>31,
    <1>32, <1>33, <1>34, <1>35, <1>36, <1>37, <1>38, <1>39, <1>40,
    <1>41 DEF Next, MainStep, CopyStep

\* A run that ends without a stop and without a listing error has accounted for
\* every child of the source, whatever else went wrong.
THEOREM NothingSkippedTheorem == Spec => []NothingSkipped
<1>1. Init => ThereInv /\ AccountInv
  BY DEF Init, ThereInv, AccountInv
<1>2. BaseInv /\ ThereInv /\ AccountInv /\ [Next]_vars => ThereInv' /\ AccountInv'
  BY ThereStep, AccountStep
<1>3. AccountInv => NothingSkipped
  BY DEF AccountInv, NothingSkipped
<1>. QED BY <1>1, <1>2, <1>3, BaseInvariant, PTL DEF Spec

-----------------------------------------------------------------------------
(* CopyEngine implements CopyPromise.                                      *)

\* Copies change only when one lands, when the process dies and when the user
\* removes some.
LEMMA CopiesChange ==
  ASSUME [Next]_vars, {"index", "retried"} \intersect Faults = {}
  PROVE  \/ copies' = copies
         \/ \E t \in Threads : CopyLands(t) \/ CopyFails(t)
         \/ Crash
         \/ \E f \in Files : UserTrash(f)
<1> USE DEF driveVars, Fault
<1>1. ASSUME NEW a \in Accounts, NEW d \in DryRuns, StartRun(a,
    d) PROVE copies' = copies
  BY <1>1 DEF StartRun
<1>2. CASE LoadResume
  BY <1>2 DEF LoadResume
<1>3. CASE LoadFails
  BY <1>3 DEF LoadFails
<1>4. CASE ListSource
  BY <1>4 DEF ListSource
<1>5. CASE ListFails
  BY <1>5 DEF ListFails
<1>6. CASE ListQuota
  BY <1>6 DEF ListQuota
<1>7. CASE BuildIndex
  BY <1>7 DEF BuildIndex
<1>8. CASE IndexFails
  BY <1>8 DEF IndexFails
<1>9. ASSUME NEW f \in Files, SubmitFile(f) PROVE copies' = copies
  BY <1>9 DEF SubmitFile
<1>10. ASSUME NEW f \in Files, CopyInline(f) PROVE copies' = copies
  BY <1>10 DEF CopyInline
<1>11. ASSUME NEW f \in Files, ShortcutUnresolved(f) PROVE copies' = copies
  BY <1>11 DEF ShortcutUnresolved
<1>12. CASE EndLoop
  BY <1>12 DEF EndLoop
<1>13. CASE Drained
  BY <1>13 DEF Drained
<1>14. CASE FinalSave
  BY <1>14 DEF FinalSave
<1>15. CASE CleanUp
  BY <1>15 DEF CleanUp
<1>16. CASE ExportReport
  BY <1>16 DEF ExportReport
<1>17. ASSUME NEW w \in Workers, NEW f \in Files, TakeJob(w,
    f) PROVE copies' = copies
  BY <1>17 DEF TakeJob
<1>18. ASSUME NEW t \in Threads, SeeStop(t) PROVE copies' = copies
  BY <1>18 DEF SeeStop
<1>19. ASSUME NEW t \in Threads, SkipConfirmed(t) PROVE copies' = copies
  BY <1>19 DEF SkipConfirmed
<1>20. ASSUME NEW t \in Threads, RecordExisting(t) PROVE copies' = copies
  BY <1>20 DEF RecordExisting
<1>21. ASSUME NEW t \in Threads, RejectOversize(t) PROVE copies' = copies
  BY <1>21 DEF RejectOversize, NotPresent
<1>22. ASSUME NEW t \in Threads, CountDryRun(t) PROVE copies' = copies
  BY <1>22 DEF CountDryRun, NotPresent
<1>23. ASSUME NEW t \in Threads, NeedsCopy(t) PROVE copies' = copies
  BY <1>23 DEF NeedsCopy, NotPresent
<1>24. ASSUME NEW t \in Threads, Reserve(t) PROVE copies' = copies
  BY <1>24 DEF Reserve
<1>25. ASSUME NEW t \in Threads, BudgetReached(t) PROVE copies' = copies
  BY <1>25 DEF BudgetReached
<1>27. ASSUME NEW t \in Threads, CopyRetried(t) PROVE copies' = copies
  BY <1>27 DEF CopyRetried
<1>29. ASSUME NEW t \in Threads, CopyRateLimited(t) PROVE copies' = copies
  BY <1>29 DEF CopyRateLimited
<1>30. ASSUME NEW t \in Threads, CopyQuota(t) PROVE copies' = copies
  BY <1>30 DEF CopyQuota
<1>31. ASSUME NEW t \in Threads, MarkCopied(t) PROVE copies' = copies
  BY <1>31 DEF MarkCopied
<1>32. ASSUME NEW t \in Threads, VerifyFails(t) PROVE copies' = copies
  BY <1>32 DEF VerifyFails
<1>33. ASSUME NEW t \in Threads, Flush(t) PROVE copies' = copies
  BY <1>33 DEF Flush
<1>34. ASSUME NEW t \in Threads, Reconcile(t) PROVE copies' = copies
  BY <1>34 DEF Reconcile
<1>35. ASSUME NEW t \in Threads, Serialize(t) PROVE copies' = copies
  BY <1>35 DEF Serialize
<1>36. ASSUME NEW t \in Threads, WriteLog(t) PROVE copies' = copies
  BY <1>36 DEF WriteLog
<1>37. ASSUME NEW t \in Threads, WriteLogFails(t) PROVE copies' = copies
  BY <1>37 DEF WriteLogFails
<1>38. CASE Signal
  BY <1>38 DEF Signal
<1>41. CASE UNCHANGED vars
  BY <1>41 DEF vars
<1>. QED BY <1>1, <1>2, <1>3, <1>4, <1>5, <1>6, <1>7, <1>8, <1>9, <1>10, <1>11,
    <1>12, <1>13, <1>14, <1>15, <1>16, <1>17, <1>18, <1>19, <1>20, <1>21,
    <1>22, <1>23, <1>24, <1>25, <1>27, <1>29, <1>30, <1>31, <1>32, <1>33,
    <1>34, <1>35, <1>36, <1>37, <1>38, <1>41 DEF Next, MainStep, CopyStep

\* While a run claims success, each file is at the destination exactly once.
SuccessInv ==
  phase = "finalize" /\ FullyOk => \A f \in Files : Len(copies[f]) = 1

\* Success is claimed only while it is true.
LEMMA SuccessSound == BaseInv /\ OnceInv /\ AccountInv => SuccessInv
<1> SUFFICES ASSUME BaseInv, OnceInv, AccountInv, phase = "finalize", FullyOk,
                    NEW f \in Files
             PROVE  Len(copies[f]) = 1
  BY DEF SuccessInv
<1>1. copies[f] \in Seq(Qualities) /\ Len(copies[f]) <= 1
  BY DEF BaseInv, TypeOK, OnceInv, AtMostOneCopy
<1>2. copies[f] # <<>>
  BY DEF AccountInv, FullyOk, Present
<1>3. Len(copies[f]) # 0
  BY <1>1, <1>2
<1>4. Len(copies[f]) \in Nat
  BY <1>1
<1>5. \A n \in Nat : n <= 1 /\ n # 0 => n = 1
  OBVIOUS
<1>. QED BY <1>1, <1>3, <1>4, <1>5

\* Every step of the engine is a step of the promise or leaves it alone.
LEMMA PromiseStep ==
  ASSUME BaseInv, OwnerInv, OnceInv, AccountInv, [Next]_vars,
         BaseInv', OnceInv', AccountInv',
         {"index", "retried"} \intersect Faults = {}
  PROVE  [Promise!Next]_(Promise!vars)
<1> DEFINE Dest == [f \in Files |-> Len(copies[f])]
           Success == phase = "finalize" /\ FullyOk
<1>1. SuccessInv /\ SuccessInv'
  BY SuccessSound, PTL
<1>2. \A f \in Files : Len(copies[f]) \in {0, 1} /\ Len(copies[f])' \in {0, 1}
  <2>1. \A s \in Seq(Qualities) : Len(s) <= 1 => Len(s) \in {0, 1}
    <3>1. \A s \in Seq(Qualities) : Len(s) \in Nat
      OBVIOUS
    <3>2. \A n \in Nat : n <= 1 => n \in {0, 1}
      OBVIOUS
    <3>. QED BY <3>1, <3>2
  <2>. QED BY <2>1 DEF BaseInv, TypeOK, OnceInv, AtMostOneCopy
<1>3. CASE copies' = copies
  <2>1. Dest' = Dest
    BY <1>3
  <2>2. CASE Success'
    <3>1. \A f \in Files : Dest[f] = 1
      BY <1>1, <1>3, <2>2 DEF SuccessInv
    <3>. QED BY <2>1, <2>2, <3>1 DEF Promise!Next, Promise!Succeed
  <2>3. CASE ~Success' /\ Success
    BY <2>1, <2>3 DEF Promise!Next, Promise!Forget
  <2>4. CASE ~Success' /\ ~Success
    BY <2>1, <2>4 DEF Promise!vars
  <2>. QED BY <2>2, <2>3, <2>4
<1>4. ASSUME NEW S \in SUBSET Files, ~Success',
             \A f \in Files : IF f \in S THEN Len(copies[f]) = 0 /\ Len(copies'[f]) = 1
                                          ELSE copies'[f] = copies[f]
      PROVE  [Promise!Next]_(Promise!vars)
  <2>1. \A f \in S : Dest[f] = 0
    BY <1>4
  <2>2. Dest' = [f \in Files |-> IF f \in S THEN 1 ELSE Dest[f]]
    BY <1>4
  <2>. QED BY <1>4, <2>1, <2>2 DEF Promise!Next, Promise!Deliver
<1>5. \A f \in Files : Len(copies[f]) = 0 <=> copies[f] = <<>>
  BY EmptySeq DEF BaseInv, TypeOK
<1>6. ASSUME NEW t \in Threads, CopyLands(t) \/ CopyFails(t), copies' # copies
      PROVE  [Promise!Next]_(Promise!vars)
  <2>1. file[t] \in Files /\ phase \in {"submit", "drain"} /\ copies[file[t]] = <<>>
    BY <1>6 DEF CopyLands, CopyFails, BaseInv, ThreadInv, Busy, OnceInv
  <2>2. phase' = phase
    BY <1>6 DEF CopyLands, CopyFails
  <2>3. PICK q \in Qualities : copies' = [copies EXCEPT ![file[t]] = Append(@, q)]
    BY <1>6 DEF CopyLands, CopyFails, Land, Qualities
  <2>4. \A f \in Files : IF f = file[t] THEN Len(copies'[f]) = 1 ELSE copies'[f] = copies[f]
    BY <2>1, <2>3, LandsOnce DEF BaseInv
  <2>5. \A f \in Files : IF f \in {file[t]} THEN Len(copies[f]) = 0 /\ Len(copies'[f]) = 1
                                           ELSE copies'[f] = copies[f]
    BY <1>5, <2>1, <2>4
  <2>. QED BY <1>4, <2>1, <2>2, <2>5
<1>7. CASE Crash
  <2> DEFINE S == {f \in Files : copies'[f] # copies[f]}
  <2>1. PICK asked \in SUBSET {t \in Threads : pc[t] = "copy"} :
          copies' = [f \in Files |-> IF \E t \in asked : file[t] = f
                                       THEN Append(copies[f], "match") ELSE copies[f]]
    BY <1>7 DEF Crash
  <2>2. phase' = "idle"
    BY <1>7 DEF Crash, EndRun
  <2>3. \A t \in asked : copies[file[t]] = <<>>
    BY DEF OnceInv
  <2>4. \A f \in Files : copies'[f] # copies[f] => copies[f] = <<>> /\ copies'[f] = Append(<<>>, "match")
    BY <2>1, <2>3
  <2>5. Len(Append(<<>>, "match")) = 1
    OBVIOUS
  <2>6. \A f \in Files : IF f \in S THEN Len(copies[f]) = 0 /\ Len(copies'[f]) = 1
                                   ELSE copies'[f] = copies[f]
    BY <1>5, <2>4, <2>5
  <2>7. S \in SUBSET Files
    OBVIOUS
  <2> HIDE DEF S
  <2>. QED BY <1>4, <2>2, <2>6, <2>7
<1>8. ASSUME NEW f \in Files, UserTrash(f) PROVE [Promise!Next]_(Promise!vars)
  <2>1. phase = "idle" /\ phase' = "idle" /\ copies' = [copies EXCEPT ![f] = <<>>]
    BY <1>8 DEF UserTrash
  <2>2. Dest' = [Dest EXCEPT ![f] = 0]
    <3>1. copies \in [Files -> Seq(Qualities)]
      BY DEF BaseInv, TypeOK
    <3>2. Len(<<>>) = 0
      OBVIOUS
    <3>3. \A g \in Files : copies'[g] = IF g = f THEN <<>> ELSE copies[g]
      BY <2>1, <3>1
    <3>4. \A g \in Files : Dest'[g] = [Dest EXCEPT ![f] = 0][g]
      BY <3>2, <3>3
    <3>. QED BY <3>4
  <2>. QED BY <2>1, <2>2 DEF Promise!Next, Promise!Remove
<1>. QED BY <1>3, <1>6, <1>7, <1>8, CopiesChange

\* The engine implements the promise: exactly one copy of a file comes to the
\* destination, no run removes it, and full success is claimed only while each
\* file is there; under the assumptions of OnceTheorem.
THEOREM PromiseTheorem ==
  ASSUME {"index", "retried"} \intersect Faults = {}
  PROVE  Spec => ImplementsPromise
<1>1. Init => Promise!Init
  <2>1. Len(<<>>) = 0
    OBVIOUS
  <2>. QED BY <2>1 DEF Init, Promise!Init
<1>2. Init => OwnerInv /\ OnceInv /\ ThereInv /\ AccountInv
  BY DEF Init, OwnerInv, OnceInv, Busy, AtMostOneCopy, ThereInv, AccountInv
<1>3. BaseInv /\ OwnerInv /\ OnceInv /\ ThereInv /\ AccountInv /\ [Next]_vars
        => OwnerInv' /\ OnceInv' /\ ThereInv' /\ AccountInv'
  BY OwnerStep, OnceStep, ThereStep, AccountStep
<1>4. BaseInv /\ OwnerInv /\ OnceInv /\ AccountInv /\ [Next]_vars
        /\ BaseInv' /\ OnceInv' /\ AccountInv'
        => [Promise!Next]_(Promise!vars)
  BY PromiseStep
<1>. QED BY <1>1, <1>2, <1>3, <1>4, BaseInvariant, PTL DEF Spec,
    ImplementsPromise, Promise!Spec
=============================================================================
