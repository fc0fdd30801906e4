----------------------------- MODULE CopyEngine -----------------------------
(***************************************************************************)
(* The copy engine of gdrive_turbo_copy (copier.py) copying the children   *)
(* of one source folder into one destination folder, run after run,        *)
(* together with the resume log it keeps there (resume_store.py).          *)
(*                                                                         *)
(* Main is the thread that executes Copier.run(): it loads the resume      *)
(* logs, lists the source, indexes the destination, hands the files to a   *)
(* ThreadPoolExecutor, waits for it, saves the log and finishes.  It also  *)
(* copies the targets of shortcuts itself, and every file when the pool is *)
(* not used (workers = 1).  The worker threads and Main all execute        *)
(* Copier._copy_file, one step here per lock region or Drive call; the     *)
(* lock regions that follow a failed copy one on the other are one step.   *)
(*                                                                         *)
(* Drive, the process being killed, the user pressing Ctrl-C and the user  *)
(* deleting copies between two runs are the environment.  It may do so     *)
(* MaxFaults times over the whole behaviour, in the ways Faults enables.   *)
(***************************************************************************)
EXTENDS Integers, Sequences, FiniteSets

CONSTANTS
  Files,         \* the source items: effective ids of _copy_file (source or shortcut id)
  Shortcuts,     \* those of them that are shortcuts to a file
  Folder,        \* the source folder, as the failed item a listing error records
  Workers,       \* pool threads; {} stands for workers = 1, where no pool exists
  Main,          \* the thread of run()
  Accounts,      \* Google accounts that take turns on the same destination
  LogIds,        \* ids Drive gives to resume log files; never exhausted
  None,
  Size,          \* Size[f], bytes of f (0 for Google-native documents)
  Budget,        \* max_copy_size_gb in bytes, 0 = unlimited
  MaxSingle,     \* MAX_SINGLE_FILE_COPY_GB in bytes
  RateThreshold, \* RATE_LIMIT_STOP_THRESHOLD (8 in the code)
  FlushEvery,    \* _flush_every (50 in the code)
  MaxPending,    \* max_pending of _submit_file
  DryRuns,       \* values of --dry-run the user may choose for a run
  Faults,        \* the kinds of fault the environment may inject
  MaxFaults      \* how many faults it injects (the bound of the model)

Threads  == Workers \union {Main}
Items    == Files \union {Folder}
Qualities == {"match", "differ"}   \* is a landed copy identical to its source?
FaultKinds == {"rate", "quota", "reject", "lost", "retried", "differ",
               "unverifiable", "shortcut", "list", "index", "load", "save",
               "report", "trash", "signal", "crash", "userTrash"}

ASSUME ShortcutAssumption == Shortcuts \subseteq Files
ASSUME ItemAssumption     == Folder \notin Files /\ None \notin Files
ASSUME ThreadAssumption   == Main \notin Workers
ASSUME PoolAssumption     == IsFiniteSet(Workers)
ASSUME LogIdAssumption    == None \notin LogIds
ASSUME LogAssumption      == None \notin [account : Accounts, copied : SUBSET Files,
                                         failed : SUBSET (Files \union {Folder})]
ASSUME SizeAssumption     == Size \in [Files -> Nat]
ASSUME LimitAssumption    == /\ Budget \in Nat
                             /\ MaxSingle \in Nat
                             /\ RateThreshold \in Nat \ {0}
                             /\ FlushEvery \in Nat \ {0}
                             /\ MaxPending \in Nat \ {0}
ASSUME DryRunAssumption   == DryRuns \subseteq BOOLEAN
ASSUME FaultAssumption    == Faults \subseteq FaultKinds /\ MaxFaults \in Nat

VARIABLES
  \* On Drive, and so surviving the process:
  copies,      \* copies[f]: the copies of f in the destination, oldest first
  logs,        \* logs[i]: content of resume log file i, None if there is none
  report,      \* the items of failed_report.json, {} if there is none
  \* One Copier object, gone when its run ends or its process dies:
  phase,       \* where run() is
  account,     \* the account of this run
  dry,         \* config.dry_run
  own,         \* resume.own_log_file_id
  completed,   \* run()'s local: drained without a stop
  stop,        \* _stop.is_set()
  index,       \* effective ids still in the DestinationIndex
  todo,        \* children the loop of _process_level has not reached
  queue,       \* files submitted to the pool and not started
  copied,      \* _state.copied_ids
  stateFailed, \* _state.failed_items
  failed,      \* _result.failed_items
  prevFailed,  \* _result.previous_failed_items
  listErr,     \* _result.had_listing_errors
  saveFailed,  \* _result.log_save_failed
  runBytes,    \* _run_bytes: reserved or copied
  resBytes,    \* _result.copied_bytes: copied and verified
  consec,      \* _consec_rate_fail
  dirty,       \* _dirty: marks since the last save began
  \* Its threads:
  pc,          \* pc[t]: where t is in _copy_file
  file,        \* file[t]: the file t is copying
  snap,        \* snap[t]: what ResumeStore.save serialised, and the log it writes
  \* The environment:
  faults       \* faults it may still inject

driveVars   == <<copies, logs, report>>
configVars  == <<account, dry>>
levelVars   == <<index, todo, queue>>
failVars    == <<stateFailed, failed, prevFailed>>
flagVars    == <<listErr, saveFailed>>
byteVars    == <<runBytes, resBytes>>
threadVars  == <<pc, file, snap>>
vars == <<driveVars, phase, configVars, own, completed, stop, levelVars, copied,
          failVars, flagVars, byteVars, consec, dirty, threadVars, faults>>

Log  == [account : Accounts, copied : SUBSET Files, failed : SUBSET Items]
Snap == [target : LogIds \union {None}, log : Log]
Phases == {"idle", "load", "list", "index", "submit", "drain", "save", "finalize"}
Pcs == {"idle", "start", "reserve", "copy", "verify", "flush", "reconcile",
        "flushSave", "stopSave", "finalSave"}

TypeOK ==
  /\ copies \in [Files -> Seq(Qualities)]
  /\ logs \in [LogIds -> Log \union {None}]
  /\ report \subseteq Items
  /\ phase \in Phases
  /\ account \in Accounts \union {None} /\ dry \in BOOLEAN
  /\ own \in LogIds \union {None}
  /\ completed \in BOOLEAN /\ stop \in BOOLEAN
  /\ index \subseteq Files /\ todo \subseteq Files /\ queue \subseteq Files
  /\ copied \subseteq Files
  /\ stateFailed \subseteq Items /\ failed \subseteq Items /\ prevFailed \subseteq Items
  /\ listErr \in BOOLEAN /\ saveFailed \in BOOLEAN
  /\ runBytes \in Int /\ resBytes \in Nat
  /\ consec \in Nat /\ dirty \in Nat
  /\ pc \in [Threads -> Pcs]
  /\ file \in [Threads -> Files \union {None}]
  /\ snap \in [Threads -> Snap \union {None}]
  /\ faults \in 0..MaxFaults

-----------------------------------------------------------------------------
(* Helpers                                                                 *)

\* The environment spends one fault of an enabled kind.
Fault(kind) == kind \in Faults /\ faults > 0 /\ faults' = faults - 1

\* Files with at least one copy in the destination.
Present == {f \in Files : copies[f] # <<>>}

LogsOnDrive == {i \in LogIds : logs[i] # None}
LoggedCopied == UNION {logs[i].copied : i \in LogsOnDrive}
LoggedFailed == UNION {logs[i].failed : i \in LogsOnDrive}

\* Files _copy_file runs on the traversal thread itself.
Inline(f) == f \in Shortcuts \/ Workers = {}

\* Futures not done: what _submit_file waits on when there are too many.
Pending == Cardinality(queue) + Cardinality({w \in Workers : pc[w] # "idle"})

\* The size guard's test, over the reservations of all threads.
OverBudget(f) == Budget > 0 /\ runBytes + Size[f] > Budget

\* CopyResult.fully_ok at the end of a run.
FullyOk == /\ completed
           /\ failed = {} /\ prevFailed = {}
           /\ ~listErr
           /\ ~dry
           /\ ~saveFailed

Goto(t, l) == pc' = [pc EXCEPT ![t] = l] /\ UNCHANGED <<file, snap>>

\* _copy_file returns, or a worker swallows its QuotaStopped.
Return(t) == /\ pc'   = [pc EXCEPT ![t] = "idle"]
             /\ file' = [file EXCEPT ![t] = None]
             /\ UNCHANGED snap

\* QuotaStopped: a worker ends its job, Main leaves the traversal.
Raise(t) == /\ Return(t)
            /\ phase' = IF t = Main THEN "drain" ELSE phase

RecordFailed(x) == /\ stateFailed' = stateFailed \union {x}
                   /\ failed'      = failed \union {x}
                   /\ UNCHANGED prevFailed

\* _copy_file begins for f on thread t.
Begin(t, f) == /\ pc'   = [pc EXCEPT ![t] = "start"]
               /\ file' = [file EXCEPT ![t] = f]
               /\ UNCHANGED snap

-----------------------------------------------------------------------------
(* A run begins: a new Copier and its ResumeStore, whatever the last left. *)

\* The Copier's state before its run: everything a dead process loses.
FreshCopier ==
  /\ own' = None /\ completed' = FALSE /\ stop' = FALSE
  /\ index' = {} /\ todo' = {} /\ queue' = {}
  /\ copied' = {} /\ stateFailed' = {} /\ failed' = {} /\ prevFailed' = {}
  /\ listErr' = FALSE /\ saveFailed' = FALSE
  /\ runBytes' = 0 /\ resBytes' = 0 /\ consec' = 0 /\ dirty' = 0
  /\ pc'   = [t \in Threads |-> "idle"]
  /\ file' = [t \in Threads |-> None]
  /\ snap' = [t \in Threads |-> None]

EndRun == phase' = "idle" /\ account' = None /\ dry' = FALSE /\ FreshCopier

Init ==
  /\ copies = [f \in Files |-> <<>>]
  /\ logs = [i \in LogIds |-> None]
  /\ report = {}
  /\ phase = "idle" /\ account = None /\ dry = FALSE
  /\ own = None /\ completed = FALSE /\ stop = FALSE
  /\ index = {} /\ todo = {} /\ queue = {}
  /\ copied = {} /\ stateFailed = {} /\ failed = {} /\ prevFailed = {}
  /\ listErr = FALSE /\ saveFailed = FALSE
  /\ runBytes = 0 /\ resBytes = 0 /\ consec = 0 /\ dirty = 0
  /\ pc   = [t \in Threads |-> "idle"]
  /\ file = [t \in Threads |-> None]
  /\ snap = [t \in Threads |-> None]
  /\ faults = MaxFaults

\* run() after its validation and preflight, which change nothing.
StartRun(a, d) ==
  /\ phase = "idle"
  /\ phase' = "load" /\ account' = a /\ dry' = d
  /\ UNCHANGED <<driveVars, own, completed, stop, levelVars, copied, failVars,
                 flagVars, byteVars, consec, dirty, threadVars, faults>>

\* ResumeStore.load and _merge_resume.  Several logs may carry the account's
\* name; the one Drive lists last becomes the run's own.
LoadResume ==
  /\ phase = "load" /\ phase' = "list"
  /\ LET mine == {i \in LogsOnDrive : logs[i].account = account}
     IN  IF mine = {} THEN own' = None ELSE own' \in mine
  /\ copied' = LoggedCopied
  /\ prevFailed' = LoggedFailed
  /\ UNCHANGED <<driveVars, configVars, completed, stop, levelVars, stateFailed,
                 failed, flagVars, byteVars, consec, dirty, threadVars, faults>>

\* A log that cannot be listed, read or verified ends the run before it starts.
LoadFails ==
  /\ phase = "load" /\ Fault("load")
  /\ EndRun
  /\ UNCHANGED driveVars

\* _list_children of the source folder.
ListSource ==
  /\ phase = "list" /\ phase' = "index"
  /\ todo' = Files
  /\ UNCHANGED <<driveVars, configVars, own, completed, stop, index, queue, copied,
                 failVars, flagVars, byteVars, consec, dirty, threadVars, faults>>

\* A page fails: the pages before it are used, and the folder is a failed item.
ListFails ==
  /\ phase = "list" /\ Fault("list") /\ phase' = "index"
  /\ \E part \in SUBSET Files : todo' = part
  /\ listErr' = TRUE
  /\ RecordFailed(Folder)
  /\ UNCHANGED <<driveVars, configVars, own, completed, stop, index, queue, copied,
                 saveFailed, byteVars, consec, dirty, threadVars>>

\* A fatal quota error in either listing leaves the traversal.
ListQuota ==
  /\ phase \in {"list", "index"} /\ Fault("quota")
  /\ stop' = TRUE /\ phase' = "drain"
  /\ UNCHANGED <<driveVars, configVars, own, completed, levelVars, copied, failVars,
                 flagVars, byteVars, consec, dirty, threadVars>>

\* A bug: only the files a resume log lists are looked for.
IndexedBug == Present \intersect copied

\* What a complete listing of the destination finds by appProperties.
Indexed == Present

\* _build_index of the destination folder.
BuildIndex ==
  /\ phase = "index" /\ phase' = "submit"
  /\ index' = Indexed
  /\ UNCHANGED <<driveVars, configVars, own, completed, stop, todo, queue, copied,
                 failVars, flagVars, byteVars, consec, dirty, threadVars, faults>>

\* A page of the destination fails: the error is logged and the rest is missing.
IndexFails ==
  /\ phase = "index" /\ Fault("index") /\ phase' = "submit"
  /\ \E part \in SUBSET Indexed : index' = part
  /\ UNCHANGED <<driveVars, configVars, own, completed, stop, todo, queue, copied,
                 failVars, flagVars, byteVars, consec, dirty, threadVars>>

-----------------------------------------------------------------------------
(* The loop of _process_level on Main.                                     *)

\* _submit_file with a pool: waits while max_pending futures are not done.
SubmitFile(f) ==
  /\ phase = "submit" /\ pc[Main] = "idle" /\ ~stop
  /\ f \in todo /\ ~Inline(f)
  /\ Pending < MaxPending
  /\ todo' = todo \ {f} /\ queue' = queue \union {f}
  /\ UNCHANGED <<driveVars, phase, configVars, own, completed, stop, index, copied,
                 failVars, flagVars, byteVars, consec, dirty, threadVars, faults>>

\* _handle_container for a shortcut, _submit_file without a pool.
CopyInline(f) ==
  /\ phase = "submit" /\ pc[Main] = "idle" /\ ~stop
  /\ f \in todo /\ Inline(f)
  /\ todo' = todo \ {f}
  /\ Begin(Main, f)
  /\ UNCHANGED <<driveVars, phase, configVars, own, completed, stop, index, queue,
                 copied, failVars, flagVars, byteVars, consec, dirty, faults>>

\* _resolve_shortcut fails: the shortcut is reported, nothing is copied.
ShortcutUnresolved(f) ==
  /\ phase = "submit" /\ pc[Main] = "idle" /\ ~stop
  /\ f \in todo \intersect Shortcuts /\ Fault("shortcut")
  /\ todo' = todo \ {f}
  /\ RecordFailed(f)
  /\ UNCHANGED <<driveVars, phase, configVars, own, completed, stop, index, queue,
                 copied, flagVars, byteVars, consec, dirty, threadVars>>

\* The loop ends at its last child or at the first check that sees a stop.
EndLoop ==
  /\ phase = "submit" /\ pc[Main] = "idle"
  /\ todo = {} \/ stop
  /\ phase' = "drain"
  /\ UNCHANGED <<driveVars, configVars, own, completed, stop, levelVars, copied,
                 failVars, flagVars, byteVars, consec, dirty, threadVars, faults>>

\* Bugs: jobs in the queue, or jobs that are saving the log, are not waited for.
QuietQueueBug == \A t \in Threads : pc[t] = "idle"
QuietSaveBug  == queue = {} /\ \A t \in Threads : pc[t] \in {"idle", "flushSave"}

\* _drain_futures and shutdown(wait=True): every job has returned.
Quiet == queue = {} /\ \A t \in Threads : pc[t] = "idle"

Drained ==
  /\ phase = "drain" /\ Quiet
  /\ completed' = ~stop
  /\ phase' = IF dry THEN "finalize" ELSE "save"
  /\ UNCHANGED <<driveVars, configVars, own, stop, levelVars, copied, failVars,
                 flagVars, byteVars, consec, dirty, threadVars, faults>>

-----------------------------------------------------------------------------
(* _copy_file on thread t.                                                 *)

\* A pool thread takes a job.
TakeJob(w, f) ==
  /\ pc[w] = "idle" /\ f \in queue
  /\ queue' = queue \ {f}
  /\ Begin(w, f)
  /\ UNCHANGED <<driveVars, phase, configVars, own, completed, stop, index, todo,
                 copied, failVars, flagVars, byteVars, consec, dirty, faults>>

\* A job that starts after the stop does nothing.
SeeStop(t) ==
  /\ pc[t] = "start" /\ stop
  /\ Return(t)
  /\ UNCHANGED <<driveVars, phase, configVars, own, completed, stop, levelVars, copied,
                 failVars, flagVars, byteVars, consec, dirty, faults>>

\* The resume log lists f and appProperties at the destination confirm it.
SkipConfirmed(t) ==
  /\ pc[t] = "start" /\ ~stop
  /\ file[t] \in copied /\ file[t] \in index
  /\ index' = index \ {file[t]}
  /\ Goto(t, "reconcile")
  /\ UNCHANGED <<driveVars, phase, configVars, own, completed, stop, todo, queue, copied,
                 failVars, flagVars, byteVars, consec, dirty, faults>>

\* f is at the destination though no log says so: pop_match, _record_existing.
RecordExisting(t) ==
  /\ pc[t] = "start" /\ ~stop
  /\ file[t] \notin copied /\ file[t] \in index
  /\ index' = index \ {file[t]}
  /\ copied' = copied \union {file[t]}
  /\ dirty' = dirty + 1
  /\ Goto(t, "flush")
  /\ UNCHANGED <<driveVars, phase, configVars, own, completed, stop, todo, queue,
                 failVars, flagVars, byteVars, consec, faults>>

\* A bug: _submit_file keeps the engine's lock while it waits for a future, and
\* the jobs it waits for need that lock for this step.
NotPresentBug(t) ==
  /\ t = Main \/ phase # "submit" \/ stop \/ todo \subseteq Shortcuts \/ Pending < MaxPending
  /\ pc[t] = "start" /\ ~stop
  /\ file[t] \notin index
  /\ copied' = copied \ {file[t]}
  /\ UNCHANGED <<driveVars, phase, configVars, own, completed, stop, levelVars,
                 flagVars, byteVars, consec, dirty, faults>>

\* f is not at the destination: an entry of the log that says so is dropped.
\* The file is then rejected, counted (dry run) or goes on to be copied.
NotPresent(t) ==
  /\ pc[t] = "start" /\ ~stop
  /\ file[t] \notin index
  /\ copied' = copied \ {file[t]}
  /\ UNCHANGED <<driveVars, phase, configVars, own, completed, stop, levelVars,
                 flagVars, byteVars, consec, dirty, faults>>

RejectOversize(t) ==
  /\ NotPresent(t)
  /\ Size[file[t]] > MaxSingle
  /\ RecordFailed(file[t])
  /\ Return(t)

CountDryRun(t) ==
  /\ NotPresent(t)
  /\ Size[file[t]] <= MaxSingle /\ dry
  /\ Return(t)
  /\ UNCHANGED failVars

NeedsCopy(t) ==
  /\ NotPresent(t)
  /\ Size[file[t]] <= MaxSingle /\ ~dry
  /\ Goto(t, "reserve")
  /\ UNCHANGED failVars

\* A bug: the file is marked copied before it is.
ReserveBug(t) ==
  /\ pc[t] = "reserve" /\ ~OverBudget(file[t])
  /\ runBytes' = runBytes + Size[file[t]]
  /\ copied' = copied \union {file[t]}
  /\ Goto(t, "copy")
  /\ UNCHANGED <<driveVars, phase, configVars, own, completed, stop, levelVars,
                 failVars, flagVars, resBytes, consec, dirty, faults>>

\* The bytes are reserved under the lock before the copy is asked for.
Reserve(t) ==
  /\ pc[t] = "reserve" /\ ~OverBudget(file[t])
  /\ runBytes' = runBytes + Size[file[t]]
  /\ Goto(t, "copy")
  /\ UNCHANGED <<driveVars, phase, configVars, own, completed, stop, levelVars, copied,
                 failVars, flagVars, resBytes, consec, dirty, faults>>

\* The size guard stops the run; this path raises without saving the log.
BudgetReached(t) ==
  /\ pc[t] = "reserve" /\ OverBudget(file[t])
  /\ stop' = TRUE
  /\ Raise(t)
  /\ UNCHANGED <<driveVars, configVars, own, completed, levelVars, copied, failVars,
                 flagVars, byteVars, consec, dirty, faults>>

\* Drive makes a copy of f.
Land(f, q) == copies' = [copies EXCEPT ![f] = Append(@, q)]

CopyLands(t) ==
  /\ pc[t] = "copy"
  /\ \/ Land(file[t], "match") /\ UNCHANGED faults
     \/ Land(file[t], "differ") /\ Fault("differ")
  /\ Goto(t, "verify")
  /\ UNCHANGED <<logs, report, phase, configVars, own, completed, stop, levelVars,
                 copied, failVars, flagVars, byteVars, consec, dirty>>

\* The copy is made, its reply is lost with a 5xx, and execute_with_retry
\* sends the request again.
CopyRetried(t) ==
  /\ pc[t] = "copy" /\ Fault("retried")
  /\ copies' = [copies EXCEPT ![file[t]] = Append(Append(@, "match"), "match")]
  /\ Goto(t, "verify")
  /\ UNCHANGED <<logs, report, phase, configVars, own, completed, stop, levelVars,
                 copied, failVars, flagVars, byteVars, consec, dirty>>

\* A bug: the reservation is kept.
ReleaseBug(f) == UNCHANGED runBytes

\* A failed copy or a failed verification gives its reservation back.
Release(f) == runBytes' = runBytes - Size[f]

\* The copy fails for good, for a reason that is neither a quota nor a rate
\* limit; "lost" is a connection that breaks after Drive has made the copy.
CopyFails(t) ==
  /\ pc[t] = "copy"
  /\ \/ Fault("reject") /\ UNCHANGED copies
     \/ Fault("lost") /\ Land(file[t], "match")
  /\ Release(file[t])
  /\ consec' = 0
  /\ RecordFailed(file[t])
  /\ Return(t)
  /\ UNCHANGED <<logs, report, phase, configVars, own, completed, stop, levelVars,
                 copied, flagVars, resBytes, dirty>>

\* A bug: the streak must exceed the threshold.
TrippedBug == consec + 1 > RateThreshold

\* The streak including the failure at hand reaches the threshold.
Tripped == consec + 1 >= RateThreshold

\* The retries of a copy are exhausted on rate limits: below the threshold the
\* file is a failed item, at the threshold the circuit breaker stops the run.
CopyRateLimited(t) ==
  /\ pc[t] = "copy" /\ Fault("rate")
  /\ Release(file[t])
  /\ consec' = consec + 1
  /\ \/ /\ ~Tripped
        /\ RecordFailed(file[t])
        /\ Return(t)
        /\ UNCHANGED stop
     \/ /\ Tripped
        /\ stop' = TRUE
        /\ Goto(t, "stopSave")
        /\ UNCHANGED failVars
  /\ UNCHANGED <<driveVars, phase, configVars, own, completed, levelVars, copied,
                 flagVars, resBytes, dirty>>

\* A fatal quota error stops the run; the file is not a failed item.
CopyQuota(t) ==
  /\ pc[t] = "copy" /\ Fault("quota")
  /\ Release(file[t])
  /\ stop' = TRUE
  /\ Goto(t, "stopSave")
  /\ UNCHANGED <<driveVars, phase, configVars, own, completed, levelVars, copied,
                 failVars, flagVars, resBytes, consec, dirty>>

\* The copy just made is fetched again and compared, then marked copied.
Newest(f) == copies[f][Len(copies[f])]

MarkCopied(t) ==
  /\ pc[t] = "verify" /\ Newest(file[t]) = "match"
  /\ copied' = copied \union {file[t]}
  /\ resBytes' = resBytes + Size[file[t]]
  /\ dirty' = dirty + 1
  /\ consec' = 0
  /\ Goto(t, "flush")
  /\ UNCHANGED <<driveVars, phase, configVars, own, completed, stop, levelVars, failVars,
                 flagVars, runBytes, faults>>

\* It differs, or it could not be fetched.  It stays where it is.
VerifyFails(t) ==
  /\ pc[t] = "verify"
  /\ \/ Newest(file[t]) = "differ" /\ UNCHANGED faults
     \/ Fault("unverifiable")
  /\ Release(file[t])
  /\ consec' = 0
  /\ RecordFailed(file[t])
  /\ Return(t)
  /\ UNCHANGED <<driveVars, phase, configVars, own, completed, stop, levelVars, copied,
                 flagVars, resBytes, dirty>>

\* A bug: a dry run flushes too.
FlushDueBug == dirty >= FlushEvery

\* _maybe_flush: the thread whose mark reaches _flush_every saves the log.
FlushDue == dirty >= FlushEvery /\ ~dry

Flush(t) ==
  /\ pc[t] = "flush"
  /\ \/ FlushDue /\ dirty' = 0 /\ Goto(t, "flushSave")
     \/ ~FlushDue /\ Goto(t, "reconcile") /\ UNCHANGED dirty
  /\ UNCHANGED <<driveVars, phase, configVars, own, completed, stop, levelVars, copied,
                 failVars, flagVars, byteVars, consec, faults>>

\* A bug: a previous failure stays one.
LeftBug(t) == prevFailed

\* The previous failures that are not the file this thread has dealt with.
Left(t) == prevFailed \ {file[t]}

\* The list _reconcile_failed assigns to _state.failed_items: what is left of
\* the previous failures, then what the list held already.
Reconciled(left) == left \union stateFailed

\* _reconcile_failed: f is no longer a previous failure.
Reconcile(t) ==
  /\ pc[t] = "reconcile"
  /\ IF prevFailed = {}
       THEN UNCHANGED failVars
       ELSE /\ prevFailed' = Left(t)
            /\ stateFailed' = Reconciled(Left(t))
            /\ UNCHANGED failed
  /\ Return(t)
  /\ UNCHANGED <<driveVars, phase, configVars, own, completed, stop, levelVars, copied,
                 flagVars, byteVars, consec, dirty, faults>>

-----------------------------------------------------------------------------
(* _save_log and ResumeStore.save, by whichever thread got there.          *)

Saving(t) == pc[t] \in {"flushSave", "stopSave", "finalSave"}

\* run()'s finally block forces a save once the pool is gone.
FinalSave ==
  /\ phase = "save" /\ pc[Main] = "idle"
  /\ Goto(Main, "finalSave")
  /\ UNCHANGED <<driveVars, phase, configVars, own, completed, stop, levelVars, copied,
                 failVars, flagVars, byteVars, consec, dirty, faults>>

\* What serialize writes of the state.
Serialised == [account |-> account, copied |-> copied, failed |-> stateFailed]

\* serialize(state), and the branch on own_log_file_id.  A forced save resets
\* _dirty here, a flush has done so already.
Serialize(t) ==
  /\ Saving(t) /\ snap[t] = None
  /\ snap' = [snap EXCEPT ![t] =
                [target |-> own,
                 log    |-> Serialised]]
  /\ dirty' = IF pc[t] = "flushSave" THEN dirty ELSE 0
  /\ UNCHANGED <<driveVars, phase, configVars, own, completed, stop, levelVars, copied,
                 failVars, flagVars, byteVars, consec, pc, file, faults>>

NewLog == CHOOSE i \in LogIds : logs[i] = None

\* The single Drive call: update the run's own log, or create one.
StoreSnap(t) ==
  LET i == IF snap[t].target = None THEN NewLog ELSE snap[t].target
  IN  /\ i \in LogIds
      /\ logs' = [logs EXCEPT ![i] = snap[t].log]

\* A bug: the content is kept instead of the id.
KeepIdBug(t) == own' = IF snap[t].target = None THEN snap[t].log ELSE own

\* The id of a created log is kept once the call has returned it.
KeepId(t) == own' = IF snap[t].target = None THEN NewLog ELSE own

\* What the thread does after the save.
AfterSave(t) ==
  /\ snap' = [snap EXCEPT ![t] = None]
  /\ IF pc[t] = "flushSave"
       THEN pc' = [pc EXCEPT ![t] = "reconcile"] /\ UNCHANGED <<file, phase>>
       ELSE /\ pc'   = [pc EXCEPT ![t] = "idle"]
            /\ file' = [file EXCEPT ![t] = None]
            /\ phase' = CASE pc[t] = "finalSave" -> "finalize"
                          [] t = Main /\ pc[t] = "stopSave" -> "drain"
                          [] OTHER -> phase

WriteLog(t) ==
  /\ Saving(t) /\ snap[t] # None
  /\ StoreSnap(t) /\ KeepId(t)
  /\ AfterSave(t)
  /\ UNCHANGED <<copies, report, configVars, completed, stop, levelVars, copied, failVars,
                 flagVars, byteVars, consec, dirty, faults>>

\* The call fails, and may have been carried out all the same.
WriteLogFails(t) ==
  /\ Saving(t) /\ snap[t] # None /\ Fault("save")
  /\ StoreSnap(t) \/ UNCHANGED logs
  /\ saveFailed' = TRUE
  /\ AfterSave(t)
  /\ UNCHANGED <<copies, report, configVars, own, completed, stop, levelVars, copied,
                 failVars, listErr, byteVars, consec, dirty>>

-----------------------------------------------------------------------------
(* _finalize, and the environment.                                         *)

\* A fully successful run trashes every log and the report, each on its own.
CleanUp ==
  /\ phase = "finalize" /\ FullyOk
  /\ \/ /\ logs' = [i \in LogIds |-> None] /\ report' = {}
        /\ UNCHANGED faults
     \/ /\ Fault("trash")
        /\ \E kept \in SUBSET LogsOnDrive :
              logs' = [i \in LogIds |-> IF i \in kept THEN logs[i] ELSE None]
        /\ report' \in {report, {}}
  /\ EndRun
  /\ UNCHANGED copies

\* Any other run writes what failed in it and before it, unless it was dry.
AllFailed == prevFailed \union failed

ExportReport ==
  /\ phase = "finalize" /\ ~FullyOk
  /\ \/ /\ report' = IF AllFailed # {} /\ ~dry THEN AllFailed ELSE report
        /\ UNCHANGED faults
     \/ Fault("report") /\ AllFailed # {} /\ ~dry /\ UNCHANGED report
  /\ EndRun
  /\ UNCHANGED <<copies, logs>>

\* SIGINT or SIGTERM: request_stop.
Signal ==
  /\ phase # "idle" /\ ~stop /\ Fault("signal")
  /\ stop' = TRUE
  /\ UNCHANGED <<driveVars, phase, configVars, own, completed, levelVars, copied, failVars,
                 flagVars, byteVars, consec, dirty, threadVars>>

\* The process dies.  Copies it was waiting for may be made nevertheless.
Crash ==
  /\ phase # "idle" /\ Fault("crash")
  /\ \E asked \in SUBSET {t \in Threads : pc[t] = "copy"} :
        copies' = [f \in Files |-> IF \E t \in asked : file[t] = f
                                     THEN Append(copies[f], "match")
                                     ELSE copies[f]]
  /\ EndRun
  /\ UNCHANGED <<logs, report>>

\* Between two runs the user removes what was copied for f.
UserTrash(f) ==
  /\ phase = "idle" /\ f \in Present /\ Fault("userTrash")
  /\ copies' = [copies EXCEPT ![f] = <<>>]
  /\ UNCHANGED <<logs, report, phase, configVars, own, completed, stop, levelVars, copied,
                 failVars, flagVars, byteVars, consec, dirty, threadVars>>

-----------------------------------------------------------------------------
CopyStep(t) ==
  \/ SeeStop(t) \/ SkipConfirmed(t) \/ RecordExisting(t)
  \/ RejectOversize(t) \/ CountDryRun(t) \/ NeedsCopy(t)
  \/ Reserve(t) \/ BudgetReached(t)
  \/ CopyLands(t) \/ CopyRetried(t) \/ CopyFails(t) \/ CopyRateLimited(t) \/ CopyQuota(t)
  \/ MarkCopied(t) \/ VerifyFails(t)
  \/ Flush(t) \/ Reconcile(t)
  \/ Serialize(t) \/ WriteLog(t) \/ WriteLogFails(t)

MainStep ==
  \/ LoadResume \/ LoadFails
  \/ ListSource \/ ListFails \/ ListQuota \/ BuildIndex \/ IndexFails
  \/ \E f \in Files : SubmitFile(f) \/ CopyInline(f) \/ ShortcutUnresolved(f)
  \/ EndLoop \/ Drained \/ FinalSave \/ CleanUp \/ ExportReport

Next ==
  \/ \E a \in Accounts, d \in DryRuns : StartRun(a, d)
  \/ MainStep
  \/ \E w \in Workers, f \in Files : TakeJob(w, f)
  \/ \E t \in Threads : CopyStep(t)
  \/ Signal \/ Crash
  \/ \E f \in Files : UserTrash(f)

Spec == Init /\ [][Next]_vars

\* Every thread that can take a step eventually does (each Drive call returns
\* after at most max_attempts tries), and an unfinished copy is run again.
Fairness ==
  /\ WF_vars(MainStep)
  /\ \A w \in Workers : WF_vars(\E f \in Files : TakeJob(w, f))
  /\ \A t \in Threads : WF_vars(CopyStep(t))

Rerun == \E a \in Accounts, d \in DryRuns : StartRun(a, d)

FairSpec  == Spec /\ Fairness
RerunSpec == FairSpec /\ WF_vars(Rerun)

-----------------------------------------------------------------------------
(* What the engine promises.                                               *)

\* Whatever crashes, lost replies, stops, failed saves and deletions happen
\* between and during runs, no file is copied twice: the decision to copy is
\* still right when the copy is made.  (README "Idempotent".)
AtMostOneCopy == \A f \in Files : Len(copies[f]) <= 1

\* No resume log ever lists a file that is not at the destination, however
\* many threads save snapshots and in whatever order the saves land.
LogNeverAhead == LoggedCopied \subseteq Present

\* A run that ends without a stop and listed its source has accounted for each
\* child: it is a failed item, or it is marked copied and is at the
\* destination.  No job is lost between loop, queue, pool and failure lists.
NothingSkipped ==
  phase = "finalize" /\ completed /\ ~listErr /\ ~dry
    => Files \subseteq (copied \intersect Present) \union failed

\* The circuit breaker lets no more than the copies already in flight fail on
\* rate limits after the one that trips it.
BreakerBounded == consec < RateThreshold + Cardinality(Threads)

\* The forced save at the end of a run is the last word: no flush begun
\* earlier overwrites it, and it is in the log the run will find again.
FinalLogWins ==
  phase = "finalize" /\ ~dry /\ ~saveFailed
    => /\ own \in LogsOnDrive
       /\ logs[own] = Serialised

\* The bytes being copied or verified, one element for each byte of each thread.
BytesOf(t) == {t} \X (1..Size[file[t]])
InTransfer == {t \in Threads : pc[t] \in {"copy", "verify"}}
BytesInTransfer == UNION {BytesOf(t) : t \in InTransfer}

\* The reservation ledger is exact between any two steps of any threads: what
\* was reserved is what was copied and verified plus what is being copied, and
\* the threads together never reserve more than the budget.
BytesAccounted == /\ runBytes = resBytes + Cardinality(BytesInTransfer)
                  /\ Budget > 0 => runBytes <= Budget

\* A dry run changes nothing on Drive, on any path through the engine.
DryRunWritesNothing == [][dry => UNCHANGED driveVars]_vars

\* Every run comes to an end: no thread waits for another for ever, whatever
\* fails, and however small the bound on pending futures is.
RunEnds == phase # "idle" ~> phase = "idle"

\* Running the tool again and again ends in a fully successful run once the
\* faults cease: nothing a fault left behind stops it from ever succeeding.
Converges == []<>(phase = "finalize" /\ FullyOk)

\* The engine implements what the user is promised: a file's copies are counted
\* in the destination, and success is claimed by a fully_ok run in _finalize.
Promise == INSTANCE CopyPromise
             WITH dest    <- [f \in Files |-> Len(copies[f])],
                  success <- phase = "finalize" /\ FullyOk
ImplementsPromise == Promise!Spec

\* (Violated.)  A failed report names only what has not been copied.
ReportHonest == phase = "finalize" => AllFailed \intersect copied = {}

\* (Violated.)  A run that listed and copied everything without any failure of
\* its own is recognised as fully successful.
SuccessRecognised ==
  phase = "finalize" /\ completed /\ failed = {} /\ ~listErr /\ ~dry /\ ~saveFailed
    => FullyOk

\* (Violated.)  A run is fully successful only if each file has a copy
\* that is identical to its source.
SuccessMeansVerified ==
  phase = "finalize" /\ FullyOk
    => \A f \in Files : \E k \in 1..Len(copies[f]) : copies[f][k] = "match"
=============================================================================
