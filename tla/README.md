# A TLA+ model of gdrive_turbo_copy

gdrive_turbo_copy copies a Google Drive folder tree into another folder with
server-side copies, from several threads, and can be interrupted and run again.
This directory holds a TLA+ model of the program in `src/src/gdrive_turbo_copy/`
(paths below are relative to it), the TLC configurations that check it, and
TLAPS proofs about it.

## 1. The system

| component | state | operations | interacts with |
|---|---|---|---|
| **Copy engine** `copier.py` `Copier` | per run: `_state` (copied ids, failed items, folder map, completed folders), `_result`, `_stop`, `_futures`, `_dirty`, `_run_bytes`, `_consec_rate_fail` | `run`, `_process_level`, `_submit_file`, `_copy_file` and its failure paths, `_maybe_flush`, `_save_log`, `_drain_futures`, `_finalize`, `request_stop` | everything below; a `ThreadPoolExecutor` whose threads share the state under one `RLock` |
| **Resume store** `resume_store.py` | log files in the destination root, one name per account; `own_log_file_id` | `load` (merges all logs), `save` (update or create), `cleanup`, `export_failed_report`; `serialize`, `deserialize`, `migrate` | Drive client; called by the engine's threads without the engine's lock |
| **Traversal** `copier.py` | destination folders, `folder_map`, `visited`, `_tree` | `_copy_folder`, `_get_or_create_folder`, `_find_dest_folder`, `_process_level_fast`, `_batched_list`, `_compute_completed_folders`, `_is_descendant_of` | engine, Drive client |
| **Destination index** `copier.py` `DestinationIndex` | items by appProperty and by name, one per destination folder | `build`, `pop_by_app_prop`, `pop_match` | read and popped by all workers under the engine's lock |
| **Drive client** `drive_client.py`, `retry.py` | a service object per thread | `_run` (slot), `_exec` (retry loop, pacing, feedback) | controller, pacer, Drive |
| **Pacer** `pacer.py` | rate, tokens, cooldown, success streak | `acquire`, `record_throttle`, `record_success` | every call of every thread |
| **Concurrency controller** `concurrency.py` | limit, in flight, success streak, per kind of operation | `_acquire`, `_release`, `record_throttle`, `record_success` | every call of every thread |
| **Configuration and results** `models.py` | `CopyConfig`, `CopyResult`, `FailedItem`, `DriveFile` | `fully_ok`, validation, parsing | all |
| **Command line** `cli.py` | none | parse, build, run, print; signal handlers | engine |
| **Auth, logging, URLs** `auth.py`, `logging_utils.py`, `urls.py` | none that lasts | OAuth, formatting, one regular expression per link form | command line |

What is hard in it: worker threads and the traversal thread change shared state
at each lock region and wait for Drive in between; the process may die or be
stopped anywhere, and what it leaves behind (copies, logs) is what the next run
starts from; a reply may be lost although Drive carried the request out; saves
by several threads may land out of order; each failure has its own path through
the byte budget, the circuit breaker and three lists of failures. The hazards,
each at its line, are listed in `PROJECT.json`.

What makes each component correct:

* engine: no file is copied twice, none is skipped silently, the budget and the
  breaker hold for all threads together, every run ends, success is claimed
  only when it is true;
* resume store: a log never says more than what is at the destination, the last
  save wins, the run finds its own log again, a dry run writes nothing;
* traversal: a source folder has one destination folder in each place it is
  reached from, everything reachable is copied there in the end, a folder is
  skipped only if it is complete, the recursion ends;
* index: an item at the destination stands for at most one source file;
* client, pacer, controller: never more calls in flight than the limit allows,
  the rate stays within floor and ceiling, no thread waits for ever, a cooldown
  holds for all.

## 2. Modules

| module | what it is |
|---|---|
| `CopyEngine` | one source folder, its destination, the engine and the resume store, over any number of runs |
| `CopyPromise` | what the user is promised, with no runs, threads or failures in it |
| `MCCopyEngine` | sizes and symmetry for TLC |
| `CopyEngine_proofs` | type correctness and where the threads can be |
| `CopyEngine_once_proofs` | nothing copied twice, nothing skipped, `CopyPromise` implemented |
| `CopyEngine_log_proofs` | the resume log and dry runs; how far the circuit breaker can overshoot, the ledger of the byte budget |
| `FolderTraversal` | a source tree with shortcuts, the destination folders, the traversal thread and the pool, over any number of runs |
| `DestinationIndex` | matching source files with what is in a destination folder |
| `MirrorPromise` | what the user sees of the destination: places of the tree still without a counterpart |
| `MCFolderTraversal` | the source trees and what may go wrong with each, for TLC |
| `FolderTraversal_proofs` | types, no folder inside itself, one folder in each place |
| `FolderTraversal_surplus_proofs` | no surplus copies, and no folder filled from two indexes at once |
| `FolderTraversal_mirror_proofs` | that completed folders are complete, that full success leaves nothing out, `MirrorPromise` implemented |
| `AdaptivePacer` | the token bucket that every call of every thread goes through, with a clock |
| `AdaptivePacer_proofs` | its types, the ceiling, the present rate, the cooldown |
| `DriveClient` | a call to Drive: the slot of the concurrency controller around the retry loop |
| `DriveClient_proofs` | its types, the count of slots, the wake-ups |

`FolderTraversal` and `CopyEngine` share `_copy_file`: the first has it as one
step for each of its outcomes, in a tree of folders; the second opens it up, in
one folder. `FolderTraversal` uses `DestinationIndex` for what each level of the
tree finds at the destination.

The others meet at calls to Drive. `CopyEngine` takes a call as one step
with every outcome `DriveClient` can give it: done, raised, or carried out and
raised. `DriveClient` takes the pacer as a wait that ends, which
`AdaptivePacer` shows (`RequestsFlow`), and `AdaptivePacer` takes each attempt
as the retry loop makes it, in any order, with any answer.

### CopyEngine

Three groups of variables, by what ends them: what is on Drive (`copies`,
`logs`, `report`) survives everything; one `Copier` object (`phase` to `dirty`)
lives for one run; its threads (`pc`, `file`, `snap`) are inside `_copy_file`
or not. `Main` is the thread of `run()`: it follows `phase`, and copies the
targets of shortcuts itself (`_handle_container`), or every file if there is no
pool. `Workers` are the pool.

| in the code | in the model |
|---|---|
| `run()` lines 178-246 | `StartRun`, `LoadResume`, `LoadFails` |
| `_list_children`, `_build_index` | `ListSource`, `ListFails`, `ListQuota`, `BuildIndex`, `IndexFails` |
| the loop of `_process_level`, `_submit_file`, `_handle_container` | `SubmitFile`, `CopyInline`, `ShortcutUnresolved`, `EndLoop` |
| `_drain_futures`, `shutdown(wait=True)`, the `finally` block | `Drained`, `FinalSave` |
| `_copy_file_worker`, `_copy_file` 585-633 | `TakeJob`, `SeeStop`, `SkipConfirmed`, `RecordExisting`, `RejectOversize`, `CountDryRun`, `NeedsCopy` |
| the size guard 637-646 | `Reserve`, `BudgetReached` |
| `copy_file` and `_handle_copy_exception` | `CopyLands`, `CopyRetried`, `CopyFails`, `CopyRateLimited`, `CopyQuota` |
| `_verify_copy`, `_mark_copied` | `MarkCopied`, `VerifyFails` |
| `_maybe_flush`, `_reconcile_failed` | `Flush`, `Reconcile` |
| `_save_log`, `ResumeStore.save` | `Serialize`, then `WriteLog` or `WriteLogFails` |
| `_finalize`, `cleanup`, `export_failed_report` | `CleanUp`, `ExportReport` |
| `request_stop` | `Signal` |
| Drive, the operating system, the user | `Fault`, `Crash`, `UserTrash` |

A step is a lock region or a Drive call: between any two of them any other
thread, a signal or a crash may come. The steps of `_copy_file` between two
lock regions that touch only local data are joined to the next. The paths of a
copy that failed take the lock two or three times with nothing in between but
log lines: to give the bytes back, to reset or raise the streak, to record the
failure or set `_stop`. They are one step (`CopyFails`, `VerifyFails`,
`CopyRateLimited`, `CopyQuota`). Split, they would let another thread reserve
bytes, look at the streak or look at `_stop` in between: each of these is read
in a single lock region of its own, the budget counts a reservation that is not
given back yet as taken, which errs on the safe side, and a thread whose failure
reaches the breaker's threshold takes no other file before it has set `_stop`
itself, so that the bound of `BreakerBounded` still counts each thread once.

Abstractions, and why they keep the behaviour:

* A file is its effective id. Matching is by appProperties alone, so
  `verify_mode` plays no part; shortcuts point to files outside `Files`.
* A copy is `"match"` or `"differ"`: what `_verify_copy` tells apart.
* Sets stand for the lists of failed items: the engine asks only for
  membership and emptiness. `Reconciled` keeps the code's assignment.
* `queue` is a set: the pool's order of work decides nothing the properties see.
* `_futures` holds the futures not done. Done ones that are still in it make
  `_submit_file` call `wait`, which returns at once and takes them out.
* `serialize` is one step. It reads each list atomically under CPython's
  interpreter lock, without the engine's lock between two lists.
* `FullyOk` drops the conjuncts that hold whenever `completed` does.
* `_copy_file_worker` also records as a failure any exception that `_copy_file`
  itself does not handle (lines 569-574). Nothing in the modelled steps raises one.
* Faults that the environment may inject are named in `FaultKinds`; `Faults`
  enables some of them and `MaxFaults` bounds their number in a behaviour. It
  is the only bound in the specification itself.

### FolderTraversal, DestinationIndex, MirrorPromise

`folders` and `items` are on Drive and survive everything; a folder carries the
tag of the entry it stands for, and a destination root its resume log. The rest
is one `Copier`. `stack` holds the calls of `_process_level` under way, each
with its source folder, its destination folder, the entries left in its loop and
its index: it is the recursion of the code, and `visited` is read off it. `jobs`
are the files in the pool, each with the index of its level, which may be older
than the level now at the top.

| in the code | in the model |
|---|---|
| `run()` | `StartRun`, `OpenRoot`, `RootFails`, `Finish`, `Finalize` |
| `_list_children`, `_build_index` | `ListFolder`, `BuildIndex`, `ListingError` |
| the loops of `_process_level` and `_process_level_fast` | `SubmitFile`, `CopyInline`, `ShortcutUnresolved`, `LeaveLevel` |
| `_copy_folder`, `_enqueue_folder` | `LoopSkipped`, `SkipComplete`, `EnterFolder`, `CreateFails` |
| `_get_or_create_folder`, `_verify_dest_folder`, `_find_dest_folder` | `DestFor` (`Cached`, `Found`, `NewFolder`), `Obtain`, `CreationFails` |
| `_batched_list`, the loop behind it | `BatchedList` (`Batched`, `Relisted`, `SetKids`), `Descend` |
| `_copy_file`, `_copy_file_worker` | `CopyFile` in five outcomes; `RunJob`, `DropJobs` |
| `build`, `pop_by_app_prop`, `pop_match` | `Build`, `ByAppProp`, `Match`, `Pop` |
| `_record_tree_node`, `_compute_completed_folders` | `recorded`, `FilesComplete`, `Completed` |
| `_reconcile_failed`, `_maybe_flush`, `_save_log` | `Reconcile`, `Mark`, `SaveLog` |
| `_raise_if_fatal_quota`, `request_stop` | `QuotaStops`, `Signal` |
| Drive, the operating system, the user | `Fault`, `Crash`, `UserTrash`, `UserUpload` |

A step is one entry of a level, or one listing. Only the traversal thread
touches folders, so that nothing can come between two of its calls but a file of
the pool, a signal or a crash, and what it had in memory is lost in a crash
wherever that comes.

* A request to create a folder is carried out once, or not at all and raises, or
  is carried out and raises (its answer is lost), or is carried out, answered
  with a 5xx and carried out again by `execute_with_retry`: it has no idempotency
  key, so that two folders of one tag stand in one place (`"resent"`). A copy
  has the same four outcomes (`"copy"`, `"retried"`). A search or a verification
  that fails is answered with no, as in the code. Of the calls about one folder,
  and of those about one file, one goes wrong at most, and no request is carried
  out more than twice.
* The code takes the folder of the lowest id, which Drive chooses; here it is
  the one created first (`Index!First`). After a resent creation either of the
  two may be the one that is returned, which is what the order of ids decides.
* A failed item is the set of ids by which `_reconcile_failed` and
  `_compute_completed_folders` recognise it.
* A name, an md5 and a size are numbers; equal numbers are what the code compares.
* A node of `_tree` is a folder in `recorded`; its children are the source's,
  and whether its listing was clean is asked of `listErrs`. Folders contain each
  other without cycles, so that the cycle guard of `is_complete` never acts.
* `_batched_list` is one step for all folders put off, in batches of any size:
  any of them may be missing from the answer, and one listing may fail.
* The pool runs its jobs in any order and as late as it likes. That includes a
  pool of one, no pool, and any `max_pending`.
* After a folder is created the code calls `_save_log(force=False)`, which does
  nothing: every mark before it has flushed already when one was due.
* A save succeeds and one account works: `CopyEngine` has failed saves, several
  logs, saves under way at the same time, failed verification, the byte budget
  and the breaker. A worker that stops the run, for the quota, the budget or
  the breaker, is a `Signal` here.
* `Match` has no `allow_name_only`: `validate` refuses `name_only` without it.
* The source does not change, and does not contain the destination, which
  `run()` checks first (`_is_descendant_of`). Excludes and page ranges are part
  of the tree. A user who skips completed folders removes none of the copies:
  the README's "Fast resume" says that such a folder is not looked at again.

`MirrorPromise` has no runs in it but their beginning and end: a set `missing`
of places, which a run only makes smaller, success only when it is empty, and a
user who may do anything between runs. (Also its end may make it smaller: the
creation of the root folder raises, and was carried out.) A place is a way down the source tree,
through shortcuts too, that enters no folder twice; it is filled if folders
tagged for its entries stand one inside the other and, for a file, the last of
them holds as many items of its name and content as the source folder.

### AdaptivePacer

Each thread is outside, at the cooldown check, at the bucket, or has sent its
request; `nap` is what it still sleeps. One action per lock region of
`pacer.py`: `CheckCooldown`, `TakeToken` (with `Refilled` and `WaitForToken`),
`RecordSuccess`, `RecordThrottle`; `Arrive`, `Succeed`, `Throttle` and `Fail`
are `_exec` around it. `Tick` is `time.monotonic`: a thread may sleep longer
than it asked, never shorter.

* Tokens are counted in units, `Token` to a request, so that a rate is a whole
  number of units per tick. Halving rounds down, a sleep rounds up to a tick.
* `age` is the time since the last refill. It stops at `AgeCap`, when the bucket
  is full at any rate (`AgeAssumption`), so that nothing is lost.
* Two history variables are reference buckets that each request is charged to:
  `ceiling` fills at `MaxRate`, `allowance` at the present rate, starting full
  when the rate changes. That one of them is never negative says that over
  *every* interval the requests are at most its burst and what it fills.
* `embargo` and `overtaken` record what Drive asked for and who had passed the
  check by then. `embargo` is kept apart from `cooldown`, which the code sets.

### DriveClient

A thread is outside, at the lock of `_acquire` (`"enter"`), in `wait()`
(`"asleep"`), in `call()`, backing off, or about to give its slot back. Waking
is explicit: `notify_all` turns sleepers of every kind of operation to
`"enter"`. Errors are the classes `classify_error` tells apart, with throttles
apart from other transient ones. `successes` stops at `IncreaseAfter`, beyond
which its value makes no difference. `IncreaseAfter` is the same for all kinds
of operation, as in the program. `unheard` is a history variable for
`EveryThrottleReported`.

## 3. Runs

| run | question | instance |
|---|---|---|
| `engine_safety` | do the safety properties and the refinement hold under concurrency and failures? | 2 pool threads, 2 files and a shortcut, budget of 2 files, 2 faults of 15 kinds, dry runs too |
| `engine_limits` | how far can the breaker overshoot, can a log run ahead? | 1 pool thread and Main, 5 files, one over the single-file cap, 4 faults: rate limits, failed saves, a cleanup that stops half-way; threshold 2, flush at 3 |
| `engine_liveness` | does every run end, and does the tool recover? | 1 pool thread, 2 accounts in any turn, 1 pending future, budget of one file, 1 fault of 16 kinds |
| `engine_verified` | is full success only claimed for identical copies? (no) | 1 file, 1 fault |
| `engine_sticky` | is a run without failures recognised? (no) | 1 file, 1 listing error |
| `engine_report` | does the report name only what is not copied? (no) | 2 files, 3 faults |
| `traversal` | is the tree mirrored, once, by any sequence of runs that fail anywhere; is the promise kept; does every run end? | 4 trees (below), 1 fault of 15 kinds or 2 of some, flush at 2 |
| `traversal_twice` | is success only claimed when every place is filled? (no) | a folder reached in two ways with a folder in it, no fault |
| `pacer` | is the ceiling kept, the lowered rate, the cooldown; do requests flow, does the rate recover? | 3 threads, rates 2, 4, 5 (burst 4 to 10, 4 to a request), Retry-After none or 2 ticks |
| `pacer_slow` | is the ceiling kept when it is below the floor? (no) | 1 thread, ceiling 1, floor 2 |
| `client` | are slots and wake-ups exact, does every call end, does the limit recover? | 3 threads, limits 3 and 1, 2 attempts |
| `client_report` | is every throttle reported? (no) | 1 thread, 2 attempts |

**Why the bounds are enough.** The properties are about one file's path through
one run against another thread's or an earlier run's: two threads and three
files give every pair of positions in `_copy_file`, one file in the queue
behind them, and a shortcut on Main. Two faults give every pair of failures,
e.g. a lost reply and then a crash of the next run. `RateThreshold`,
`FlushEvery` and `MaxPending` (8, 50, 16 in the code) are small so that they are
reached and passed. Every run may be followed by another: the number of runs
is not bounded, only the faults are. The violation runs need one or two runs.

`engine_safety` leaves the faults `index` and `retried` out, since each of them
alone breaks `AtMostOneCopy`: a page of the destination that could not be
listed is only logged (`copier.py:968`), and a copy request has no idempotency
key, so that one which landed behind a 5xx reply is carried out again.
`engine_liveness` has both. `engine_liveness` leaves `list` out, since one
listing error stops `Converges` for ever (see `engine_sticky`).

`traversal` has four trees, each small enough for runs of every option its user
may choose to follow each other without bound. *Aliased*: a folder reached by
itself and through a shortcut, in it a loop back to the root; default traversal
and `--fast-list`. *Twins*: a shortcut to a file, two files equal in name and
content, an empty folder; `checksum` and `name_size`, previews too. *Nested*:
three levels with a Google-native document; `--skip-completed-folders` with
previews too, or `--fast-list` whose first batch has one folder in it.
*Crossed*: a file and a shortcut to it, whose failures clear each other
(`copier.py:1087`), with two faults of copies, shortcuts and crashes, so that
both are failed items at once. The first three meet any one fault of all kinds,
and two of copy failures and crashes (for *Twins* also of what the user
trashes), which is what it takes for a log to be out of date when the next run
is cut off. *Nested* also meets two faults (`Doubles`) of those that make a
second folder in one place and those that can make a later run take the other
one: resent and lost creations, failed searches and verifications, crashes.
Twelve or so files and folders at the destination are
the most that any behaviour makes. `FlushEvery` (50 in the code) is 2, so that
logs are written in the middle of runs.

What the trees of `traversal` leave out is named here, since it breaks
properties: a folder *below* one that is reached in two ways. `traversal_twice`
has it. `OneIndexPerFolder` and `NoSurplus` fail there too: both visits
use the same destination folder, and the second indexes it while files of the
first are still in the pool, so that these are copied twice into it.
`MCFolderTraversal` states the boundary as an assumption that TLC evaluates,
`OneWayDown` of every tree. `SuccessIsComplete` is part of
`ImplementsMirror` and so holds in the trees of `traversal` (and, by
`SuccessLeavesNothingOut`, in every such tree). `CompletedIsMirrored`
needs more of the trees whose user lets completed folders be skipped, since the
code knows a file and a folder by its id alone (`copier.py:1006`). `SkipsTell`
says what, and TLC evaluates it on the trees of the run; without it, on trees
that were tried apart from the runs: (a) where a folder completed in one place
is reached in another through a shortcut to a folder above it, the other place
is never filled and the run reports full success; (b) files copied through a
shortcut carry the ids of the folder's own files, and a stop between the two
visits makes the next run take the folder for completed, though it is not there;
(c) of two equal files of a folder, two runs that are stopped in turn mark one
each for the same copy, and the folder counts as completed with one item for two.
`OneFolderPerPlace` excepts a failed search
(`copier.py:848`), which is only logged, and a creation that was resent
(`retry.py:172`); `copier.py:854` expects to find several folders.
`NoSurplus` excepts a page of the destination that could not be
listed (`copier.py:968`), which is only logged, and a copy that was resent. A batch that returns some but
not all children of a folder (`copier.py:432`) is not modelled: Drive's pages
are taken to be complete, and only whole folders to be missing.

In `pacer` the rate goes down past a step that the floor cuts short and up past
one that the ceiling cuts short, a token takes one to two ticks to come in,
and a cooldown can be extended while one thread sleeps through it and another
waits for a token. In `client` a limit of 3 is halved below the three calls in
flight, and a limit of 1 makes threads wait while another kind of operation
wakes them. Neither model has a bound of its own: all calls, throttles and
ticks go on for ever.

**Properties.**

* `AtMostOneCopy`, `NothingSkipped`, `BytesAccounted`, `BreakerBounded`,
  `LogNeverAhead`, `FinalLogWins`, `DryRunWritesNothing`: stated with their
  meaning at the end of `CopyEngine`.
* `ImplementsPromise`: a file comes to the destination once, leaves only by
  the user's hand, and `fully_ok` is claimed only while everything is there.
* `RunEnds`, `Converges`: liveness.
* `NoFolderInsideItself`: the recursion is at most as deep as there are folders.
* `OneFolderPerPlace`: no second folder for an entry in the same place, whether
  the log has it or a search finds it, over all runs and crashes, also after a
  creation whose answer was lost, unless a search failed or a creation was resent.
* `OneIndexPerFolder`: whatever may still be copied into a destination folder,
  from the pool or from a level in its loop, uses one and the same index of it.
* `NoSurplus`: a folder never gets more copies of a content than its source has
  entries of it, whoever takes which item from whichever index first.
* `CompletedIsMirrored`: below what a run or a log calls completed nothing is
  missing.
* `ImplementsMirror`: no step of a run takes anything away, and `fully_ok` is
  claimed only when nothing is missing.
* `RunEnds`, `EventuallyMirrored` (liveness): whatever failed, running the tool
  again fills every place for good.
* `CeilingHolds`, `RateHolds`, `CooldownHolds`, and `RequestsFlow`,
  `RateRecovers` (liveness): at the end of `AdaptivePacer`. `CooldownHolds` is
  what `pacer.py:117` does; that "every worker pauses together" (README.md:81)
  leaves out the workers that are past that check when the cooldown opens.
* `SlotsConserved`, `NoMissedWakeup`, and `CallsEnd`, `WaitersServed`,
  `LimitRecovers` (liveness): at the end of `DriveClient`. Which thread is
  served is left open: `_acquire` and the bucket keep no queue, so that a
  single thread may in principle be passed over for ever.

**Fairness.** Weak fairness of Main, of each pool thread's taking a job, and of
each thread's `_copy_file`. It says that a thread which can go on does: a Drive
call returns after at most `max_attempts` tries (`retry.py`), and no step waits
for another thread except `_submit_file` and the drain, which the model gives
guards of their own. `Converges` also assumes that someone runs the tool again
(`Rerun`). Nothing is assumed of the environment except that its faults are
finitely many. In `FolderTraversal`: weak fairness of the traversal thread and
of the pool as a whole, for the same reason, and strong fairness of running the
tool again for a copy, since its user may make previews in between. In `AdaptivePacer` and `DriveClient`: time passes, a thread whose
sleep is over runs, and Drive answers or the connection breaks. Nobody has to
make another call.

**Divergences found** (each a run that TLC must find violated; the quotes are in
`PROJECT.json`): a copy that failed verification counts as done in the next run;
a listing error stays an unresolved failure for ever; the failed report names
files that have been copied since; a ceiling below one request per second is
raised by the first throttle; the throttle that exhausts the retries is
reported to nobody; a destination folder is taken from the folder map wherever
it stands, so that a folder below one that is reached in two ways is made once,
its files possibly twice, and full success is reported.

## 4. Proofs

For any number of files, threads, accounts and faults, any rates, limits and
attempts, from the named assumptions of each module (ids are distinct, a source
tree has finitely many folders, sizes are naturals, thresholds, rates and limits
are positive):

| theorem | statement | also assumes |
|---|---|---|
| `BaseInvariant`, `TypeCorrect` | `BaseInv`, `TypeOK` | |
| `OnceTheorem` | `[]AtMostOneCopy` | faults `index`, `retried` disabled |
| `NothingSkippedTheorem` | `[]NothingSkipped` | |
| `PromiseTheorem` | `Spec => ImplementsPromise` | as `OnceTheorem` |
| `LogTheorem` | `[]LogNeverAhead` | fault `userTrash` disabled |
| `FinalLogTheorem` | `[]FinalLogWins` | |
| `DryRunTheorem` | `DryRunWritesNothing` | |
| `BreakerTheorem` | `[]BreakerBounded` | a finite pool |
| `BytesTheorem` | `[]BytesAccounted` | |
| `TypeCorrect`, `NeverInsideItself` of `FolderTraversal_proofs` | `[]TypeOK`, `[]NoFolderInsideItself` of the traversal | |
| `OneFolderInEachPlace` | `[]OneFolderPerPlace`, with its two exceptions | |
| `OneIndexForEachFolder` | `[]OneIndexPerFolder` | `TreesOneWayDown` |
| `NoSurplusFromOneIndex` | `Spec /\ []OneIndexPerFolder => []NoSurplus` | `ModesTell` |
| `NoSurplusEver` | `[]NoSurplus` | `ModesTell`, `TreesOneWayDown` |
| `CompletedAreMirrored` | `[]CompletedIsMirrored` | `ModesTell`, `TreesOneWayDown`, `SkipsTell`, `VerificationsTell` |
| `SuccessLeavesNothingOut` | `[]SuccessIsComplete` | as `CompletedAreMirrored` |
| `TraversalImplementsMirror` | `Spec => ImplementsMirror` | as `CompletedAreMirrored` |
| `PacerTypeCorrect` | `[]TypeOK` of the pacer | |
| `CeilingTheorem` | `[]CeilingHolds` | `MinRate <= MaxRate` |
| `RateTheorem`, `CooldownTheorem` | `[]RateHolds`, `CooldownHolds` | |
| `ClientTypeCorrect` | `[]TypeOK` of the client | |
| `SlotTheorem`, `WakeupTheorem` | `[]SlotsConserved`, `[]NoMissedWakeup` | |

`TypeOK` is not inductive: that `file[t]` is a file follows from `t` being in
`_copy_file`, and that it is there only while the run is in its loop or drain
(`ThreadInv`). On this base stand the others:

* `OwnerInv`: a file is in one place (loop, queue, one thread), so that
  `OnceInv` can say of each place that the index is right about the file
  until the decision to copy and that there is no copy of it until one lands.
* `ThereInv` and `AccountInv`: a file is in one of those places, failed, or
  marked and present; the three collapse to `NothingSkipped` when the places
  are empty. A thread that left a file behind has set `_stop`.
* `PromiseStep`: if copies do not change, a step is `Succeed`, `Forget` or a
  stutter; if they do, it is one of four actions (`CopiesChange`), each a
  `Deliver` or a `Remove`. `SuccessSound` gives `Succeed` its guard.
* `LogInv`: what `copied`, a snapshot under way, and a log list is present.
* `FinalInv`: the snapshot of the final save is the final state, since every
  other thread is idle by then.

* `BreakerInv`: after the stop the streak and the number of threads still in
  flight together stay below the bound, since nobody passes the check of `_stop`
  any more and each further failure uses up one of them. All steps but that one
  are `Calm`.
* `BytesInv`: `BytesAccounted` is inductive on `BaseInv` once the bytes in
  transfer are a finite set, which they are as the pool is finite. A step
  moves at most one thread into a transfer (`Starts`) or out of one (`Ends`);
  that a copy which ends gives back, or adds to the result, exactly what its own
  thread reserved is what each failure path is checked for (`FailsKeeps`).
* Traversal, for any source tree: `Inv` says which frames can be on `stack`
  (each one's folder differs from those below it and from those that they have
  put off, and a level in its loop has an index that has been built), that jobs
  and indexes refer to what exists, and that `folderMap` and every log name
  existing folders. `NoFolderInsideItself` is
  its part about `stack`; the loop adds a frame only for a folder not in
  `Visited`. `OneFolderPerPlace` is preserved because a folder is created only
  if `Found` is empty, or else after one of the two faults that the property
  excepts, and the user only makes folders disappear; it is inductive on `Inv`, which says that the parent of a new folder exists.

* Pacer: `CeilingHolds` is not inductive, since a request may find the reference
  bucket empty in a state the invariant allows. `Ahead` is: a reference bucket
  holds at least what `acquire` would refill now at the reference's rate. A
  change of the rate reprices the time not yet credited, at most at the
  ceiling (`AheadTake`, `AheadTick`, `CeilingRate`, `RateRate`). Without
  `MinRate <= MaxRate` the ceiling fails, as `pacer_slow` shows.
* `CooldownInv`: whoever is at the bucket in a cooldown is in `overtaken`.
* Client: `Conserved` needs that a thread which leaves is a holder, and `TypeOK`
  (counts do not drop below zero) needs `Conserved`: they are proved as one
  invariant, `SlotInv`. `NoMissedWakeup` is inductive on `TypeOK`.

* No surplus copies. That a folder has at most as many copies of a content as
  its source has entries of it says nothing about the next copy: a worker copies
  when its *index* has no match, and the index was built earlier. So
  `LedgerInv` keeps an account per index in use: the copies in the folder that
  the index does not offer any more (`Taken`) are at most as many as the equal
  entries that are done with it (`Past`). A match moves an item and an entry
  over, a copy adds one to each side, a new index starts with nothing taken. It
  needs that an entry is handed out once (`ShapeInv`: what is in the pool is not
  left in a loop, one index has one folder; `ChildrenAssumption`: Drive lists no
  child twice), and that a document without a checksum whose copy exists is
  found by its id (`NativeOK`), since its content cannot be compared. It also needs
  that no other index of the folder is in use, which would not show what is
  copied meanwhile: that is `OneIndexPerFolder`, a hypothesis of
  `NoSurplusFromOneIndex`, which thereby holds for any tree.
* `OneIndexPerFolder` is not inductive: that a folder about to be entered is not
  in use already depends on every way the traversal may still take. `AheadInv`
  names a set of entries *ahead*: closed under what they lead to, holding
  everything the levels still have to come to, and apart from every folder that
  a level stands for, has put off, or the pool still copies into (`Busy`).
  Entering a folder takes its entry out of the set, which is where
  `TreesOneWayDown` is used: no other entry leads to it.
* What these theorems assume of the constants: `ModesTell`, that where a mode
  compares only names, or names and sizes, equal ones have equal contents, which
  is what a user who chooses such a mode says of the files (hazard
  `copier.py:111` is the case in which it is not so); `TreesOneWayDown`, that
  no folder is found below two entries that can be entered. *Aliased*, with its
  alias, its loop and a file below both, is such a tree; that of
  `traversal_twice` is not, and without this assumption both properties fail, as
  said above. `MCFolderTraversal` has TLC evaluate both for the trees of the run.

* `CompletedIsMirrored` is about a chain of runs: what this run takes for
  completed rests on what an earlier one wrote into a log, about files that no
  run looks at again. `MirrorInv` says of each log, and of the run under way,
  that what it marked as copied is held by a folder of *its own* map, and that
  what it took for completed has a folder of that map with all its files, no
  shortcuts, and completed subfolders (`DoneOK`). `MapsInv` says where the
  folders of a map are: each one that stands is in the folder the map has for an
  entry that leads there. `IndexInv` says that an index never offers an item from
  elsewhere, so that a match is a copy in the right folder. From these, what is
  below a completed folder follows by going up and down a way
  (`WayMapped`, `DoneBelow`, `DoneFilled`). Recursive functions over numbers
  (`PathsOf`, `FoldersAt`, `Under`) are unrolled with `Induct`, induction over
  the members of a set of numbers, which needs no operator as a parameter.
  `SkipsTell` is used for exactly the cases (a) to (c) above. `VerificationsTell`
  says that in a scenario with more than one fault failing verifications do not
  occur together with failing searches or resent creations: the proofs follow
  one `folderMap`, and a map that goes over from one of two folders of an entry
  to the other, which takes a fault to make the second and one to leave the
  first, is beyond them (`Unmistaken`). These combinations are model-checked
  only (`Doubles`).
* `ImplementsMirror` needs the converse of all that: not that what is there was
  asked for, but that what was asked for has been come to. `CoverInv` says of a
  run that is `Clean` (walking, not a preview, no stop, no failure, no listing
  error) that there is a set `V` of entries, the root in it, such that each
  entry of `V` has a destination folder that stands, and
    * whatever can follow an entry of `V` on a way is in `V`, was completed before,
      or is *due*: in the loop, or among the folders put off, of a level that
      stands for that entry (`CoverAt`);
    * the files of an entry of `V` are still to be looked at, or each is
      *settled*: as many items of its content have been taken from one index of
      the folder, or copied into it, as equal entries are done with (`FilesAt`,
      `SettledBy`). It is `LedgerInv` the other way round, and holds also for
      folders that are in use no more.

  Each step hands over from one set of levels to the next (`HandsOver`): it may
  add an entry to `V` (`EnterFolder`), start the files of one (`BuildIndex`), or
  take work off a level. An entry that the loop passes by is one that no way goes
  to (a loop back, which is why ways enter no folder twice; `LineOK` makes of
  the stack a way) or one completed before. Where nothing is on the stack and
  nothing in the pool, nothing is due, so `V` has every folder of the tree that
  was not completed before, and every file of those is settled with no work left
  (`NothingLeft`); the rest is `CompletedIsMirrored`. A run that is not `Clean`
  cannot report full success. That steps of a run empty no place
  (`MissingShrinks`) follows from folders and items staying what they are.

Only model-checked: liveness (`RunEnds`, `Converges`, `EventuallyMirrored`,
`RequestsFlow` and the others), out of the prover's reach, and the violations.

## 5. Not modelled, and the plan

Left for later, in this order:

1. The walk of `_is_descendant_of` up the parents, which gives up after 200
   nodes and takes a failed lookup for a dead end.
2. `migrate` and `deserialize`: old schema versions lose nothing.
3. `_preflight` and `validate`: early returns before anything is written.

Left out for good: parsing and formatting of Drive metadata, links, options and
log lines; OAuth; the notebook; the byte-level JSON of the resume log.
