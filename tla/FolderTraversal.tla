--------------------------- MODULE FolderTraversal ---------------------------
(***************************************************************************)
(* The traversal of gdrive_turbo_copy (copier.py): a source tree with      *)
(* shortcuts is walked depth first and rebuilt under the destination, run  *)
(* after run.  The traversal thread finds or creates the destination       *)
(* folders, lists the source folders, indexes the destination folders and  *)
(* hands each file, with the index of its level, to the worker pool.       *)
(*                                                                         *)
(* A file's _copy_file is one step here: CopyEngine looks inside it.  The  *)
(* pool may run the files in any order and as late as it likes, which      *)
(* includes workers = 1.  The steps of the traversal thread are one per    *)
(* entry of a level: nobody else touches folders, and what a run had in    *)
(* memory between two of its Drive calls is lost in a crash either way.    *)
(*                                                                         *)
(* The environment fails calls, kills or stops runs, and touches the       *)
(* destination between runs, as often as the scenario lets it.             *)
(***************************************************************************)
EXTENDS Integers, Sequences, FiniteSets

CONSTANTS
  Folders,    \* source folders
  Root,       \* the one to copy
  Files,      \* source files
  Shortcuts,  \* source shortcuts
  Target,     \* Target[s]: the folder or file shortcut s points to
  Name, Md5, Size, None,
  Scenarios,  \* source trees, each with the options its user may choose from
              \* and how often its environment may interfere, in which ways
  FlushEvery  \* _flush_every (50 in the code)

Ids    == Folders \union Files \union Shortcuts
Source(e) == IF e \in Shortcuts THEN Target[e] ELSE e
FolderEntries == {e \in Ids : Source(e) \in Folders}
FileEntries   == {e \in Ids : Source(e) \in Files}
FaultKinds == {"create", "resent", "verify", "search", "list", "batch", "index",
               "shortcut", "copy", "retried", "quota", "signal", "crash", "trash",
               "upload"}

Index == INSTANCE DestinationIndex WITH Entries <- FileEntries

Options   == [skip : BOOLEAN, fast : BOOLEAN, dry : BOOLEAN, mode : Index!Modes]
Scenario  == [children : [Folders -> Seq(Ids)], options : SUBSET Options,
              faults : SUBSET FaultKinds, budget : Nat]

ASSUME FiniteAssumption   == IsFiniteSet(Folders)
ASSUME RootAssumption     == Root \in Folders
ASSUME IdAssumption       == /\ Folders \intersect Files = {}
                             /\ Shortcuts \intersect (Folders \union Files) = {}
                             /\ None \notin Ids
ASSUME TargetAssumption   == Target \in [Shortcuts -> Folders \union Files]
ASSUME ScenarioAssumption == \A s \in Scenarios : s \in Scenario
ASSUME ChildrenAssumption == \A s \in Scenarios, f \in Folders :
                                \A i, j \in DOMAIN s.children[f] :
                                  i # j => s.children[f][i] # s.children[f][j]
ASSUME FlushAssumption    == FlushEvery \in Nat \ {0}

VARIABLES
  scenario,  \* the source tree and who works with it, which never changes
  \* On Drive, and so surviving the process:
  folders,   \* destination folders in order of creation; the first is the parent
  items,     \* files in them, in order of creation
  \* One run of the tool:
  phase,     \* where run() is
  opt,       \* its CopyConfig
  droot,     \* _state.dest_root_id, 0 if there is none
  stop,      \* _stop.is_set()
  completed, \* run()'s local: drained without a stop
  stack,     \* the calls of _process_level under way, outermost first
  indexes,   \* the DestinationIndex objects built so far
  jobs,      \* files submitted to the pool and not done
  folderMap, \* _state.folder_map, 0 for no entry
  copied,    \* _state.copied_ids
  done,      \* _state.completed_folders
  stateFailed, failed, prevFailed,  \* the three lists of failed items
  recorded,  \* keys of _tree
  listErrs,  \* _listing_error_folders
  dirty,     \* _dirty
  \* The environment:
  faults,    \* faults it may still inject
  spoiled    \* those of them that some properties have to except

driveVars == <<folders, items>>
walkVars  == <<stack, indexes, jobs>>
failVars  == <<stateFailed, failed, prevFailed>>
treeVars  == <<recorded, listErrs>>
markVars  == <<copied, dirty>>
runVars   == <<phase, opt, droot, stop, completed>>
envVars   == <<faults, spoiled>>
vars == <<scenario, driveVars, runVars, walkVars, folderMap, markVars, done,
          failVars, treeVars, envVars>>

Nothing == 0     \* no folder, no item
DestParent == 1  \* the folder the user named

\* A failed item is the set of ids it can be recognised by.
FailedItem == SUBSET Ids
Log  == [copied : SUBSET FileEntries, map : [FolderEntries -> Nat],
         done : SUBSET Folders, failed : SUBSET FailedItem]
DestFolder == [key : FolderEntries \union {None}, parent : Nat, live : BOOLEAN,
               log : Log \union {None}]
Item  == [folder : Nat, of : FileEntries, tool : BOOLEAN, live : BOOLEAN]
Pending == [src : Folders, dest : Nat, kids : Seq(Ids)]
Stages  == {"list", "index", "loop", "descend"}
Frame == [src : Folders, dest : Nat, stage : Stages, todo : Seq(Ids), index : Nat,
          pending : Seq(Pending)]
Job   == [entry : Files, dest : Nat, index : Nat]
Phases == {"idle", "open", "walk", "finish"}

TypeOK ==
  /\ scenario \in Scenarios
  /\ folders \in Seq(DestFolder) /\ items \in Seq(Item)
  /\ phase \in Phases /\ opt \in Options \union {None}
  /\ droot \in Nat /\ stop \in BOOLEAN /\ completed \in BOOLEAN
  /\ stack \in Seq(Frame) /\ indexes \in Seq(Index!Indexes) /\ jobs \subseteq Job
  /\ folderMap \in [FolderEntries -> Nat]
  /\ copied \subseteq FileEntries /\ done \subseteq Folders
  /\ stateFailed \subseteq FailedItem /\ failed \subseteq FailedItem
  /\ prevFailed \subseteq FailedItem
  /\ recorded \subseteq Folders /\ listErrs \subseteq Folders
  /\ dirty \in Nat
  /\ faults \in Nat /\ spoiled \subseteq FaultKinds

-----------------------------------------------------------------------------
(* Helpers                                                                 *)

Children(f) == scenario.children[f]
ChildSet(f) == {Children(f)[i] : i \in DOMAIN Children(f)}

Top == stack[Len(stack)]
SetTop(frame) == stack' = [stack EXCEPT ![Len(stack)] = frame]
Next1 == [Top EXCEPT !.todo = Tail(@)]
Return == stack' = SubSeq(stack, 1, Len(stack) - 1)

\* A bug: only the folder being processed counts as visited.
VisitedBug == {Top.src}

\* The set that _process_level passes down: the folders on the current path.
Visited == {stack[i].src : i \in DOMAIN stack}

\* The environment spends one fault of an enabled kind.
Fault(kind) ==
  /\ kind \in scenario.faults /\ faults > 0 /\ faults' = faults - 1
  /\ spoiled' = spoiled \union ({kind} \intersect {"search", "resent", "index", "retried"})

RecordFailed(keys) == /\ stateFailed' = stateFailed \union {keys}
                      /\ failed' = failed \union {keys}
                      /\ UNCHANGED prevFailed

\* _reconcile_failed: nothing at all if no failure is left of earlier runs.
Reconcile(e) ==
  LET rest == {item \in prevFailed : item \intersect {e, Source(e)} = {}}
  IN  IF prevFailed = {} THEN UNCHANGED failVars
      ELSE /\ prevFailed' = rest
           /\ stateFailed' = rest \union stateFailed
           /\ UNCHANGED failed

\* What ResumeStore.save writes into the destination root.
SaveLog(copiedNow, doneNow) ==
  IF opt.dry \/ droot = Nothing THEN UNCHANGED folders
  ELSE folders' = [folders EXCEPT ![droot].log =
         [copied |-> copiedNow, map |-> folderMap, done |-> doneNow,
          failed |-> stateFailed]]

\* The state of a Copier before its run: all that a dead process loses.
FreshCopier ==
  /\ opt' = None /\ droot' = Nothing /\ stop' = FALSE /\ completed' = FALSE
  /\ stack' = <<>> /\ indexes' = <<>> /\ jobs' = {}
  /\ folderMap' = [e \in FolderEntries |-> Nothing]
  /\ copied' = {} /\ done' = {} /\ dirty' = 0
  /\ stateFailed' = {} /\ failed' = {} /\ prevFailed' = {}
  /\ recorded' = {} /\ listErrs' = {}

EndRun == phase' = "idle" /\ FreshCopier /\ UNCHANGED scenario

Init ==
  /\ scenario \in Scenarios
  /\ folders = <<[key |-> None, parent |-> Nothing, live |-> TRUE, log |-> None]>>
  /\ items = <<>>
  /\ phase = "idle" /\ opt = None /\ droot = Nothing
  /\ stop = FALSE /\ completed = FALSE
  /\ stack = <<>> /\ indexes = <<>> /\ jobs = {}
  /\ folderMap = [e \in FolderEntries |-> Nothing]
  /\ copied = {} /\ done = {} /\ dirty = 0
  /\ stateFailed = {} /\ failed = {} /\ prevFailed = {}
  /\ recorded = {} /\ listErrs = {}
  /\ faults = scenario.budget /\ spoiled = {}

-----------------------------------------------------------------------------
(* _get_or_create_folder                                                   *)

\* _verify_dest_folder of the cached id: alive and made for this entry.  Where
\* the folder is does not matter to it.
Cached(e) == LET d == folderMap[e]
             IN  d # Nothing /\ folders[d].live /\ folders[d].key = e

\* A bug: no search, a folder that is not in the log is created.
FoundBug(parent, e) == {}

\* A bug: a shortcut is looked for under the id of its target.
FoundBySourceBug(parent, e) == {d \in DOMAIN folders :
  /\ folders[d].live /\ folders[d].parent = parent
  /\ folders[d].key # None /\ Source(folders[d].key) = Source(e)}

\* The folders _find_dest_folder can return.
Found(parent, e) == {d \in DOMAIN folders : /\ folders[d].live
                                            /\ folders[d].parent = parent
                                            /\ folders[d].key = e}

\* A bug: a preview hands out a folder that nobody creates.
NewFolderBug == IF opt.dry THEN None ELSE Len(folders) + 1

NewFolder == IF opt.dry THEN Nothing ELSE Len(folders) + 1

\* The folder it returns, a new one if it is Len(folders) + 1.  Whichever of its
\* two questions fails is answered with no: the folder of the log is not what it
\* should be, or there is none to be found.
DestFor(parent, e, failing) ==
  IF parent = Nothing THEN Nothing
  ELSE IF failing # "verify" /\ Cached(e) THEN folderMap[e]
  ELSE IF failing # "search" /\ Found(parent, e) # {} THEN Index!First(Found(parent, e))
  ELSE NewFolder

IsNew(d) == d = Len(folders) + 1

\* The request to create a folder, with its tag in the same call, is carried out.
Created(fs, parent, e) ==
  Append(fs, [key |-> e, parent |-> parent, live |-> TRUE, log |-> None])

\* What it does to Drive.  One of its calls at most goes wrong; "resent" is a
\* request that was carried out and answered with a 5xx, so that
\* execute_with_retry sends it again: of the two folders the one with the
\* lower id, which a later search returns, may be either.  The log is not
\* written: _maybe_flush has left fewer marks than that takes.
Obtain(parent, e, d) ==
  LET usual == DestFor(parent, e, "none")
  IN  \/ /\ \/ d = usual /\ UNCHANGED envVars
            \/ \E call \in {"verify", "search"} :
                  d = DestFor(parent, e, call) /\ d # usual /\ Fault(call)
         /\ folders' = IF IsNew(d) THEN Created(folders, parent, e) ELSE folders
      \/ /\ IsNew(usual) /\ d \in {usual, usual + 1} /\ Fault("resent")
         /\ folders' = Created(Created(folders, parent, e), parent, e)

Destinations(parent, e) ==
  {DestFor(parent, e, failing) : failing \in {"none", "verify", "search"}}
  \union {Len(folders) + 2}

\* The creation fails for good, and may have been carried out all the same.
CreationFails(parent, e) ==
  /\ IsNew(DestFor(parent, e, "none")) /\ Fault("create")
  /\ UNCHANGED folders \/ folders' = Created(folders, parent, e)

NewFrame(src, dest, stage, kids) ==
  [src |-> src, dest |-> dest, stage |-> stage, todo |-> kids, index |-> 0,
   pending |-> <<>>]

-----------------------------------------------------------------------------
(* run(): the root folder and the log in it                                *)

StartRun(o) ==
  /\ phase = "idle" /\ phase' = "open" /\ opt' = o
  /\ UNCHANGED <<scenario, driveVars, droot, stop, completed, walkVars, folderMap,
                 markVars, done, failVars, treeVars, envVars>>

\* The destination root, then load and _merge_resume: an entry of the log's
\* folder map does not replace the one just found.
OpenRoot ==
  /\ phase = "open" /\ phase' = "walk"
  /\ \E d \in Destinations(DestParent, Root) :
       LET log == IF d \in DOMAIN folders THEN folders[d].log ELSE None
       IN  /\ Obtain(DestParent, Root, d)
           /\ folderMap' = [e \in FolderEntries |->
                              IF e = Root THEN d
                              ELSE IF log = None THEN Nothing ELSE log.map[e]]
           /\ copied' = IF log = None THEN {} ELSE log.copied
           /\ done' = IF log = None THEN {} ELSE log.done
           /\ prevFailed' = IF log = None THEN {} ELSE log.failed
           /\ droot' = d
           /\ stack' = <<NewFrame(Root, d, "list", <<>>)>>
  /\ UNCHANGED <<scenario, items, opt, stop, completed, indexes, jobs, dirty,
                 stateFailed, failed, treeVars>>

\* The root cannot be created, or the quota is used up: nothing is saved.
RootFails ==
  /\ phase = "open"
  /\ \/ Fault("quota") /\ UNCHANGED folders
     \/ CreationFails(DestParent, Root)
  /\ EndRun /\ UNCHANGED items

-----------------------------------------------------------------------------
(* The files of a level: _copy_file, with the index of the level           *)

\* _record_existing and _mark_copied, with the flush they make due.
Mark(e) ==
  /\ copied' = copied \union {e}
  /\ IF dirty + 1 >= FlushEvery /\ ~opt.dry
     THEN SaveLog(copied \union {e}, done) /\ dirty' = 0
     ELSE UNCHANGED folders /\ dirty' = dirty + 1

\* A bug: an id the log lists is trusted.
ConfirmedBug(e, ix) == e \in copied

\* An id the log lists is trusted only while an item in the index carries it.
Confirmed(e, ix) == e \in copied /\ Index!ByAppProp(indexes[ix], e) # 0
Distrust(e) == copied' = copied \ {e}

PopIndex(ix, i) == indexes' = [indexes EXCEPT ![ix] = Index!Pop(@, i)]
Matched(e, ix) == Index!Match(items, indexes[ix], e, opt.mode)

SkipConfirmed(e, ix) ==
  /\ Confirmed(e, ix)
  /\ PopIndex(ix, Index!ByAppProp(indexes[ix], e))
  /\ Reconcile(e)
  /\ UNCHANGED <<driveVars, markVars, envVars>>

RecordExisting(e, ix) ==
  /\ ~Confirmed(e, ix) /\ Matched(e, ix) # 0
  /\ PopIndex(ix, Matched(e, ix))
  /\ Mark(e) /\ Reconcile(e)
  /\ UNCHANGED <<items, envVars>>

CountDryRun(e, ix) ==
  /\ opt.dry /\ Matched(e, ix) = 0
  /\ Distrust(e)
  /\ UNCHANGED <<driveVars, dirty, indexes, failVars, envVars>>

\* Drive makes a copy of e in folder d.
Landed(its, e, d) == Append(its, [folder |-> d, of |-> e, tool |-> TRUE, live |-> TRUE])

\* A request that was answered with a 5xx after it was carried out is sent again.
CopyLands(e, d, ix) ==
  /\ ~opt.dry /\ Matched(e, ix) = 0
  /\ \/ items' = Landed(items, e, d) /\ UNCHANGED envVars
     \/ items' = Landed(Landed(items, e, d), e, d) /\ Fault("retried")
  /\ Mark(e) /\ Reconcile(e)
  /\ UNCHANGED indexes

\* The copy fails for good, and may have been made all the same.
CopyFails(e, d, ix) ==
  /\ ~opt.dry /\ Matched(e, ix) = 0 /\ Fault("copy")
  /\ UNCHANGED items \/ items' = Landed(items, e, d)
  /\ Distrust(e) /\ RecordFailed({e, Source(e)})
  /\ UNCHANGED <<folders, dirty, indexes>>

CopyFile(e, d, ix) ==
  /\ \/ SkipConfirmed(e, ix) \/ RecordExisting(e, ix) \/ CountDryRun(e, ix)
     \/ CopyLands(e, d, ix) \/ CopyFails(e, d, ix)
  /\ UNCHANGED <<scenario, runVars, folderMap, done, treeVars>>

\* A worker takes a file: any of those submitted, at any time.
RunJob ==
  \E j \in jobs :
    /\ ~stop
    /\ jobs' = jobs \ {j}
    /\ CopyFile(j.entry, j.dest, j.index)
    /\ UNCHANGED stack

\* After a stop the pool's jobs return at once.
DropJobs ==
  /\ stop /\ jobs # {} /\ jobs' = {}
  /\ UNCHANGED <<scenario, driveVars, runVars, stack, indexes, folderMap, markVars,
                 done, failVars, treeVars, envVars>>

-----------------------------------------------------------------------------
(* A level: _list_children, _build_index, the loop over the entries        *)

Prefixes(s) == {SubSeq(s, 1, n) : n \in 0..Len(s)}

\* A page fails: the pages before it are used, the folder is a failed item.
ListingError(f) ==
  /\ Fault("list")
  /\ listErrs' = listErrs \union {f}
  /\ RecordFailed({f})

\* _process_level is called for the root even if it is empty.
EnterLevel(kids) ==
  IF Top.src = Root \/ (kids # <<>> /\ (Top.dest # Nothing \/ opt.dry))
  THEN SetTop([Top EXCEPT !.stage = "index", !.todo = kids])
  ELSE Return

ListFolder ==
  /\ phase = "walk" /\ stack # <<>> /\ Top.stage = "list"
  /\ \/ /\ EnterLevel(Children(Top.src))
        /\ UNCHANGED <<failVars, listErrs, envVars>>
     \/ /\ \E kids \in Prefixes(Children(Top.src)) : EnterLevel(kids)
        /\ ListingError(Top.src)
  /\ recorded' = IF opt.skip THEN recorded \union {Top.src} ELSE recorded
  /\ UNCHANGED <<scenario, driveVars, runVars, indexes, jobs, folderMap, markVars,
                 done>>

ItemsIn(d) == {i \in DOMAIN items : items[i].live /\ items[i].folder = d}

\* A page of the destination fails: the rest of it is not in the index.
BuildIndex ==
  /\ phase = "walk" /\ stack # <<>> /\ Top.stage = "index"
  /\ \/ /\ indexes' = Append(indexes, Index!Build(items, ItemsIn(Top.dest)))
        /\ UNCHANGED envVars
     \/ /\ \E listed \in SUBSET ItemsIn(Top.dest) :
             /\ listed # ItemsIn(Top.dest)
             /\ indexes' = Append(indexes, Index!Build(items, listed))
        /\ Fault("index")
  /\ SetTop([Top EXCEPT !.stage = "loop", !.index = Len(indexes) + 1])
  /\ UNCHANGED <<scenario, driveVars, runVars, jobs, folderMap, markVars, done,
                 failVars, treeVars>>

\* The loop has come to entry e.
AtEntry(e) ==
  /\ phase = "walk" /\ stack # <<>> /\ Top.stage = "loop" /\ ~stop
  /\ Top.todo # <<>> /\ e = Head(Top.todo)

SubmitFile(e) ==
  /\ AtEntry(e) /\ e \in Files
  /\ jobs' = jobs \union {[entry |-> e, dest |-> Top.dest, index |-> Top.index]}
  /\ SetTop(Next1)
  /\ UNCHANGED <<scenario, driveVars, runVars, indexes, folderMap, markVars, done,
                 failVars, treeVars, envVars>>

\* A shortcut to a file is copied by the traversal thread itself.
CopyInline(e) ==
  /\ AtEntry(e) /\ e \in FileEntries \ Files
  /\ CopyFile(e, Top.dest, Top.index)
  /\ SetTop(Next1)
  /\ UNCHANGED jobs

\* _resolve_shortcut fails.
ShortcutUnresolved(e) ==
  /\ AtEntry(e) /\ e \in Shortcuts /\ Fault("shortcut")
  /\ RecordFailed({e, Target[e]})
  /\ SetTop(Next1)
  /\ UNCHANGED <<scenario, driveVars, runVars, indexes, jobs, folderMap, markVars,
                 done, treeVars>>

-----------------------------------------------------------------------------
(* Subfolders: _copy_folder, or _enqueue_folder with --fast-list           *)

LoopSkipped(e) ==
  /\ AtEntry(e) /\ e \in FolderEntries /\ Source(e) \in Visited
  /\ SetTop(Next1)
  /\ UNCHANGED <<scenario, driveVars, runVars, indexes, jobs, folderMap, markVars,
                 done, failVars, treeVars, envVars>>

\* A real folder that an earlier run completed is not entered.
Skippable(e) == opt.skip /\ ~opt.fast /\ e \in Folders /\ e \in done

SkipComplete(e) ==
  /\ AtEntry(e) /\ e \in FolderEntries /\ Source(e) \notin Visited /\ Skippable(e)
  /\ SetTop(Next1)
  /\ UNCHANGED <<scenario, driveVars, runVars, indexes, jobs, folderMap, markVars,
                 done, failVars, treeVars, envVars>>

Enters(e) == /\ AtEntry(e) /\ e \in FolderEntries
             /\ Source(e) \notin Visited /\ ~Skippable(e)

\* The default traversal goes into the folder, --fast-list puts it off.
EnterFolder(e) ==
  /\ Enters(e)
  /\ \E d \in Destinations(Top.dest, e) :
       /\ Obtain(Top.dest, e, d)
       /\ folderMap' = IF d = Nothing THEN folderMap ELSE [folderMap EXCEPT ![e] = d]
       /\ IF opt.fast
          THEN SetTop([Next1 EXCEPT !.pending =
                 Append(@, [src |-> Source(e), dest |-> d, kids |-> <<>>])])
          ELSE stack' = Append([stack EXCEPT ![Len(stack)] = Next1],
                               NewFrame(Source(e), d, "list", <<>>))
  /\ UNCHANGED <<scenario, items, runVars, indexes, jobs, markVars, done, failVars,
                 treeVars>>

CreateFails(e) ==
  /\ Enters(e) /\ CreationFails(Top.dest, e)
  /\ RecordFailed({e, Source(e)})
  /\ SetTop(Next1)
  /\ UNCHANGED <<scenario, items, runVars, indexes, jobs, folderMap, markVars, done,
                 treeVars>>

\* _batched_list, when the loop is over.  Drive may leave any folders out of
\* the answer to a query for several of them; those are listed one by one.
Batch == {Top.pending[i].src : i \in DOMAIN Top.pending}
Batched(f, lost) == IF f \in lost THEN <<>> ELSE Children(f)

\* A bug: the answer to the batch is taken as it is.
RelistedBug(f, lost) == FALSE
Relisted(f, lost) == Batched(f, lost) = <<>>

\* A bug: the folders stay to be listed.
SetKidsBug(kids) ==
  SetTop([Top EXCEPT !.pending = [i \in DOMAIN Top.pending |->
    [Top.pending[i] EXCEPT !.kids = kids[Top.pending[i].src]]]])

SetKids(kids) ==
  SetTop([Top EXCEPT !.stage = "descend",
                     !.pending = [i \in DOMAIN Top.pending |->
                       [Top.pending[i] EXCEPT !.kids = kids[Top.pending[i].src]]]])

Listing(lost) == [f \in Batch |-> IF Relisted(f, lost) THEN Children(f)
                                  ELSE Batched(f, lost)]

BatchedList ==
  /\ phase = "walk" /\ stack # <<>> /\ Top.stage = "loop" /\ ~stop
  /\ Top.todo = <<>> /\ Top.pending # <<>>
  /\ \E lost \in SUBSET Batch :
       /\ lost # {} => "batch" \in scenario.faults
       /\ \/ SetKids(Listing(lost)) /\ UNCHANGED <<failVars, listErrs, envVars>>
          \/ \E f \in Batch :
               /\ Relisted(f, lost)
               /\ \E kids \in Prefixes(Children(f)) :
                    SetKids([Listing(lost) EXCEPT ![f] = kids])
               /\ ListingError(f)
  /\ UNCHANGED <<scenario, driveVars, runVars, indexes, jobs, folderMap, markVars,
                 done, recorded>>

\* The folders put off are processed one after the other.
Descend ==
  /\ phase = "walk" /\ stack # <<>> /\ Top.stage = "descend" /\ ~stop
  /\ Top.pending # <<>>
  /\ LET sub == Head(Top.pending)
         rest == [stack EXCEPT ![Len(stack)] = [Top EXCEPT !.pending = Tail(@)]]
     IN  stack' = IF sub.kids # <<>> /\ (sub.dest # Nothing \/ opt.dry)
                  THEN Append(rest, NewFrame(sub.src, sub.dest, "index", sub.kids))
                  ELSE rest
  /\ UNCHANGED <<scenario, driveVars, runVars, indexes, jobs, folderMap, markVars,
                 done, failVars, treeVars, envVars>>

\* The loop is over, or a stop breaks it: _process_level returns.
LeaveLevel ==
  /\ phase = "walk" /\ stack # <<>> /\ Top.stage \in {"loop", "descend"}
  /\ stop \/ (Top.todo = <<>> /\ Top.pending = <<>>)
  /\ Return
  /\ UNCHANGED <<scenario, driveVars, runVars, indexes, jobs, folderMap, markVars,
                 done, failVars, treeVars, envVars>>

\* A fatal quota error leaves the whole traversal; the calls about destination
\* folders save the log first, a listing does not.
QuotaStops ==
  /\ phase = "walk" /\ stack # <<>> /\ Fault("quota")
  /\ \/ /\ \/ Top.stage \in {"list", "index"}
           \/ Top.stage = "loop" /\ ~stop /\ Top.todo = <<>> /\ Top.pending # <<>>
        /\ UNCHANGED <<folders, dirty>>
     \/ /\ Top.stage = "loop" /\ ~stop
        /\ IF Top.todo = <<>> THEN Top.pending # <<>>
                              ELSE Enters(Head(Top.todo)) /\ Top.dest # Nothing
        /\ SaveLog(copied, done)
        /\ dirty' = IF opt.dry THEN dirty ELSE 0
  /\ stop' = TRUE /\ stack' = <<>>
  /\ UNCHANGED <<scenario, items, phase, opt, droot, completed, indexes, jobs,
                 folderMap, copied, done, failVars, treeVars>>

-----------------------------------------------------------------------------
(* The end of a run                                                        *)

Subfolders(f) == ChildSet(f) \intersect Folders
FailedKeys == UNION (failed \union prevFailed)

\* A bug: files that failed are not looked at.
FilesCompleteBug(f) ==
  /\ f \in recorded
  /\ ChildSet(f) \intersect Shortcuts = {}

\* _compute_completed_folders, is_complete: the folder was listed without an
\* error, holds no shortcut, its files are marked and nothing of theirs failed.
FilesComplete(f) ==
  /\ f \in recorded \ listErrs
  /\ ChildSet(f) \intersect Shortcuts = {}
  /\ \A x \in ChildSet(f) \intersect Files : x \in copied /\ x \notin FailedKeys

\* Closed under is_complete: with the folders known from earlier runs, and with
\* each whose subfolders are in it.
Proven(S) ==
  /\ done \subseteq S
  /\ \A f \in Folders : FilesComplete(f) /\ Subfolders(f) \subseteq S => f \in S

\* The least such set: a folder that is found below itself is not complete.
Completed == {f \in recorded : \A S \in SUBSET Folders : Proven(S) => f \in S}

\* Drained: the finally block of run().
Finish ==
  /\ phase = "walk" /\ stack = <<>> /\ jobs = {}
  /\ phase' = "finish" /\ completed' = ~stop
  /\ done' = IF opt.skip THEN done \union Completed ELSE done
  /\ SaveLog(copied, done')
  /\ dirty' = IF opt.dry THEN dirty ELSE 0
  /\ UNCHANGED <<scenario, items, opt, droot, stop, walkVars, folderMap, copied,
                 failVars, treeVars, envVars>>

\* CopyResult.fully_ok
FullyOk == completed /\ failed = {} /\ prevFailed = {} /\ listErrs = {} /\ ~opt.dry

\* _finalize: a run that succeeded in full moves its log to the trash.
Finalize ==
  /\ phase = "finish"
  /\ folders' = IF FullyOk THEN [folders EXCEPT ![droot].log = None] ELSE folders
  /\ EndRun
  /\ UNCHANGED <<items, envVars>>

-----------------------------------------------------------------------------
(* The environment                                                         *)

\* request_stop, from a signal handler.
Signal ==
  /\ phase \in {"open", "walk"} /\ ~stop /\ Fault("signal")
  /\ stop' = TRUE
  /\ UNCHANGED <<scenario, driveVars, phase, opt, droot, completed, walkVars,
                 folderMap, markVars, done, failVars, treeVars>>

\* The process dies.
Crash ==
  /\ phase # "idle" /\ Fault("crash")
  /\ EndRun /\ UNCHANGED driveVars

\* Between runs the user removes a copy, or a folder with all that is in it, or
\* brings a copy of a file in by hand.  Who lets the tool skip what it once
\* completed does not remove anything.
MaySkip == \E o \in scenario.options : o.skip

Under(d) == LET under[x \in DOMAIN folders] ==
                  x = d \/ (x > DestParent /\ under[folders[x].parent])
            IN  {x \in DOMAIN folders : under[x]}

UserTrash ==
  /\ phase = "idle" /\ ~MaySkip /\ Fault("trash")
  /\ \/ \E i \in DOMAIN items :
          /\ items[i].live
          /\ items' = [items EXCEPT ![i].live = FALSE] /\ UNCHANGED folders
     \/ \E d \in DOMAIN folders \ {DestParent} :
          /\ folders[d].live
          /\ folders' = [x \in DOMAIN folders |->
               [folders[x] EXCEPT !.live = @ /\ x \notin Under(d)]]
          /\ UNCHANGED items
  /\ UNCHANGED <<scenario, runVars, walkVars, folderMap, markVars, done, failVars,
                 treeVars>>

UserUpload ==
  /\ phase = "idle" /\ Fault("upload")
  /\ \E d \in DOMAIN folders \ {DestParent} :
       /\ folders[d].live
       /\ \E e \in ChildSet(Source(folders[d].key)) \intersect FileEntries :
            items' = Append(items, [folder |-> d, of |-> e, tool |-> FALSE,
                                    live |-> TRUE])
  /\ UNCHANGED <<scenario, folders, runVars, walkVars, folderMap, markVars, done,
                 failVars, treeVars>>

-----------------------------------------------------------------------------
\* The traversal thread.
Main ==
  \/ OpenRoot \/ ListFolder \/ BuildIndex \/ BatchedList \/ Descend \/ LeaveLevel
  \/ Finish \/ Finalize
  \/ \E e \in Ids : \/ SubmitFile(e) \/ CopyInline(e) \/ LoopSkipped(e)
                    \/ SkipComplete(e) \/ EnterFolder(e)

\* The pool.
Pool == RunJob \/ DropJobs

\* What can go wrong on the traversal thread, or come from outside.
Environment ==
  \/ RootFails \/ QuotaStops \/ Signal \/ Crash \/ UserTrash \/ UserUpload
  \/ \E e \in Ids : ShortcutUnresolved(e) \/ CreateFails(e)

Next == \/ \E o \in scenario.options : StartRun(o)
        \/ Main \/ Pool \/ Environment

\* Somebody runs the tool again, and not only for a preview.
Rerun == \E o \in scenario.options : ~o.dry /\ StartRun(o)

Spec == Init /\ [][Next]_vars
FairSpec == Spec /\ WF_vars(Main) /\ WF_vars(Pool) /\ SF_vars(Rerun)

-----------------------------------------------------------------------------
(* What the source asks for and what the destination lacks                 *)

\* The places to fill: the ways down the tree from the root, through shortcuts
\* too, that enter no folder twice.
PathsOf(children) ==
  LET Entries(f) == {children[f][i] : i \in DOMAIN children[f]}
      Longer(p) == {Append(p, e) : e \in
        {x \in Entries(Source(p[Len(p)])) : \A i \in DOMAIN p : Source(p[i]) # Source(x)}}
      ways[n \in 1..(Cardinality(Folders) + 1)] ==
        IF n = 1 THEN {<<Root>>}
        ELSE UNION {Longer(p) : p \in {q \in ways[n - 1] : q[n - 1] \in FolderEntries}}
  IN  UNION {ways[n] : n \in DOMAIN ways}

\* The destination folders that stand at the first n entries of a way down.
FoldersAt(p, n) ==
  LET at[i \in 1..n] ==
        {d \in DOMAIN folders :
           /\ folders[d].live /\ folders[d].key = p[i]
           /\ IF i = 1 THEN folders[d].parent = DestParent
                       ELSE folders[d].parent \in at[i - 1]}
  IN  at[n]

\* As many items as the source folder has entries of this name and content.
Holds(d, e) ==
  Cardinality({i \in ItemsIn(d) : Index!Same(items[i].of, e)}) >=
  Cardinality({f \in ChildSet(Source(folders[d].key)) \intersect FileEntries :
                 Index!Same(f, e)})

Filled(p) ==
  LET n == Len(p)
  IN  IF p[n] \in FolderEntries THEN FoldersAt(p, n) # {}
      ELSE \E d \in FoldersAt(p, n - 1) : Holds(d, p[n])

\* All of them, once for each scenario, and those the destination lacks.
Ways == [s \in Scenarios |-> PathsOf(s.children)]
Missing == {p \in Ways[scenario] : ~Filled(p)}

-----------------------------------------------------------------------------
(* What the copies can be told apart by                                    *)

\* Where a mode does not compare contents, what it compares tells them apart.
ModesTell ==
  \A s \in Scenarios : \A o \in s.options : \A e, f \in FileEntries :
    /\ Name[e] = Name[f]
    /\ \/ o.mode = "name_only"
       \/ o.mode = "name_size" /\ Size[e] = Size[f] /\ Size[e] # None
    => Index!Same(e, f)

\* The entries of a tree that can be entered below its root, and trees in which
\* each of them is found below one entry only.
Among(children, f) == {children[f][i] : i \in DOMAIN children[f]}
Enterable(children) ==
  {e \in FolderEntries :
     Source(e) # Root /\ \E f \in Folders \ {Source(e)} : e \in Among(children, f)}
OneWayDown(children) ==
  \A e, f \in Enterable(children) \union {Root} :
    Among(children, Source(e)) \intersect Among(children, Source(f))
      \intersect Enterable(children) # {} => e = f
TreesOneWayDown == \A s \in Scenarios : OneWayDown(s.children)

\* Where completed folders are skipped, no folder and no file is found in two
\* places, and no two files of a folder are equal.
SkipsTell ==
  \A s \in Scenarios : (\E o \in s.options : o.skip) =>
    /\ \A e, f \in Enterable(s.children) \union {Root} : Source(e) = Source(f) => e = f
    /\ \A f, g \in Folders :
         Among(s.children, f) \intersect Among(s.children, g) \intersect Files # {} => f = g
    /\ \A f \in Folders : \A x, y \in Among(s.children, f) \intersect Files :
         Index!Same(x, y) => x = y

\* A folder of the log does not fail to be verified after a second one was made for
\* its entry that could be taken instead.
VerificationsTell ==
  \A s \in Scenarios : \/ s.budget <= 1
                       \/ "verify" \notin s.faults
                       \/ {"search", "resent"} \intersect s.faults = {}

-----------------------------------------------------------------------------
(* Properties                                                              *)

\* The recursion never enters a folder it is already in, whatever shortcuts
\* there are: it is at most as deep as there are folders.
NoFolderInsideItself ==
  \A i, j \in DOMAIN stack : i # j => stack[i].src # stack[j].src

\* _get_or_create_folder: the tool makes no second folder for an entry in the
\* same place, over all runs and crashes, with the log or without it, also after
\* a creation whose answer was lost and a folder that could not be verified.  It
\* does make one where a search failed, which it takes for "not there", and where
\* execute_with_retry sends a creation again that Drive had carried out.
OneFolderPerPlace ==
  {"search", "resent"} \intersect spoiled = {} =>
    \A d, e \in DOMAIN folders :
      /\ folders[d].live /\ folders[e].live
      /\ folders[d].key = folders[e].key /\ folders[d].parent = folders[e].parent
      => d = e

\* The files and entries that may still be copied into a destination folder:
\* those in the pool, and those that a level has not come to.
LevelWork(f) == {[entry |-> f.todo[k], dest |-> f.dest, index |-> f.index] :
                   k \in DOMAIN f.todo}
Work == jobs \union
        UNION {LevelWork(stack[i]) : i \in {k \in DOMAIN stack : stack[k].stage = "loop"}}

\* A destination folder is never filled from two indexes at once: no level is
\* entered whose folder the pool, or another level, is still copying into from
\* an older index, which would not show it what they add.  (As long as no folder
\* is reached below another in two ways.)
OneIndexPerFolder ==
  \A t, u \in Work : t.dest = u.dest /\ t.dest # Nothing => t.index = u.index

\* Over all runs a destination folder never gets more copies of a content than
\* its source folder has entries of it, although the pool copies them in any
\* order from indexes built earlier and runs are cut off anywhere, also after a
\* copy whose answer was lost, unless a part of the destination could not be
\* indexed or a copy was resent.  (Not below a folder that is reached
\* in two ways: Cached gives both visits one folder, and the second may build
\* its index of it while the files of the first are still in the pool.)
NoSurplus ==
  {"index", "retried"} \intersect spoiled = {} =>
    \A d \in DOMAIN folders \ {DestParent} :
      LET wanted == ChildSet(Source(folders[d].key)) \intersect FileEntries
      IN  \A e \in wanted :
            Cardinality({i \in ItemsIn(d) : items[i].tool /\ Index!Same(items[i].of, e)})
            <= Cardinality({f \in wanted : Index!Same(f, e)})

\* README "Fast resume": what a run or a log takes for completed has been copied
\* in full, below every place where the folder itself stands in the tree.  (A
\* preview saves nothing, and takes for completed what it would complete.  Not
\* where SkipsTell does not hold: a folder completed in one place is skipped in
\* another, and of two equal files one copy can be taken for both in turn.)
Logs == {folders[d].log : d \in DOMAIN folders} \ {None}
Known == (IF phase # "idle" /\ opt.dry THEN {} ELSE done)
         \union UNION {log.done : log \in Logs}
CompletedIsMirrored ==
  \A f \in Known : \A p \in Missing : \A i \in DOMAIN p : p[i] # f

\* README "Never silently skips": full success is reported only when every
\* place of the source tree, through shortcuts too, is filled.
SuccessIsComplete == phase = "finish" /\ FullyOk => Missing = {}

\* The destination as the user sees it: runs only fill places, and success is
\* claimed only when none is left to fill.
Promise == INSTANCE MirrorPromise WITH
  Places  <- UNION {Ways[s] : s \in Scenarios},
  missing <- Missing,
  busy    <- phase # "idle",
  success <- phase = "finish" /\ FullyOk

ImplementsMirror == Promise!Spec

\* Every run ends, whatever the source tree.
RunEnds == (phase # "idle") ~> (phase = "idle")

\* Whatever went wrong, running the tool again fills every place for good.
EventuallyMirrored == <>[](Missing = {})
=============================================================================
