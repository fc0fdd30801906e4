-------------------- MODULE FolderTraversal_mirror_proofs --------------------
(***************************************************************************)
(* Machine-checked proofs about what FolderTraversal has filled: that what *)
(* is taken for completed is there, that full success leaves nothing out,  *)
(* and so that it implements MirrorPromise; for any source tree in which   *)
(* each folder is found in one way only, any number of runs and any        *)
(* interleaving of the pool; and any number of faults of all kinds, where  *)
(* verifications that fail do not meet folders that are there twice.       *)
(***************************************************************************)
EXTENDS FolderTraversal_surplus_proofs

-----------------------------------------------------------------------------
(* Where the folders are                                                   *)

\* The destination parent stands, each folder is in one that was made before it,
\* and goes with it.
TreeOK(fs) ==
  /\ DestParent \in DOMAIN fs /\ fs[DestParent].live /\ fs[DestParent].key = None
  /\ \A d \in DOMAIN fs \ {DestParent} :
       /\ fs[d].parent \in DOMAIN fs /\ fs[d].parent < d
       /\ fs[d].live => fs[fs[d].parent].live

\* A folder map with r for the root: each folder in it that stands is where the
\* entry it was made for is in the tree.
Standing(ch) == Enterable(ch) \union {Root}
MapOK(map, r, fs, ch) ==
  /\ map[Root] = r
  /\ \A e \in FolderEntries : map[e] # Nothing =>
       /\ map[e] \in DOMAIN fs /\ fs[map[e]].key = e
       /\ fs[map[e]].live /\ e = Root => fs[map[e]].parent = DestParent
       /\ fs[map[e]].live /\ e # Root =>
            /\ e \in Enterable(ch)
            /\ \E k \in Standing(ch) : /\ e \in Among(ch, Source(k)) /\ map[k] # Nothing
                                       /\ fs[map[e]].parent = map[k]

\* The folders that are worked on stand, and are those of the map.
Targets == {j.dest : j \in jobs} \union UNION {Spots(f) : f \in Frames(stack)}
TargetsOK == \A d \in Targets \ {Nothing} :
  d \in DOMAIN folders /\ folders[d].live /\ folderMap[folders[d].key] = d

MapsInv ==
  /\ TreeOK(folders)
  /\ \A d \in DOMAIN folders : folders[d].log # None =>
       MapOK(folders[d].log.map, d, folders, scenario.children)
  /\ MapOK(folderMap, droot, folders, scenario.children)
  /\ TargetsOK
  /\ phase \in {"walk", "finish"} /\ ~opt.dry => droot # Nothing /\ Nothing \notin Targets

\* Folders stay what and where they are, if they stay.
Kept(fs, gs) ==
  /\ DOMAIN fs \subseteq DOMAIN gs
  /\ \A d \in DOMAIN fs : /\ gs[d].key = fs[d].key /\ gs[d].parent = fs[d].parent
                          /\ gs[d].live => fs[d].live

LEMMA MapKept ==
  ASSUME NEW fs, NEW gs, Kept(fs, gs), NEW ch, NEW map, NEW r, MapOK(map, r, fs, ch)
  PROVE  MapOK(map, r, gs, ch)
<1>1. /\ map[Root] = r
      /\ \A e \in FolderEntries : map[e] # Nothing =>
           map[e] \in DOMAIN fs /\ fs[map[e]].key = e
  BY DEF MapOK
<1>2. ASSUME NEW e \in FolderEntries, map[e] # Nothing
      PROVE  /\ map[e] \in DOMAIN gs /\ gs[map[e]].key = e
             /\ gs[map[e]].parent = fs[map[e]].parent
             /\ gs[map[e]].live => fs[map[e]].live
  BY <1>1, <1>2 DEF Kept
<1>. QED BY <1>1, <1>2 DEF MapOK

\* What a step does to the map and the logs.
LEMMA MapSteps ==
  ASSUME Inv, [Next]_vars
  PROVE  \/ OpenRoot \/ UserTrash \/ \E e \in Ids : EnterFolder(e)
         \/ EndRun /\ \/ folders' = folders \/ RootFails
                      \/ folders' = [folders EXCEPT ![droot].log = None]
         \/ /\ UNCHANGED <<droot, folderMap>>
            /\ phase' \in {"walk", "finish"} => phase \in {"walk", "finish"} /\ opt' = opt
            /\ \/ folders' = folders \/ (phase = "walk" /\ SaveLog(copied', done'))
               \/ \E e \in Ids : CreateFails(e)
<1> DEFINE G == /\ UNCHANGED <<droot, folderMap>>
                /\ phase' \in {"walk", "finish"} =>
                     phase \in {"walk", "finish"} /\ opt' = opt
                /\ \/ folders' = folders \/ (phase = "walk" /\ SaveLog(copied', done'))
                   \/ \E e \in Ids : CreateFails(e)
<1> USE DEF runVars, driveVars, markVars
<1>1. ASSUME UNCHANGED <<droot, folderMap, opt, folders, phase>> PROVE G
  BY <1>1
<1>2. CASE UNCHANGED vars
  BY <1>1, <1>2 DEF vars
<1>3. ASSUME NEW o \in scenario.options, StartRun(o) PROVE G
  BY <1>3 DEF StartRun
<1>4. CASE ListFolder \/ BuildIndex \/ BatchedList \/ Descend \/ LeaveLevel \/ DropJobs
           \/ Signal \/ UserUpload
  BY <1>1, <1>4 DEF ListFolder, BuildIndex, BatchedList, Descend, LeaveLevel, DropJobs,
     Signal, UserUpload
<1>5. ASSUME NEW e \in Ids, SubmitFile(e) \/ LoopSkipped(e) \/ SkipComplete(e)
                             \/ ShortcutUnresolved(e)
      PROVE  G
  BY <1>1, <1>5 DEF SubmitFile, LoopSkipped, SkipComplete, ShortcutUnresolved
<1>12. ASSUME NEW e \in Ids, CreateFails(e) PROVE G
  BY <1>12 DEF CreateFails
<1>6. CASE Finish
  BY <1>6 DEF Finish
<1>7. CASE QuotaStops
  BY <1>7 DEF QuotaStops
<1>8. ASSUME NEW e, NEW d, NEW ix, CopyFile(e, d, ix), phase = "walk" PROVE G
  <2>1. UNCHANGED <<droot, folderMap, opt, phase, done>>
    BY <1>8 DEF CopyFile
  <2>2. folders' = folders \/ Mark(e)
    BY <1>8 DEF CopyFile, SkipConfirmed, RecordExisting, CountDryRun, CopyLands, CopyFails
  <2>3. Mark(e) => folders' = folders \/ SaveLog(copied', done')
    BY <2>1 DEF Mark, SaveLog
  <2>. QED BY <1>8, <2>1, <2>2, <2>3
<1>9. CASE RunJob
  <2>1. phase = "walk"
    BY <1>9 DEF RunJob, Inv, WalkInv
  <2>. QED BY <1>8, <1>9, <2>1 DEF RunJob
<1>10. ASSUME NEW e \in Ids, CopyInline(e) PROVE G
  BY <1>8, <1>10 DEF CopyInline, AtEntry
<1>11. CASE Finalize \/ RootFails \/ Crash
  BY <1>11 DEF Finalize, RootFails, Crash
<1>. QED
  BY <1>2, <1>3, <1>4, <1>5, <1>6, <1>7, <1>9, <1>10, <1>11, <1>12
     DEF Next, Main, Pool, Environment

\* What is in Targets.
LEMMA TargetIs ==
  /\ \A d : d \in Targets <=> \/ \E f \in Frames(stack) : d \in Spots(f)
                              \/ \E j \in jobs : d = j.dest
  /\ \A d : d \in Targets' <=> \/ \E f \in Frames(stack') : d \in Spots(f)
                               \/ \E j \in jobs' : d = j.dest
BY DEF Targets

LEMMA TargetsTamed ==
  ASSUME StackTamed, jobs' \subseteq jobs
  PROVE  Targets' \subseteq Targets
<1>1. \A f \in Frames(stack') : \E g \in Frames(stack) : Spots(f) \subseteq Spots(g)
  BY DEF StackTamed, Tame
<1>. QED BY <1>1, TargetIs

\* What a step does to the folders that are worked on.
LEMMA TargetSteps ==
  ASSUME Inv, ShapeInv, [Next]_vars
  PROVE  Targets' \subseteq Targets \/ OpenRoot \/ \E e \in Ids : EnterFolder(e)
<1>1. ASSUME StackTamed, jobs' \subseteq jobs PROVE Targets' \subseteq Targets
  BY <1>1, TargetsTamed
<1>2. CASE Calm
  BY <1>1, <1>2 DEF Calm
<1>3. CASE BuildIndex
  <2>1. PICK f : BegunAs(f)
    BY <1>3, BuildIs DEF ShapeInv
  <2>2. Top \in Frames(stack) /\ Spots(f) = Spots(Top)
    BY <2>1, TopInFrames DEF BegunAs, Inv, Spots
  <2>3. \A h \in Frames(stack') : \E g \in Frames(stack) : Spots(h) \subseteq Spots(g)
    BY <2>1, <2>2 DEF BegunAs
  <2>4. jobs' = jobs
    BY <1>3 DEF BuildIndex
  <2>. QED BY <2>3, <2>4, TargetIs
<1>4. CASE Descend
  <2>1. PICK f : DescendedAs(f)
    BY <1>4, DescendIs DEF ShapeInv
  <2> DEFINE sub == Head(Top.pending)
             n == NewFrame(sub.src, sub.dest, "index", sub.kids)
  <2>2. Top \in Frames(stack) /\ Spots(f) \subseteq Spots(Top) /\ sub.dest \in Spots(Top)
    BY <2>1, TopInFrames DEF DescendedAs, Inv
  <2>3. Spots(n) = {sub.dest}
    BY DEF NewFrame, Spots
  <2>4. \A h \in Frames(stack') : \E g \in Frames(stack) : Spots(h) \subseteq Spots(g)
    BY <2>1, <2>2, <2>3 DEF DescendedAs
  <2>5. jobs' = jobs
    BY <1>4 DEF Descend
  <2>. QED BY <2>4, <2>5, TargetIs
<1>5. ASSUME NEW e \in Ids, SubmitFile(e) PROVE Targets' \subseteq Targets
  <2>1. StackTamed /\ stack # <<>>
    BY <1>5, ShapeSubmit DEF SubmitFile, AtEntry
  <2>2. Top \in Frames(stack) /\ Top.dest \in Spots(Top)
    BY <2>1, TopInFrames DEF Spots, Inv
  <2>3. \A f \in Frames(stack') : \E g \in Frames(stack) : Spots(f) \subseteq Spots(g)
    BY <2>1 DEF StackTamed, Tame
  <2>4. \A j \in jobs' : j \in jobs \/ j.dest = Top.dest
    BY <1>5 DEF SubmitFile
  <2>. QED BY <2>2, <2>3, <2>4, TargetIs
<1>. QED BY <1>2, <1>3, <1>4, <1>5, CalmSteps DEF ShapeInv

\* Folders are only added, where there are others, and without a log.
Sprouted(fs, gs) ==
  /\ Kept(fs, gs) /\ TreeOK(gs)
  /\ \A x \in DOMAIN fs : gs[x] = fs[x]
  /\ \A x \in DOMAIN gs \ DOMAIN fs : gs[x].log = None /\ gs[x].live

LEMMA GrowsSprouted ==
  ASSUME Inv, TreeOK(folders), NEW parent, NEW e \in FolderEntries, NEW n \in {0, 1, 2},
         n # 0 => parent \in DOMAIN folders /\ folders[parent].live,
         NEW gs, Grows(folders, gs, parent, e, n)
  PROVE  Sprouted(folders, gs)
<1>1. Len(folders) \in Nat /\ DOMAIN folders = 1..Len(folders)
  BY LenProperties DEF Inv, DriveInv, FoldersOK
<1>2. /\ DOMAIN gs = 1..(Len(folders) + n)
      /\ \A x \in DOMAIN folders : x \in DOMAIN gs /\ gs[x] = folders[x]
      /\ \A x \in DOMAIN gs \ DOMAIN folders :
           gs[x].parent = parent /\ gs[x].live /\ gs[x].log = None
  BY DEF Grows
<1>3. Kept(folders, gs)
  BY <1>2 DEF Kept
<1>4. \A x \in DOMAIN gs \ DOMAIN folders : n # 0 /\ \A y \in DOMAIN folders : y < x
  BY <1>1, <1>2
<1>5. TreeOK(gs)
  <2>1. DestParent \in DOMAIN gs /\ gs[DestParent].live /\ gs[DestParent].key = None
    BY <1>2 DEF TreeOK
  <2>2. ASSUME NEW x \in DOMAIN gs \ {DestParent}
        PROVE  /\ gs[x].parent \in DOMAIN gs /\ gs[x].parent < x
               /\ gs[x].live => gs[gs[x].parent].live
    <3>1. CASE x \in DOMAIN folders
      BY <1>2, <2>2, <3>1 DEF TreeOK
    <3>2. CASE x \notin DOMAIN folders
      BY <1>2, <1>4, <2>2, <3>2
    <3>. QED BY <3>1, <3>2
  <2>. QED BY <2>1, <2>2 DEF TreeOK
<1>. QED BY <1>2, <1>3, <1>5 DEF Sprouted

\* _get_or_create_folder makes folders where it was asked to, if any, and returns
\* one that stands.
LEMMA ObtainStands ==
  ASSUME Inv, TreeOK(folders), NEW parent \in DOMAIN folders \union {Nothing},
         parent # Nothing => folders[parent].live,
         NEW e \in FolderEntries, NEW d \in Destinations(parent, e), Obtain(parent, e, d)
  PROVE  /\ Sprouted(folders, folders')
         /\ d # Nothing => /\ parent # Nothing /\ d \in DOMAIN folders'
                           /\ folders'[d].live /\ folders'[d].key = e
                           /\ \/ d = folderMap[e] /\ Cached(e)
                              \/ folders'[d].parent = parent
         /\ d = Nothing => parent = Nothing \/ opt.dry
<1>1. parent \in Nat /\ DOMAIN folders = 1..Len(folders)
  BY LenProperties DEF Inv, DriveInv, FoldersOK, Nothing
<1>2. /\ d \in Nat /\ (d = Nothing \/ d \in DOMAIN folders')
      /\ \E n \in {0, 1, 2} :
           /\ Grows(folders, folders', parent, e, n)
           /\ n # 0 => parent # Nothing /\ ~opt.dry
      /\ \/ d = Nothing /\ (parent = Nothing \/ opt.dry)
         \/ parent # Nothing /\ Cached(e) /\ d = folderMap[e]
         \/ parent # Nothing /\ d \in Found(parent, e)
         \/ parent # Nothing /\ ~opt.dry /\ d \in DOMAIN folders' \ DOMAIN folders
  BY <1>1, ObtainIs DEF Inv
<1>3. PICK n \in {0, 1, 2} : /\ Grows(folders, folders', parent, e, n)
                             /\ n # 0 => parent # Nothing /\ ~opt.dry
  BY <1>2
<1>4. Sprouted(folders, folders')
  BY <1>3, GrowsSprouted
<1>5. \A x \in DOMAIN folders' \ DOMAIN folders :
        folders'[x].key = e /\ folders'[x].parent = parent /\ folders'[x].live
  BY <1>3 DEF Grows
<1>6. ASSUME d # Nothing, Cached(e), d = folderMap[e]
      PROVE  d \in DOMAIN folders /\ folders[d].live /\ folders[d].key = e
  <2>1. d <= Len(folders) /\ folders[d].live /\ folders[d].key = e
    BY <1>6 DEF Inv, DriveInv, Cached
  <2>2. Len(folders) \in Nat /\ d # 0
    BY <1>6, LenProperties DEF Inv, DriveInv, FoldersOK, Nothing
  <2>. QED BY <1>1, <1>2, <2>1, <2>2
<1>7. d \in Found(parent, e) => /\ d \in DOMAIN folders /\ folders[d].live
                                /\ folders[d].key = e /\ folders[d].parent = parent
  BY DEF Found
<1>8. d # Nothing /\ d \notin DOMAIN folders =>
        folders'[d].key = e /\ folders'[d].parent = parent /\ folders'[d].live
  BY <1>2, <1>5
<1>9. d \in DOMAIN folders => folders'[d] = folders[d]
  BY <1>4 DEF Sprouted
<1>10. ASSUME d # Nothing
       PROVE  /\ parent # Nothing /\ d \in DOMAIN folders'
              /\ folders'[d].live /\ folders'[d].key = e
              /\ (d = folderMap[e] /\ Cached(e)) \/ folders'[d].parent = parent
  <2>1. CASE Cached(e) /\ d = folderMap[e]
    BY <1>2, <1>6, <1>9, <1>10, <2>1
  <2>2. CASE d \in Found(parent, e)
    BY <1>2, <1>7, <1>9, <1>10, <2>2
  <2>3. CASE d \notin DOMAIN folders
    BY <1>2, <1>8, <1>10, <2>3
  <2>. QED BY <1>2, <1>10, <2>1, <2>2, <2>3
<1>11. ASSUME d = Nothing PROVE parent = Nothing \/ opt.dry
  <2>1. Nothing \notin DOMAIN folders /\ Nothing \notin DOMAIN folders'
    BY <1>1, <1>3 DEF Grows, Nothing
  <2>. QED BY <1>2, <1>7, <1>11, <2>1 DEF Cached
<1>. QED BY <1>2, <1>4, <1>10, <1>11

\* The folder of a level that is worked on stands.
LEMMA TopStands ==
  ASSUME Inv, MapsInv, stack # <<>>
  PROVE  /\ Top.dest \in DOMAIN folders \union {Nothing} /\ TreeOK(folders)
         /\ Top.dest # Nothing => folders[Top.dest].live
<1>1. Top.dest \in Targets
  BY TopInFrames, TargetIs DEF Spots, Inv
<1>. QED BY <1>1 DEF MapsInv, TargetsOK

\* A creation that fails makes a folder where it was asked to, if any.
LEMMA UnmadeStands ==
  ASSUME Inv, MapsInv, RootFails \/ \E e \in Ids : CreateFails(e)
  PROVE  Sprouted(folders, folders')
<1>1. CASE folders' = folders
  BY <1>1 DEF Sprouted, Kept, MapsInv
<1>2. ASSUME NEW parent \in DOMAIN folders \union {Nothing}, NEW e \in FolderEntries,
             parent # Nothing => folders[parent].live, CreationFails(parent, e)
      PROVE  Sprouted(folders, folders')
  <2>1. parent \in Nat
    BY LenProperties DEF Inv, DriveInv, FoldersOK, Nothing
  <2>2. /\ parent # Nothing
        /\ \E n \in {0, 1} : Grows(folders, folders', parent, e, n)
    BY <1>2, <2>1, CreationFailsIs DEF Inv
  <2>3. PICK n \in {0, 1} : Grows(folders, folders', parent, e, n)
    BY <2>2
  <2>. QED BY <1>2, <2>2, <2>3, GrowsSprouted DEF MapsInv
<1>3. CASE RootFails
  <2>1. Root \in FolderEntries /\ DestParent \in DOMAIN folders /\ folders[DestParent].live
    BY EntryFacts, RootAssumption DEF MapsInv, TreeOK
  <2>. QED BY <1>1, <1>2, <1>3, <2>1 DEF RootFails
<1>4. ASSUME NEW e \in Ids, CreateFails(e) PROVE Sprouted(folders, folders')
  <2>1. e \in FolderEntries /\ stack # <<>> /\ CreationFails(Top.dest, e)
    BY <1>4 DEF CreateFails, Enters, AtEntry
  <2>2. PICK parent \in DOMAIN folders \union {Nothing} : parent = Top.dest
    BY <2>1, TopStands
  <2>. QED BY <1>2, <2>1, <2>2, TopStands
<1>. QED BY <1>3, <1>4

\* Saving the log, or taking it away, changes nothing else.
LEMMA SaveStands ==
  ASSUME Inv, \/ folders' = folders
              \/ folders' = [folders EXCEPT ![droot].log = None]
              \/ SaveLog(copied', done') /\ copied' \subseteq FileEntries
                 /\ done' \subseteq Folders
  PROVE  /\ DOMAIN folders' = DOMAIN folders
         /\ \A x \in DOMAIN folders : /\ folders'[x].key = folders[x].key
                                      /\ folders'[x].live = folders[x].live
                                      /\ folders'[x].parent = folders[x].parent
         /\ Kept(folders, folders')
         /\ TreeOK(folders) => TreeOK(folders')
         /\ \A x \in DOMAIN folders : folders'[x].log # None =>
              \/ folders'[x].log = folders[x].log
              \/ /\ x = droot /\ SaveLog(copied', done') /\ ~opt.dry
                 /\ folders'[x].log = [copied |-> copied', map |-> folderMap,
                                       done |-> done', failed |-> stateFailed]
<1> DEFINE l == [copied |-> copied', map |-> folderMap, done |-> done',
                 failed |-> stateFailed]
<1>1. /\ DOMAIN folders' = DOMAIN folders
      /\ \A x \in DOMAIN folders : /\ folders'[x].key = folders[x].key
                                   /\ folders'[x].live = folders[x].live
                                   /\ folders'[x].parent = folders[x].parent
  <2>1. CASE folders' = folders
    BY <2>1
  <2>2. CASE folders' = [folders EXCEPT ![droot].log = None]
    <3>1. FoldersOK(folders) /\ droot \in Nat
      BY DEF Inv, DriveInv
    <3>2. LET t == [folders EXCEPT ![droot].log = None]
          IN  /\ DOMAIN t = DOMAIN folders
              /\ \A x \in DOMAIN folders : /\ t[x].key = folders[x].key
                                           /\ t[x].live = folders[x].live
                                           /\ t[x].parent = folders[x].parent
      BY <3>1, LogWritten
    <3>. QED BY <2>2, <3>2
  <2>3. CASE SaveLog(copied', done') /\ copied' \subseteq FileEntries /\ done' \subseteq Folders
    BY <2>3, LogSaved DEF Inv
  <2>. QED BY <2>1, <2>2, <2>3
<1>2. \A x \in DOMAIN folders : folders[x] \in DestFolder
  BY LenProperties, ElementOfSeq DEF Inv, DriveInv, FoldersOK
<1>3. ASSUME NEW x \in DOMAIN folders, folders'[x].log # None
      PROVE  \/ folders'[x].log = folders[x].log
             \/ x = droot /\ SaveLog(copied', done') /\ ~opt.dry /\ folders'[x].log = l
  <2>1. CASE folders' = folders
    BY <2>1
  <2>2. \A y : [folders[x] EXCEPT !.log = y].log = y
    BY <1>2 DEF DestFolder
  <2>3. CASE folders' = [folders EXCEPT ![droot].log = None]
    BY <1>3, <2>2, <2>3
  <2>4. CASE SaveLog(copied', done')
    <3>1. CASE opt.dry \/ droot = Nothing
      BY <2>1, <2>4, <3>1 DEF SaveLog
    <3>2. CASE ~(opt.dry \/ droot = Nothing)
      <4>1. folders' = [folders EXCEPT ![droot].log = l]
        BY <2>4, <3>2 DEF SaveLog
      <4> HIDE DEF l
      <4>. QED BY <2>2, <2>4, <3>2, <4>1
    <3>. QED BY <3>1, <3>2
  <2>. QED BY <2>1, <2>3, <2>4
<1>4. Kept(folders, folders')
  BY <1>1 DEF Kept
<1>5. TreeOK(folders) => TreeOK(folders')
  BY <1>1 DEF TreeOK
<1>. QED BY <1>1, <1>3, <1>4, <1>5

-----------------------------------------------------------------------------
(* Recursion over the numbers, unrolled                                    *)

\* Induction, for the set of the numbers that something holds of.
LEMMA Induct ==
  ASSUME NEW T, 0 \in T, \A n \in Nat : n \in T => n + 1 \in T
  PROVE  Nat \subseteq T
<1> SUFFICES ASSUME Nat \ T # {} PROVE FALSE
  OBVIOUS
<1>1. PICK m \in Nat \ T : \A k \in Nat \ T : m <= k
  <2>1. Nat \ T \in SUBSET Nat
    OBVIOUS
  <2>. QED BY <2>1, FirstIsIn
<1>2. m - 1 \in Nat /\ m - 1 < m /\ m - 1 + 1 = m
  BY <1>1
<1>. QED BY <1>1, <1>2

\* What is under a folder is in that folder, or in one that is under it.
LEMMA UnderIs ==
  ASSUME Inv, TreeOK(folders), NEW d \in DOMAIN folders
  PROVE  \A x \in DOMAIN folders :
           x \in Under(d) <=> x = d \/ (x > DestParent /\ folders[x].parent \in Under(d))
<1> DEFINE Step(g, x) == x = d \/ (x > DestParent /\ g[folders[x].parent])
           T == {m \in Nat : m <= Len(folders) => \E g : g = [x \in 1..m |-> Step(g, x)]}
<1>1. /\ Len(folders) \in Nat /\ DOMAIN folders = 1..Len(folders)
      /\ \A x \in 1..Len(folders) : x > DestParent =>
           folders[x].parent \in 1..(x - 1)
  BY LenProperties DEF Inv, DriveInv, FoldersOK, TreeOK, DestParent
<1>2. 0 \in T
  <2>1. [x \in 1..0 |-> TRUE] = [x \in 1..0 |-> Step([y \in 1..0 |-> TRUE], x)]
    OBVIOUS
  <2>. QED BY <2>1
<1>3. ASSUME NEW m \in Nat, m \in T PROVE m + 1 \in T
  <2>1. SUFFICES ASSUME m + 1 <= Len(folders)
                 PROVE  \E g : g = [x \in 1..(m + 1) |-> Step(g, x)]
    OBVIOUS
  <2>2. PICK g : g = [x \in 1..m |-> Step(g, x)]
    BY <1>1, <1>3, <2>1
  <2> DEFINE h == [x \in 1..(m + 1) |-> Step(g, x)]
  <2>3. \A y \in 1..m : g[y] = Step(g, y) /\ y \in 1..(m + 1)
    BY <2>2
  <2>4. \A y \in 1..m : h[y] = g[y]
    BY <2>3
  <2>5. \A x \in 1..(m + 1) : x > DestParent => folders[x].parent \in 1..m
    BY <1>1, <2>1
  <2> HIDE DEF h
  <2>6. \A x \in 1..(m + 1) : Step(g, x) = Step(h, x)
    BY <2>4, <2>5
  <2>7. h = [x \in 1..(m + 1) |-> Step(h, x)]
    BY <2>6 DEF h
  <2>. QED BY <2>7
<1>4. PICK w : w = [x \in DOMAIN folders |-> Step(w, x)]
  <2>1. Len(folders) \in T
    <3> HIDE DEF T
    <3>. QED BY <1>1, <1>2, <1>3, Induct
  <2>. QED BY <1>1, <2>1
<1> DEFINE under == CHOOSE g : g = [x \in DOMAIN folders |-> Step(g, x)]
<1>5. under = [x \in DOMAIN folders |-> Step(under, x)]
  BY <1>4
<1>6. Under(d) = {x \in DOMAIN folders : under[x]}
  BY DEF Under
<1> HIDE DEF under
<1>7. \A x \in DOMAIN folders : x \in Under(d) <=> Step(under, x)
  BY <1>5, <1>6
<1>8. \A x \in DOMAIN folders : x > DestParent => folders[x].parent \in DOMAIN folders
  BY <1>1
<1>. QED BY <1>6, <1>7, <1>8

-----------------------------------------------------------------------------
(* Every step keeps the maps                                               *)

\* What the user removes goes with all that is in it.
LEMMA TrashStands ==
  ASSUME Inv, TreeOK(folders), UserTrash
  PROVE  /\ Kept(folders, folders') /\ TreeOK(folders')
         /\ DOMAIN folders' = DOMAIN folders
         /\ \A x \in DOMAIN folders : folders'[x].log = folders[x].log
<1>1. CASE folders' = folders
  BY <1>1 DEF Kept
<1>2. ASSUME NEW d \in DOMAIN folders \ {DestParent}, folders[d].live,
             folders' = [x \in DOMAIN folders |->
               [folders[x] EXCEPT !.live = @ /\ x \notin Under(d)]]
      PROVE  /\ Kept(folders, folders') /\ TreeOK(folders')
             /\ DOMAIN folders' = DOMAIN folders
             /\ \A x \in DOMAIN folders : folders'[x].log = folders[x].log
  <2>1. \A x \in DOMAIN folders : folders[x] \in DestFolder
    BY LenProperties, ElementOfSeq DEF Inv, DriveInv, FoldersOK
  <2>2. \A x \in DOMAIN folders : \A b \in BOOLEAN :
          LET g == [folders[x] EXCEPT !.live = b]
          IN  /\ g.key = folders[x].key /\ g.parent = folders[x].parent
              /\ g.log = folders[x].log /\ g.live = b
    BY <2>1 DEF DestFolder
  <2>3. \A x \in DOMAIN folders : (folders[x].live /\ x \notin Under(d)) \in BOOLEAN
    OBVIOUS
  <2>4. /\ DOMAIN folders' = DOMAIN folders
        /\ \A x \in DOMAIN folders :
             /\ folders'[x].key = folders[x].key
             /\ folders'[x].parent = folders[x].parent
             /\ folders'[x].log = folders[x].log
             /\ folders'[x].live <=> folders[x].live /\ x \notin Under(d)
    BY <1>2, <2>2, <2>3
  <2>5. \A x \in DOMAIN folders :
          x \in Under(d) <=> x = d \/ (x > DestParent /\ folders[x].parent \in Under(d))
    BY UnderIs
  <2>6. /\ DestParent \in DOMAIN folders /\ DestParent \notin Under(d)
        /\ \A x \in DOMAIN folders \ {DestParent} : x > DestParent
    <3>1. DOMAIN folders = 1..Len(folders) /\ Len(folders) \in Nat
      BY LenProperties DEF Inv, DriveInv, FoldersOK
    <3>. QED BY <2>5, <3>1 DEF TreeOK, DestParent
  <2>7. TreeOK(folders')
    BY <2>4, <2>5, <2>6 DEF TreeOK
  <2>8. Kept(folders, folders')
    BY <2>4 DEF Kept
  <2>. QED BY <2>4, <2>7, <2>8
<1>. QED BY <1>1, <1>2 DEF UserTrash

\* An entry that is entered may stand below the root.
LEMMA EnteredEnterable ==
  ASSUME Inv, ShapeInv, RootInv, NEW e, NEW d, NEW f, EnteredAs(e, d, f)
  PROVE  /\ e \in Enterable(scenario.children) /\ e \in Among(scenario.children, Top.src)
         /\ Source(e) # Root /\ Source(e) # Top.src /\ e # Root
<1>1. /\ stack # <<>> /\ e \in FolderEntries /\ Source(e) \notin Visited
      /\ e \in Entries(Top.todo)
  BY DEF EnteredAs
<1>2. /\ Top \in Frames(stack) /\ Top \in Frame /\ 1 \in DOMAIN stack
      /\ Top.src \in Folders
  BY <1>1, TopIs, TopInFrames DEF Inv, WalkInv, Frame
<1>3. Source(e) # Root /\ Source(e) # Top.src
  <2>1. Root \in Visited /\ Top.src \in Visited
    BY <1>1, <1>2, TopIs DEF RootInv, Visited, Top, Inv
  <2>. QED BY <1>1, <2>1
<1>4. e \in Among(scenario.children, Top.src)
  BY <1>1, <1>2 DEF ShapeInv, FramesOK, FrameOK, KidsOK
<1>5. Source(Root) = Root
  BY RootAssumption, IdAssumption DEF Source
<1>. QED BY <1>1, <1>2, <1>3, <1>4, <1>5 DEF Enterable

\* The levels after one is entered stand where they did, or at its folder.
LEMMA EnteredSpots ==
  ASSUME Inv, NEW e, NEW d, NEW f, EnteredAs(e, d, f)
  PROVE  \A h \in Frames(stack') : \A x \in Spots(h) :
           x = d \/ \E g \in Frames(stack) : x \in Spots(g)
<1>1. stack # <<>> /\ f.dest = Top.dest
  BY DEF EnteredAs
<1>2. Top \in Frames(stack) /\ Top.pending \in Seq(Pending) /\ Source(e) \in Folders
      /\ d \in Nat
  BY <1>1, TopIs, TopInFrames, EntryFacts DEF Inv, Frame, EnteredAs
<1>3. \A x \in Spots(f) : x = d \/ x \in Spots(Top)
  <2>1. CASE f.pending = Top.pending
    BY <1>1, <2>1 DEF Spots
  <2>2. CASE f.pending = Append(Top.pending, [src |-> Source(e), dest |-> d, kids |-> <<>>])
    <3> DEFINE p == [src |-> Source(e), dest |-> d, kids |-> <<>>]
    <3>1. p \in Pending /\ p.dest = d
      BY <1>2, EmptySeq DEF Pending
    <3> HIDE DEF p
    <3>2. f.pending = Append(Top.pending, p)
      BY <2>2 DEF p
    <3>3. \A k \in DOMAIN f.pending :
            f.pending[k] = p \/ (k \in DOMAIN Top.pending /\ f.pending[k] = Top.pending[k])
      BY <1>2, <3>1, <3>2, AppendProperties, LenProperties
    <3>. QED BY <1>1, <3>1, <3>3 DEF Spots
  <2>. QED BY <2>1, <2>2 DEF EnteredAs
<1>4. Spots(NewFrame(Source(e), d, "list", <<>>)) = {d}
  BY DEF NewFrame, Spots
<1>. QED BY <1>2, <1>3, <1>4 DEF EnteredAs

\* A folder of the map that cannot be verified is not taken for another.
Unmistaken ==
  /\ OneFolderPerPlace /\ OneWayDown(scenario.children)
  /\ "verify" \in scenario.faults /\ faults > 0 => {"search", "resent"} \intersect spoiled = {}

\* The folder that the map has for an entry is found again where it is: there is
\* one way to it.
LEMMA KnownFound ==
  ASSUME Inv, ShapeInv, RootInv, MapsInv, OneWayDown(scenario.children),
         NEW e, NEW d, NEW f, EnteredAs(e, d, f), Cached(e), Top.dest # Nothing
  PROVE  folderMap[e] \in Found(Top.dest, e)
<1> DEFINE ch == scenario.children
           m == folderMap[e]
<1>1. stack # <<>> /\ e \in FolderEntries
  BY DEF EnteredAs
<1>2. e \in Enterable(ch) /\ e \in Among(ch, Top.src) /\ e # Root
  BY EnteredEnterable
<1>3. m # Nothing /\ folders[m].live /\ folders[m].key = e /\ m \in DOMAIN folders
  BY <1>1 DEF Cached, MapsInv, MapOK
<1>4. PICK k \in Standing(ch) : /\ e \in Among(ch, Source(k))
                                /\ folders[m].parent = folderMap[k]
  BY <1>1, <1>2, <1>3 DEF MapsInv, MapOK
<1>5. PICK q : q = folders[Top.dest].key
  OBVIOUS
<1>6. /\ q \in FolderEntries /\ Source(q) = Top.src
      /\ Top.dest \in DOMAIN folders /\ folders[Top.dest].live /\ folderMap[q] = Top.dest
  <2>1. Top \in Frames(stack) /\ Top.dest \in Targets
    BY <1>1, TopInFrames, TargetIs DEF Spots, Inv
  <2>2. DestOK(Top.dest, Top.src, folders)
    BY <2>1 DEF ShapeInv, FramesOK, FrameOK
  <2>. QED BY <1>5, <2>1, <2>2 DEF DestOK, MapsInv, TargetsOK
<1>7. q \in Standing(ch)
  BY <1>6 DEF MapsInv, MapOK, Standing
<1>8. q = k
  BY <1>2, <1>4, <1>6, <1>7 DEF OneWayDown, Standing
<1>. QED BY <1>3, <1>4, <1>6, <1>8 DEF Found

\* A folder of the map that stands is the one that is entered.
LEMMA KnownObtained ==
  ASSUME Inv, ShapeInv, RootInv, MapsInv, Unmistaken,
         NEW e, NEW d, NEW f, EnteredAs(e, d, f), ObtainedAs(e, d), Cached(e)
  PROVE  d = Nothing \/ d = folderMap[e]
<1>1. stack # <<>> /\ e \in FolderEntries
  BY DEF EnteredAs
<1>2. PICK parent \in Nat : parent = Top.dest
  <2>1. Top \in Frame
    BY <1>1, TopIs DEF Inv, WalkInv
  <2>. QED BY <2>1 DEF Frame
<1>3. d \in Destinations(parent, e) /\ Obtain(parent, e, d)
  BY <1>2 DEF ObtainedAs
<1>4. /\ \E n \in {0, 1, 2} :
           /\ Grows(folders, folders', parent, e, n)
           /\ {"search", "resent"} \intersect spoiled' = {} =>
                n # 2 /\ (n = 1 => Found(parent, e) = {})
      /\ \/ d = Nothing
         \/ d = folderMap[e]
         \/ parent # Nothing /\ d \in Found(parent, e)
         \/ parent # Nothing /\ d \in DOMAIN folders' \ DOMAIN folders
      /\ d = Nothing \/ d = folderMap[e] \/ Fault("verify")
  BY <1>1, <1>3, ObtainIs DEF Inv
<1>5. SUFFICES ASSUME d # Nothing, d # folderMap[e] PROVE FALSE
  OBVIOUS
<1>6. {"search", "resent"} \intersect spoiled' = {} /\ {"search", "resent"} \intersect spoiled = {}
  <2>1. Fault("verify")
    BY <1>4, <1>5
  <2>2. "verify" \in scenario.faults /\ faults > 0 /\ spoiled' = spoiled
    BY <2>1 DEF Fault
  <2>. QED BY <2>2 DEF Unmistaken
<1>7. parent # Nothing
  BY <1>4, <1>5
<1>8. folderMap[e] \in Found(parent, e)
  BY <1>2, <1>7, KnownFound DEF Unmistaken
<1>9. DOMAIN folders' = DOMAIN folders
  <2>1. PICK n \in {0, 1, 2} : /\ Grows(folders, folders', parent, e, n)
                               /\ n # 2 /\ (n = 1 => Found(parent, e) = {})
    BY <1>4, <1>6
  <2>2. n = 0
    BY <1>8, <2>1
  <2>3. DOMAIN folders = 1..Len(folders) /\ Len(folders) \in Nat
    BY LenProperties DEF Inv, DriveInv, FoldersOK
  <2>. QED BY <2>1, <2>2, <2>3 DEF Grows
<1>10. d \in Found(parent, e)
  BY <1>4, <1>5, <1>9
<1>11. d = folderMap[e]
  BY <1>6, <1>8, <1>10 DEF Found, OneFolderPerPlace, Unmistaken
<1>. QED BY <1>5, <1>11

\* A level is entered: the map gets its folder, where the tree has its entry.
LEMMA MapsEnter ==
  ASSUME Inv, ShapeInv, RootInv, MapsInv, Unmistaken, NEW e \in Ids, EnterFolder(e),
         scenario' = scenario
  PROVE  MapsInv'
<1> DEFINE ch == scenario.children
<1>1. PICK d, f : EnteredAs(e, d, f) /\ ObtainedAs(e, d)
  BY EnterIs DEF ShapeInv
<1>2. /\ e \in FolderEntries /\ stack # <<>> /\ phase = "walk" /\ Top.dest \in Nat
      /\ Top.src \in Folders /\ Top \in Frames(stack)
  BY AtEntryIs, TopInFrames DEF EnterFolder, Enters, Inv, Frame
<1>3. Top.dest \in Targets
  BY <1>2, TargetIs DEF Spots
<1>4. PICK parent \in DOMAIN folders \union {Nothing} : parent = Top.dest
  BY <1>3 DEF MapsInv, TargetsOK
<1>5. parent # Nothing => /\ folders[parent].live /\ folderMap[folders[parent].key] = parent
                          /\ folders[parent].key \in FolderEntries
                          /\ Source(folders[parent].key) = Top.src
  <2>1. DestOK(Top.dest, Top.src, folders)
    BY <1>2 DEF ShapeInv, FramesOK, FrameOK
  <2>. QED BY <1>3, <1>4, <2>1 DEF MapsInv, TargetsOK, DestOK
<1>6. /\ Kept(folders, folders') /\ TreeOK(folders')
      /\ \A x \in DOMAIN folders : folders'[x] = folders[x]
      /\ \A x \in DOMAIN folders' \ DOMAIN folders : folders'[x].log = None
      /\ d # Nothing => /\ parent # Nothing /\ d \in DOMAIN folders'
                        /\ folders'[d].live /\ folders'[d].key = e
                        /\ d = folderMap[e] \/ (~Cached(e) /\ folders'[d].parent = parent)
      /\ d = Nothing => parent = Nothing \/ opt.dry
  <2>1. d \in Destinations(parent, e) /\ Obtain(parent, e, d) /\ TreeOK(folders)
    BY <1>1, <1>4 DEF ObtainedAs, MapsInv
  <2>2. Cached(e) => d = Nothing \/ d = folderMap[e]
    BY <1>1, KnownObtained
  <2>3. /\ Sprouted(folders, folders')
        /\ d # Nothing => /\ parent # Nothing /\ d \in DOMAIN folders'
                          /\ folders'[d].live /\ folders'[d].key = e
                          /\ \/ d = folderMap[e] /\ Cached(e)
                             \/ folders'[d].parent = parent
        /\ d = Nothing => parent = Nothing \/ opt.dry
    BY <1>2, <1>5, <2>1, ObtainStands
  <2>4. d # Nothing => d = folderMap[e] \/ (~Cached(e) /\ folders'[d].parent = parent)
    BY <2>2, <2>3
  <2>5. /\ Kept(folders, folders') /\ TreeOK(folders')
        /\ \A x \in DOMAIN folders : folders'[x] = folders[x]
        /\ \A x \in DOMAIN folders' \ DOMAIN folders : folders'[x].log = None
    BY <2>3 DEF Sprouted
  <2>. QED BY <2>3, <2>4, <2>5
<1>7. /\ e \in Enterable(ch) /\ e \in Among(ch, Top.src) /\ e # Root
  BY <1>1, EnteredEnterable
<1>8. /\ folderMap' = IF d = Nothing THEN folderMap ELSE [folderMap EXCEPT ![e] = d]
      /\ folderMap \in [FolderEntries -> Nat] /\ droot' = droot
      /\ jobs' = jobs /\ phase' = phase /\ opt' = opt
  BY <1>1 DEF ObtainedAs, EnterFolder, runVars, Inv, DriveInv
<1>9. /\ MapOK(folderMap, droot, folders', ch)
      /\ \A x \in DOMAIN folders' : folders'[x].log # None =>
           MapOK(folders'[x].log.map, x, folders', ch)
  <2>1. MapOK(folderMap, droot, folders', ch)
    BY <1>6, MapKept DEF MapsInv
  <2>2. ASSUME NEW x \in DOMAIN folders', folders'[x].log # None
        PROVE  MapOK(folders'[x].log.map, x, folders', ch)
    <3>1. x \in DOMAIN folders /\ folders'[x].log = folders[x].log
      BY <1>6, <2>2
    <3>2. MapOK(folders[x].log.map, x, folders, ch)
      BY <2>2, <3>1 DEF MapsInv
    <3>. QED BY <1>6, <3>1, <3>2, MapKept
  <2>. QED BY <2>1, <2>2
<1>10. MapOK(folderMap', droot, folders', ch)
  <2>1. CASE d = Nothing \/ d = folderMap[e]
    <3>1. folderMap' = folderMap
      BY <1>8, <2>1
    <3>. QED BY <1>9, <3>1
  <2>2. CASE d # Nothing /\ d # folderMap[e]
    <3>1. /\ folderMap'[e] = d /\ \A x \in FolderEntries : x # e => folderMap'[x] = folderMap[x]
          /\ ~Cached(e) /\ folders'[d].parent = parent /\ d \in DOMAIN folders'
          /\ folders'[d].key = e /\ parent # Nothing
      BY <1>2, <1>6, <1>8, <2>2
    <3> DEFINE k == folders[parent].key
    <3>2. k \in FolderEntries /\ folderMap[k] = parent /\ e \in Among(ch, Source(k))
          /\ Source(k) = Top.src
      BY <1>5, <1>7, <3>1
    <3>3. k \in Standing(ch)
      <4>1. folders[folderMap[k]].live /\ folderMap[k] # Nothing
        BY <1>5, <3>1, <3>2
      <4>. QED BY <3>2, <4>1 DEF MapsInv, MapOK, Standing
    <3>4. k # e
      <4>1. Source(e) # Top.src
        BY <1>1, EnteredEnterable
      <4>. QED BY <3>2, <4>1
    <3>5. Root \in FolderEntries
      BY EntryFacts, RootAssumption
    <3>6. folderMap'[Root] = droot
      BY <1>7, <1>9, <3>1, <3>5 DEF MapOK
    <3>7. ASSUME NEW x \in FolderEntries, folderMap'[x] # Nothing, x # e
          PROVE  /\ folderMap'[x] \in DOMAIN folders' /\ folders'[folderMap'[x]].key = x
                 /\ folders'[folderMap'[x]].live /\ x = Root =>
                      folders'[folderMap'[x]].parent = DestParent
                 /\ folders'[folderMap'[x]].live /\ x # Root =>
                      /\ x \in Enterable(ch)
                      /\ \E l \in Standing(ch) :
                           /\ x \in Among(ch, Source(l)) /\ folderMap'[l] # Nothing
                           /\ folders'[folderMap'[x]].parent = folderMap'[l]
      <4>1. folderMap'[x] = folderMap[x] /\ folderMap[x] # Nothing
        BY <3>1, <3>7
      <4>2. /\ folderMap[x] \in DOMAIN folders' /\ folders'[folderMap[x]].key = x
            /\ folders'[folderMap[x]].live /\ x = Root =>
                 folders'[folderMap[x]].parent = DestParent
        BY <1>9, <4>1 DEF MapOK
      <4>3. ASSUME folders'[folderMap[x]].live, x # Root
            PROVE  /\ x \in Enterable(ch)
                   /\ \E l \in Standing(ch) :
                        /\ x \in Among(ch, Source(l)) /\ folderMap'[l] # Nothing
                        /\ folders'[folderMap[x]].parent = folderMap'[l]
        <5>1. /\ x \in Enterable(ch)
              /\ \E l \in Standing(ch) :
                   /\ x \in Among(ch, Source(l)) /\ folderMap[l] # Nothing
                   /\ folders'[folderMap[x]].parent = folderMap[l]
          BY <1>9, <4>1, <4>3 DEF MapOK
        <5>2. PICK l \in Standing(ch) :
                   /\ x \in Among(ch, Source(l)) /\ folderMap[l] # Nothing
                   /\ folders'[folderMap[x]].parent = folderMap[l]
          BY <5>1
        <5>3. l \in FolderEntries
          BY <3>5 DEF Standing, Enterable
        <5>4. /\ folderMap[x] \in DOMAIN folders' \ {DestParent}
          <6>1. folders'[DestParent].key = None /\ x # None
            BY <1>6, IdAssumption DEF TreeOK, FolderEntries
          <6>. QED BY <4>2, <6>1
        <5>5. folders'[folderMap[l]].live
          BY <1>6, <4>3, <5>2, <5>4 DEF TreeOK
        <5>6. folderMap[l] \in DOMAIN folders /\ folders[folderMap[l]].key = l
          BY <5>2, <5>3 DEF MapsInv, MapOK
        <5>7. folders[folderMap[l]].live
          BY <1>6, <5>5, <5>6
        <5>8. l # e
          BY <3>1, <5>2, <5>6, <5>7 DEF Cached
        <5>. QED BY <3>1, <5>1, <5>2, <5>3, <5>8
      <4>. QED BY <4>1, <4>2, <4>3
    <3>8. folderMap'[k] = parent
      BY <3>1, <3>2, <3>4
    <3>9. /\ folderMap'[e] \in DOMAIN folders' /\ folders'[folderMap'[e]].key = e
          /\ e \in Enterable(ch) /\ e # Root
          /\ k \in Standing(ch) /\ e \in Among(ch, Source(k)) /\ folderMap'[k] # Nothing
          /\ folders'[folderMap'[e]].parent = folderMap'[k]
      BY <1>7, <3>1, <3>2, <3>3, <3>8
    <3> HIDE DEF k, ch
    <3>. QED BY <3>6, <3>7, <3>9 DEF MapOK
  <2>. QED BY <2>1, <2>2
<1>11. \A x : x \in Targets' => x = d \/ x \in Targets
  BY <1>1, <1>8, EnteredSpots, TargetIs
<1>12. TargetsOK'
  <2>1. ASSUME NEW x \in Targets, x # Nothing
        PROVE  x \in DOMAIN folders' /\ folders'[x].live /\ folderMap'[folders'[x].key] = x
    <3>1. x \in DOMAIN folders /\ folders[x].live /\ folderMap[folders[x].key] = x
      BY <2>1 DEF MapsInv, TargetsOK
    <3>2. x \in DOMAIN folders' /\ folders'[x] = folders[x]
      BY <1>6, <3>1 DEF Kept
    <3>3. folders[x].key = e => Cached(e)
      BY <2>1, <3>1 DEF Cached
    <3>4. folderMap'[folders[x].key] = x
      <4>1. CASE d = Nothing \/ d = folderMap[e]
        <5>1. folderMap' = folderMap
          BY <1>8, <4>1
        <5>. QED BY <3>1, <5>1
      <4>2. CASE ~(d = Nothing \/ d = folderMap[e])
        <5>1. folders[x].key # e /\ folderMap' = [folderMap EXCEPT ![e] = d]
          BY <1>6, <1>8, <3>3, <4>2
        <5>2. folders[x].key \in FolderEntries
          <6>1. ASSUME NEW g \in Frames(stack), x \in Spots(g)
                PROVE  folders[x].key \in FolderEntries
            BY <2>1, <6>1 DEF ShapeInv, FramesOK, FrameOK, DestOK, Spots
          <6>2. ASSUME NEW j \in jobs, x = j.dest PROVE folders[x].key \in FolderEntries
            BY <2>1, <6>2 DEF ShapeInv, JobsOK
          <6>. QED BY <2>1, <6>1, <6>2, TargetIs
        <5>. QED BY <1>8, <3>1, <5>1, <5>2
      <4>. QED BY <4>1, <4>2
    <3>. QED BY <3>1, <3>2, <3>4
  <2>2. d # Nothing => d \in DOMAIN folders' /\ folders'[d].live /\ folderMap'[folders'[d].key] = d
    BY <1>2, <1>6, <1>8
  <2>3. ASSUME NEW x \in Targets', x # Nothing
        PROVE  x \in DOMAIN folders' /\ folders'[x].live /\ folderMap'[folders'[x].key] = x
    BY <1>11, <2>1, <2>2, <2>3
  <2>. QED BY <2>3 DEF TargetsOK
<1>13. ~opt'.dry => droot' # Nothing /\ Nothing \notin Targets'
  BY <1>2, <1>3, <1>4, <1>6, <1>8, <1>11 DEF MapsInv
<1>. QED BY <1>6, <1>8, <1>9, <1>10, <1>12, <1>13 DEF MapsInv

\* The folders of the map that was in the root's log are taken over.
LEMMA MapsOpen ==
  ASSUME Inv, MapsInv, OpenRoot, scenario' = scenario
  PROVE  MapsInv'
<1> DEFINE ch == scenario.children
<1>1. PICK d \in Destinations(DestParent, Root) :
        LET log == IF d \in DOMAIN folders THEN folders[d].log ELSE None
        IN  /\ Obtain(DestParent, Root, d)
            /\ folderMap' = [e \in FolderEntries |->
                               IF e = Root THEN d
                               ELSE IF log = None THEN Nothing ELSE log.map[e]]
            /\ droot' = d
            /\ stack' = <<NewFrame(Root, d, "list", <<>>)>>
  BY DEF OpenRoot
<1> DEFINE log == IF d \in DOMAIN folders THEN folders[d].log ELSE None
<1>2. /\ jobs' = {} /\ opt' = opt /\ Root \in FolderEntries
      /\ DestParent \in DOMAIN folders /\ DestParent # Nothing /\ folders[DestParent].live
  BY EntryFacts, RootAssumption DEF OpenRoot, Inv, WalkInv, MapsInv, TreeOK, DestParent,
     Nothing
<1>3. /\ Kept(folders, folders') /\ TreeOK(folders')
      /\ \A x \in DOMAIN folders : folders'[x] = folders[x]
      /\ \A x \in DOMAIN folders' \ DOMAIN folders : folders'[x].log = None
      /\ d # Nothing => /\ d \in DOMAIN folders'
                        /\ folders'[d].live /\ folders'[d].key = Root
                        /\ d = folderMap[Root] \/ folders'[d].parent = DestParent
      /\ d = Nothing => opt.dry
  <2>1. d \in Destinations(DestParent, Root) /\ Obtain(DestParent, Root, d) /\ TreeOK(folders)
    BY <1>1 DEF MapsInv
  <2>. QED BY <1>2, <2>1, ObtainStands DEF Sprouted
<1>4. d # Nothing => folders'[d].parent = DestParent
  <2>1. MapOK(folderMap, droot, folders', ch)
    BY <1>3, MapKept DEF MapsInv
  <2>. QED BY <1>2, <1>3, <2>1 DEF MapOK
<1>5. \A x \in DOMAIN folders' : folders'[x].log # None =>
        MapOK(folders'[x].log.map, x, folders', ch)
  <2>1. ASSUME NEW x \in DOMAIN folders', folders'[x].log # None
        PROVE  MapOK(folders'[x].log.map, x, folders', ch)
    <3>1. x \in DOMAIN folders /\ folders'[x].log = folders[x].log
      BY <1>3, <2>1
    <3>2. MapOK(folders[x].log.map, x, folders, ch)
      BY <2>1, <3>1 DEF MapsInv
    <3>. QED BY <1>3, <3>1, <3>2, MapKept
  <2>. QED BY <2>1
<1>6. \A e \in FolderEntries :
        folderMap'[e] = IF e = Root THEN d ELSE IF log = None THEN Nothing ELSE log.map[e]
  BY <1>1
<1>7. MapOK(folderMap', d, folders', ch)
  <2>1. CASE log = None
    BY <1>2, <1>3, <1>4, <1>6, <2>1 DEF MapOK
  <2>2. CASE log # None
    <3>1. d \in DOMAIN folders' /\ log = folders'[d].log
      BY <1>3, <2>2 DEF Kept
    <3>2. MapOK(log.map, d, folders', ch)
      BY <1>5, <2>2, <3>1
    <3>3. \A e \in FolderEntries : folderMap'[e] = log.map[e]
      BY <1>6, <2>2, <3>2 DEF MapOK
    <3>4. \A k \in Standing(ch) : k \in FolderEntries
      BY <1>2 DEF Standing, Enterable
    <3> HIDE DEF ch, log
    <3>. QED BY <1>2, <3>2, <3>3, <3>4 DEF MapOK
  <2>. QED BY <2>1, <2>2
<1>8. \A x : x \in Targets' => x = d
  <2>1. Frames(stack') = {NewFrame(Root, d, "list", <<>>)}
    BY <1>1 DEF Frames, Entries
  <2>2. Spots(NewFrame(Root, d, "list", <<>>)) = {d}
    BY DEF NewFrame, Spots
  <2>. QED BY <1>2, <2>1, <2>2, TargetIs
<1>9. TargetsOK'
  BY <1>2, <1>3, <1>6, <1>8 DEF TargetsOK
<1>10. ~opt'.dry => droot' # Nothing /\ Nothing \notin Targets'
  BY <1>1, <1>2, <1>3, <1>8
<1>11. droot' = d
  BY <1>1
<1>. QED BY <1>3, <1>5, <1>7, <1>9, <1>10, <1>11 DEF MapsInv

LEMMA MapsNext ==
  ASSUME Inv, Inv', ShapeInv, RootInv, MapsInv, Unmistaken, [Next]_vars,
         scenario' = scenario
  PROVE  MapsInv'
<1> DEFINE ch == scenario.children
<1>1. ASSUME Kept(folders, folders'), DOMAIN folders' = DOMAIN folders,
             \A x \in DOMAIN folders : folders'[x].log # None =>
               \/ folders'[x].log = folders[x].log
               \/ x = droot /\ folders'[x].log.map = folderMap
      PROVE  /\ MapOK(folderMap, droot, folders', ch)
             /\ \A x \in DOMAIN folders' : folders'[x].log # None =>
                  MapOK(folders'[x].log.map, x, folders', ch)
  <2>1. MapOK(folderMap, droot, folders', ch)
    BY <1>1, MapKept DEF MapsInv
  <2>2. ASSUME NEW x \in DOMAIN folders, folders'[x].log # None
        PROVE  MapOK(folders'[x].log.map, x, folders', ch)
    <3>1. CASE folders'[x].log = folders[x].log
      BY <1>1, <2>2, <3>1, MapKept DEF MapsInv
    <3>2. CASE x = droot /\ folders'[x].log.map = folderMap
      BY <2>1, <3>2
    <3>. QED BY <1>1, <2>2, <3>1, <3>2
  <2>. QED BY <1>1, <2>1, <2>2
<1>2. CASE UserTrash
  <2>1. /\ Kept(folders, folders') /\ TreeOK(folders')
        /\ DOMAIN folders' = DOMAIN folders
        /\ \A x \in DOMAIN folders : folders'[x].log = folders[x].log
    BY <1>2, TrashStands DEF MapsInv
  <2>2. /\ folderMap' = folderMap /\ droot' = droot /\ phase' = "idle"
        /\ stack = <<>> /\ jobs = {} /\ stack' = <<>> /\ jobs' = {}
    BY <1>2 DEF UserTrash, Inv, WalkInv, runVars, walkVars
  <2>3. Targets' = {}
    BY <2>2, TargetIs DEF Frames, Entries
  <2>4. TargetsOK'
    BY <2>3 DEF TargetsOK
  <2>. QED BY <1>1, <2>1, <2>2, <2>4 DEF MapsInv
<1>5. ASSUME Sprouted(folders, folders')
      PROVE  /\ TreeOK(folders') /\ MapOK(folderMap, droot, folders', ch)
             /\ \A x \in DOMAIN folders' : folders'[x].log # None =>
                  MapOK(folders'[x].log.map, x, folders', ch)
  <2>1. ASSUME NEW x \in DOMAIN folders', folders'[x].log # None
        PROVE  MapOK(folders'[x].log.map, x, folders', ch)
    <3>1. x \in DOMAIN folders /\ folders'[x].log = folders[x].log
      BY <1>5, <2>1 DEF Sprouted
    <3>2. MapOK(folders[x].log.map, x, folders, ch)
      BY <2>1, <3>1 DEF MapsInv
    <3>. QED BY <1>5, <3>1, <3>2, MapKept DEF Sprouted
  <2>. QED BY <1>5, <2>1, MapKept DEF MapsInv, Sprouted
<1>6. CASE EndRun /\ RootFails
  <2>1. Sprouted(folders, folders')
    BY <1>6, UnmadeStands
  <2>2. /\ phase' = "idle" /\ stack' = <<>> /\ jobs' = {} /\ droot' = Nothing
        /\ folderMap' = [e \in FolderEntries |-> Nothing]
    BY <1>6 DEF EndRun, FreshCopier
  <2>3. Targets' = {}
    BY <2>2, TargetIs DEF Frames, Entries
  <2>4. TargetsOK'
    BY <2>3 DEF TargetsOK
  <2>5. MapOK(folderMap', droot', folders', ch)
    BY <2>2, EntryFacts, RootAssumption DEF MapOK
  <2>. QED BY <1>5, <2>1, <2>2, <2>4, <2>5 DEF MapsInv
<1>7. ASSUME NEW e \in Ids, CreateFails(e), UNCHANGED <<droot, folderMap>>,
             phase' \in {"walk", "finish"} => phase \in {"walk", "finish"} /\ opt' = opt
      PROVE  MapsInv'
  <2>1. Sprouted(folders, folders')
    BY <1>7, UnmadeStands
  <2>2. Targets' \subseteq Targets
    <3>1. AtEntry(e) /\ SetTop(Next1) /\ jobs' = jobs
      BY <1>7 DEF CreateFails, Enters
    <3>2. StackTamed
      BY <3>1, LoopTamed DEF Inv, ShapeInv
    <3>. QED BY <3>1, <3>2, TargetsTamed
  <2>3. \A x \in DOMAIN folders : x \in DOMAIN folders' /\ folders'[x] = folders[x]
    BY <2>1 DEF Sprouted, Kept
  <2>4. TargetsOK'
    BY <1>7, <2>2, <2>3 DEF MapsInv, TargetsOK
  <2>5. phase' \in {"walk", "finish"} /\ ~opt'.dry => droot' # Nothing /\ Nothing \notin Targets'
    BY <1>7, <2>2 DEF MapsInv
  <2>6. /\ TreeOK(folders') /\ MapOK(folderMap, droot, folders', ch)
        /\ \A x \in DOMAIN folders' : folders'[x].log # None =>
             MapOK(folders'[x].log.map, x, folders', ch)
    BY <1>5, <2>1
  <2>. QED BY <1>7, <2>4, <2>5, <2>6 DEF MapsInv
<1>3. CASE EndRun /\ (folders' = folders \/ folders' = [folders EXCEPT ![droot].log = None])
  <2>1. /\ folders' = folders \/ folders' = [folders EXCEPT ![droot].log = None]
        /\ phase' = "idle" /\ stack' = <<>> /\ jobs' = {} /\ droot' = Nothing
        /\ folderMap' = [e \in FolderEntries |-> Nothing]
    BY <1>3 DEF EndRun, FreshCopier
  <2>2. /\ DOMAIN folders' = DOMAIN folders /\ Kept(folders, folders') /\ TreeOK(folders')
        /\ \A x \in DOMAIN folders : folders'[x].log # None =>
             \/ folders'[x].log = folders[x].log
             \/ /\ x = droot
                /\ folders'[x].log = [copied |-> copied', map |-> folderMap,
                                       done |-> done', failed |-> stateFailed]
    BY <2>1, SaveStands DEF MapsInv
  <2>3. Targets' = {}
    BY <2>1, TargetIs DEF Frames, Entries
  <2>4. TargetsOK'
    BY <2>3 DEF TargetsOK
  <2>5. MapOK(folderMap', droot', folders', ch)
    BY <2>1, EntryFacts, RootAssumption DEF MapOK
  <2>6. \A x \in DOMAIN folders' : folders'[x].log # None =>
          MapOK(folders'[x].log.map, x, folders', ch)
    BY <1>1, <2>2
  <2>. QED BY <2>1, <2>2, <2>4, <2>5, <2>6 DEF MapsInv
<1>4. ASSUME ~OpenRoot, \A e \in Ids : ~EnterFolder(e), UNCHANGED <<droot, folderMap>>,
             phase' \in {"walk", "finish"} => phase \in {"walk", "finish"} /\ opt' = opt,
             folders' = folders \/ (phase = "walk" /\ SaveLog(copied', done'))
      PROVE  MapsInv'
  <2>1. /\ DOMAIN folders' = DOMAIN folders
        /\ \A x \in DOMAIN folders : /\ folders'[x].key = folders[x].key
                                     /\ folders'[x].live = folders[x].live
        /\ Kept(folders, folders') /\ TreeOK(folders')
        /\ \A x \in DOMAIN folders : folders'[x].log # None =>
             \/ folders'[x].log = folders[x].log
             \/ /\ x = droot
                /\ folders'[x].log = [copied |-> copied', map |-> folderMap,
                                       done |-> done', failed |-> stateFailed]
    <3>1. copied' \subseteq FileEntries /\ done' \subseteq Folders
      BY DEF Inv, ListInv
    <3>. QED BY <1>4, <3>1, SaveStands DEF MapsInv
  <2>2. /\ MapOK(folderMap, droot, folders', ch)
        /\ \A x \in DOMAIN folders' : folders'[x].log # None =>
             MapOK(folders'[x].log.map, x, folders', ch)
    BY <1>1, <2>1
  <2>3. Targets' \subseteq Targets
    BY <1>4, TargetSteps
  <2>4. TargetsOK'
    BY <1>4, <2>1, <2>3 DEF MapsInv, TargetsOK
  <2>. QED BY <1>4, <2>1, <2>2, <2>3, <2>4 DEF MapsInv
<1>. QED BY <1>2, <1>3, <1>4, <1>6, <1>7, MapSteps, MapsOpen, MapsEnter

LEMMA MapsInit == Init => MapsInv
<1> SUFFICES ASSUME Init PROVE MapsInv
  OBVIOUS
<1>1. /\ folders = <<[key |-> None, parent |-> Nothing, live |-> TRUE, log |-> None]>>
      /\ phase = "idle" /\ droot = Nothing /\ stack = <<>> /\ jobs = {}
      /\ folderMap = [e \in FolderEntries |-> Nothing]
  BY DEF Init
<1>2. /\ DOMAIN folders = {1} /\ folders[1].live /\ folders[1].key = None
      /\ folders[1].log = None
  BY <1>1
<1>3. TreeOK(folders)
  BY <1>2 DEF TreeOK, DestParent
<1>4. Targets = {}
  BY <1>1, TargetIs DEF Frames, Entries
<1>5. TargetsOK
  BY <1>4 DEF TargetsOK
<1>6. MapOK(folderMap, droot, folders, scenario.children)
  BY <1>1, EntryFacts, RootAssumption DEF MapOK
<1>. QED BY <1>1, <1>2, <1>3, <1>5, <1>6 DEF MapsInv

-----------------------------------------------------------------------------
(* What an index offers                                                    *)

\* An index offers what it finds by an id, and to the files that are copied with
\* it only items that are in their destination.
IndexInv ==
  /\ \A x \in DOMAIN indexes : \A e \in FileEntries :
       indexes[x].prop[e] # 0 => indexes[x].prop[e] \in indexes[x].rest
  /\ \A t \in Work : \A i \in indexes[t.index].rest :
       items[i].live /\ items[i].folder = t.dest

\* An item that is taken for an entry is one that the index offers.
LEMMA PoppedOffered ==
  ASSUME Inv, IndexesOK(indexes, items), IndexInv,
         phase # "idle", NEW e \in FileEntries, NEW ix \in 1..Len(indexes), NEW i, i # 0,
         \/ i = Index!ByAppProp(indexes[ix], e)
         \/ i = Matched(e, ix)
  PROVE  i \in indexes[ix].rest
<1>1. /\ DOMAIN indexes = 1..Len(indexes)
      /\ DOMAIN items = 1..Len(items) /\ Len(items) \in Nat
  BY LenProperties, ItemsFinite DEF Inv, WalkInv
<1>2. indexes[ix].rest \subseteq DOMAIN items
  BY <1>1 DEF IndexesOK
<1>3. CASE i = indexes[ix].prop[e]
  BY <1>1, <1>3 DEF IndexInv
<1>4. CASE i # indexes[ix].prop[e]
  <2> DEFINE C == Index!Candidates(items, indexes[ix], e, opt.mode)
  <2>1. i = Index!First(C)
    BY <1>4 DEF Matched, Index!Match, Index!ByAppProp
  <2>2. C # {}
    BY <2>1 DEF Index!First
  <2>3. opt.mode \in Index!Modes
    BY DEF Inv, RunInv, Options
  <2>4. C \subseteq indexes[ix].rest
    BY <2>3 DEF Index!Candidates, Index!Modes
  <2>5. C \in SUBSET Nat
    BY <1>1, <1>2, <2>4
  <2>. QED BY <2>1, <2>2, <2>4, <2>5, FirstIsIn
<1>. QED BY <1>3, <1>4

\* An item that is popped is not offered any more.
LEMMA PopIs ==
  ASSUME NEW index, NEW i
  PROVE  /\ Index!Pop(index, i).rest = index.rest \ {i}
         /\ \A e \in FileEntries : Index!Pop(index, i).prop[e] =
              IF index.prop[e] = i THEN 0 ELSE index.prop[e]
BY DEF Index!Pop

\* Being done with an entry adds nothing to the items, or copies of it in its place.
LEMMA DoneAdds ==
  ASSUME Inv, ShapeInv, NEW t, DoneWith(t)
  PROVE  /\ \A i \in DOMAIN items : i \in DOMAIN items' /\ items'[i] = items[i]
         /\ \A i \in DOMAIN items' \ DOMAIN items :
              /\ items'[i].folder = t.dest /\ items'[i].of = t.entry
              /\ items'[i].tool /\ items'[i].live
         /\ items' = items \/ \E i \in DOMAIN items' : i \notin DOMAIN items
<1>1. PICK e \in FileEntries, d \in Nat : e = t.entry /\ d = t.dest
  BY WorkFacts DEF DoneWith
<1>2. CASE items' = items
  BY <1>2
<1>3. CASE items' \in {Landed(items, e, d), Landed(Landed(items, e, d), e, d)}
  <2>1. PICK its \in {Landed(items, e, d), Landed(Landed(items, e, d), e, d)} :
          its = items'
    BY <1>3
  <2>. QED BY <1>1, <2>1, CopiesAdded DEF Inv
<1>. QED BY <1>1, <1>2, <1>3, CopyPlaced DEF DoneWith

LEMMA IndexNext ==
  ASSUME Inv, ShapeInv, LedgerInv, ModesTell, IndexInv, [Next]_vars
  PROVE  IndexInv'
<1>1. Work' \subseteq Work \/ BuildIndex
  BY ShapeNext
<1>2. /\ DOMAIN indexes = 1..Len(indexes) /\ Len(indexes) \in Nat
      /\ IndexesOK(indexes, items) /\ \A t \in Work : t.index \in DOMAIN indexes
  BY WorkFacts, LenProperties DEF Inv, WalkInv, LedgerInv
<1>3. CASE UNCHANGED <<items, indexes>> /\ Work' \subseteq Work
  BY <1>3 DEF IndexInv
<1>4. CASE BuildIndex
  <2> DEFINE n == Len(indexes) + 1
  <2>1. UNCHANGED <<folders, items>> /\ stack # <<>>
    BY <1>4 DEF BuildIndex, driveVars
  <2>2. PICK f : BegunAs(f)
    BY <1>4, BuildIs DEF ShapeInv
  <2>3. Work' \subseteq Work \union LevelWork(f)
    BY <1>4, <2>1, <2>2, ShapeBuild, SameGrown
  <2>4. \A v \in LevelWork(f) : v.index = n /\ v.dest = Top.dest
    BY <2>2, LevelWorkIs DEF BegunAs
  <2>5. PICK listed \in SUBSET ItemsIn(Top.dest) :
          /\ DOMAIN indexes' = 1..n
          /\ indexes'[n] = Index!Build(items, listed)
          /\ \A x \in 1..Len(indexes) : indexes'[x] = indexes[x]
    BY <1>4, IndexBuilt
  <2>6. indexes'[n].rest = listed
    BY <2>5 DEF Index!Build
  <2>7. \A e \in FileEntries : indexes'[n].prop[e] # 0 => indexes'[n].prop[e] \in listed
    <3>1. SUFFICES ASSUME NEW e \in FileEntries, indexes'[n].prop[e] # 0
                   PROVE  indexes'[n].prop[e] \in listed
      OBVIOUS
    <3> DEFINE S == {i \in listed : items[i].tool /\ items[i].of = e}
    <3>2. indexes'[n].prop[e] = Index!Latest(S)
      BY <2>5 DEF Index!Build
    <3>3. DOMAIN items = 1..Len(items) /\ Len(items) \in Nat
      BY ItemsFinite DEF Inv
    <3>4. S \in SUBSET (1..Len(items))
      BY <3>3 DEF ItemsIn
    <3>5. S # {}
      BY <3>1, <3>2 DEF Index!Latest
    <3>6. Index!Latest(S) \in S
      BY <3>3, <3>4, <3>5, LatestIsIn
    <3>. QED BY <3>2, <3>6
  <2>8. \A x \in DOMAIN indexes' : x \in DOMAIN indexes \/ x = n
    BY <1>2, <2>5
  <2>9. \A x \in DOMAIN indexes' : \A e \in FileEntries :
          indexes'[x].prop[e] # 0 => indexes'[x].prop[e] \in indexes'[x].rest
    BY <1>2, <2>5, <2>6, <2>7, <2>8 DEF IndexInv
  <2>10. \A t \in Work' : \A i \in indexes'[t.index].rest :
           items[i].live /\ items[i].folder = t.dest
    <3>1. ASSUME NEW t \in Work, NEW i \in indexes'[t.index].rest
          PROVE  items[i].live /\ items[i].folder = t.dest
      BY <1>2, <2>5, <3>1 DEF IndexInv
    <3>2. ASSUME NEW t \in LevelWork(f), NEW i \in indexes'[t.index].rest
          PROVE  items[i].live /\ items[i].folder = t.dest
      BY <2>4, <2>6, <3>2 DEF ItemsIn
    <3>. QED BY <2>3, <3>1, <3>2
  <2>. QED BY <2>1, <2>9, <2>10 DEF IndexInv
<1>5. ASSUME NEW t, DoneWith(t), Work' \subseteq Work
      PROVE  IndexInv'
  <2>1. t \in Work /\ t.entry \in FileEntries /\ t.index \in 1..Len(indexes)
        /\ CopyFile(t.entry, t.dest, t.index)
    BY <1>2, <1>5 DEF DoneWith
  <2>2. opt \in scenario.options
    <3>1. t \in jobs \/ stack # <<>>
      <4>1. stack = <<>> => Loops(Frames(stack)) = {}
        BY EmptySeq DEF Loops, Frames, Entries
      <4>. QED BY <2>1, <4>1, WorkIs
    <3>. QED BY <3>1 DEF Inv, WalkInv, LedgerInv, PlaceInv
  <2>3. \/ UNCHANGED <<items, indexes>>
        \/ items' = items /\ \E i \in DOMAIN items :
             indexes' = [indexes EXCEPT ![t.index] = Index!Pop(@, i)]
        \/ indexes' = indexes
    BY <1>2, <2>1, <2>2, CopyOutcome
  <2>4. ASSUME items' = items, NEW i \in DOMAIN items,
               indexes' = [indexes EXCEPT ![t.index] = Index!Pop(@, i)]
        PROVE  IndexInv'
    <3>1. /\ DOMAIN indexes' = DOMAIN indexes
          /\ indexes'[t.index].rest = indexes[t.index].rest \ {i}
          /\ \A e \in FileEntries : indexes'[t.index].prop[e] =
               IF indexes[t.index].prop[e] = i THEN 0 ELSE indexes[t.index].prop[e]
          /\ \A x \in DOMAIN indexes : x # t.index => indexes'[x] = indexes[x]
      BY <1>2, <2>1, <2>4, PopIs
    <3>2. \A x \in DOMAIN indexes : indexes'[x].rest \subseteq indexes[x].rest
      BY <3>1
    <3>3. \A x \in DOMAIN indexes' : \A e \in FileEntries :
            indexes'[x].prop[e] # 0 => indexes'[x].prop[e] \in indexes'[x].rest
      BY <3>1 DEF IndexInv
    <3>4. \A u \in Work' : \A k \in indexes'[u.index].rest :
            items[k].live /\ items[k].folder = u.dest
      BY <1>2, <1>5, <3>2 DEF IndexInv
    <3>. QED BY <2>4, <3>3, <3>4 DEF IndexInv
  <2>5. ASSUME indexes' = indexes
        PROVE  IndexInv'
    <3>1. \A i \in DOMAIN items : items'[i] = items[i]
      BY <1>5, DoneAdds
    <3>2. \A u \in Work' : \A i \in indexes[u.index].rest : i \in DOMAIN items
      BY <1>2, <1>5 DEF IndexesOK
    <3>. QED BY <1>5, <2>5, <3>1, <3>2 DEF IndexInv
  <2>. QED BY <1>5, <2>3, <2>4, <2>5
<1>6. CASE items' = items /\ indexes' = <<>> /\ Work' = {}
  BY <1>6, EmptySeq DEF IndexInv
<1>7. CASE UserTrash \/ UserUpload
  <2>1. indexes' = indexes /\ stack' = <<>> /\ jobs' = {}
    BY <1>7 DEF UserTrash, UserUpload, walkVars, Inv, WalkInv
  <2>2. Loops(Frames(stack')) = {}
    BY <2>1, EmptySeq DEF Loops, Frames, Entries
  <2>3. Work' = {}
    BY <2>1, <2>2, WorkIs
  <2>. QED BY <2>1, <2>3 DEF IndexInv
<1>. QED BY <1>1, <1>3, <1>4, <1>5, <1>6, <1>7, LedgerSteps

-----------------------------------------------------------------------------
(* What is marked                                                          *)

\* A copy of x is in folder d.
HeldIn(x, d, its) == \E i \in DOMAIN its :
  its[i].live /\ its[i].folder = d /\ Index!Same(its[i].of, x)

\* Items stay where they are.
KeptItems(its, jts) ==
  /\ DOMAIN its \subseteq DOMAIN jts
  /\ \A i \in DOMAIN its : /\ jts[i].folder = its[i].folder /\ jts[i].of = its[i].of
                           /\ its[i].live => jts[i].live

LEMMA HeldStays ==
  ASSUME NEW its, NEW jts, KeptItems(its, jts), NEW x, NEW d, HeldIn(x, d, its)
  PROVE  HeldIn(x, d, jts)
BY DEF KeptItems, HeldIn

\* Work is done in a run, in one of its targets.
LEMMA WorkWhere ==
  ASSUME Inv, NEW t \in Work
  PROVE  phase = "walk" /\ t.dest \in Targets
<1>1. CASE t \in jobs
  BY <1>1, TargetIs DEF Inv, WalkInv
<1>2. ASSUME NEW f \in Loops(Frames(stack)), t \in LevelWork(f)
      PROVE  phase = "walk" /\ t.dest \in Targets
  <2>1. f \in Frames(stack) /\ f.dest \in Spots(f) /\ t.dest = f.dest
    BY <1>2, LevelWorkIs DEF Loops, Spots
  <2>2. stack # <<>>
    BY <2>1, EmptySeq DEF Frames, Entries
  <2>. QED BY <2>1, <2>2, TargetIs DEF Inv, WalkInv
<1>. QED BY <1>1, <1>2, WorkIs

\* A file that is marked has a copy in its destination, and one that has none is
\* marked no more.
LEMMA MarkedHeld ==
  ASSUME Inv, ShapeInv, LedgerInv, IndexInv, ModesTell, NEW t, DoneWith(t)
  PROVE  /\ copied' \subseteq copied \union {t.entry}
         /\ t.entry \in copied' => HeldIn(t.entry, t.dest, items')
         /\ KeptItems(items, items')
         /\ UNCHANGED <<phase, opt, done, recorded, folderMap>>
<1>1. /\ t \in Work /\ t.entry \in FileEntries /\ t.index \in 1..Len(indexes)
      /\ CopyFile(t.entry, t.dest, t.index) /\ phase = "walk"
  BY WorkFacts, WorkWhere DEF DoneWith
<1>2. opt \in scenario.options /\ IndexesOK(indexes, items)
  BY <1>1 DEF LedgerInv, PlaceInv
<1>4. KeptItems(items, items')
  BY DoneAdds DEF KeptItems
<1>5. UNCHANGED <<phase, opt, done, recorded, folderMap>>
  BY <1>1 DEF CopyFile, runVars, treeVars
<1>6. ASSUME NEW i, i # 0, \/ i = Index!ByAppProp(indexes[t.index], t.entry)
                           \/ i = Matched(t.entry, t.index)
      PROVE  HeldIn(t.entry, t.dest, items)
  <2>1. i \in indexes[t.index].rest
    BY <1>1, <1>2, <1>6, PoppedOffered
  <2>2. i \in DOMAIN items /\ Index!Same(items[i].of, t.entry)
    BY <1>1, <1>2, <1>6, PoppedAlike
  <2>. QED BY <1>1, <2>1, <2>2 DEF IndexInv, HeldIn
<1>7. CASE SkipConfirmed(t.entry, t.index)
  <2>1. Index!ByAppProp(indexes[t.index], t.entry) # 0 /\ copied' = copied /\ items' = items
    BY <1>7 DEF SkipConfirmed, Confirmed, markVars, driveVars
  <2>2. HeldIn(t.entry, t.dest, items)
    BY <2>1, <1>6
  <2>. QED BY <1>4, <1>5, <2>1, <2>2
<1>8. CASE RecordExisting(t.entry, t.index)
  <2>1. Matched(t.entry, t.index) # 0 /\ copied' = copied \union {t.entry} /\ items' = items
    BY <1>8 DEF RecordExisting, Mark
  <2>2. HeldIn(t.entry, t.dest, items)
    BY <2>1, <1>6
  <2>. QED BY <1>4, <1>5, <2>1, <2>2
<1>9. CASE CountDryRun(t.entry, t.index) \/ CopyFails(t.entry, t.dest, t.index)
  BY <1>4, <1>5, <1>9 DEF CountDryRun, CopyFails, Distrust
<1>10. CASE CopyLands(t.entry, t.dest, t.index)
  <2>1. copied' = copied \union {t.entry}
    BY <1>10 DEF CopyLands, Mark
  <2>2. items' # items
    <3>1. PICK e \in FileEntries, d \in Nat : e = t.entry /\ d = t.dest
      BY <1>1, WorkFacts
    <3>2. PICK its \in {Landed(items, e, d), Landed(Landed(items, e, d), e, d)} :
            its = items'
      BY <1>10, <3>1 DEF CopyLands
    <3>. QED BY <3>2, CopiesAdded DEF Inv
  <2>3. PICK i \in DOMAIN items' : i \notin DOMAIN items
    BY <2>2, DoneAdds
  <2>4. items'[i].folder = t.dest /\ items'[i].of = t.entry /\ items'[i].live
    BY <2>3, DoneAdds
  <2>5. HeldIn(t.entry, t.dest, items')
    BY <1>1, <2>4, SameFacts DEF HeldIn
  <2>. QED BY <1>4, <1>5, <2>1, <2>5
<1>. QED BY <1>1, <1>7, <1>8, <1>9, <1>10 DEF CopyFile

-----------------------------------------------------------------------------
(* What is completed                                                       *)

\* The files that a run or a log has marked are in a folder of its map; so is
\* every folder it takes for completed, with the files that are in it and, by
\* being completed too, the folders.
MarkedOK(c, map, its, ch) ==
  \A x \in c : \E k \in Standing(ch) : /\ x \in Among(ch, Source(k)) /\ map[k] # Nothing
                                       /\ HeldIn(x, map[k], its)
DoneOK(dn, map, its, ch) ==
  \A f \in dn :
    /\ \E k \in Standing(ch) :
         /\ Source(k) = f /\ map[k] # Nothing
         /\ \A x \in Among(ch, f) \intersect Files : HeldIn(x, map[k], its)
    /\ Among(ch, f) \intersect Shortcuts = {}
    /\ Among(ch, f) \intersect Folders \subseteq dn
RightOK(c, dn, map, its, ch) == MarkedOK(c, map, its, ch) /\ DoneOK(dn, map, its, ch)

\* The folders of the source that a run has listed have one in its map.
ListedOK(rs, map, ch) ==
  \A f \in rs : \E k \in Standing(ch) : Source(k) = f /\ map[k] # Nothing

MirrorInv ==
  /\ phase \in {"idle", "open"} => recorded = {} /\ done = {}
  /\ ~MaySkip => /\ done = {}
                 /\ \A d \in DOMAIN folders :
                      folders[d].log # None => folders[d].log.done = {}
  /\ MaySkip =>
       /\ \A d \in DOMAIN folders : folders[d].live
       /\ \A i \in DOMAIN items : items[i].live
       /\ \A d \in DOMAIN folders : folders[d].log # None =>
            RightOK(folders[d].log.copied, folders[d].log.done, folders[d].log.map, items,
                    scenario.children)
       /\ phase \in {"walk", "finish"} /\ ~opt.dry =>
            /\ RightOK(copied, done, folderMap, items, scenario.children)
            /\ ListedOK(recorded, folderMap, scenario.children)

\* A map that has come to know more folders.
MapGrows(map, more) == \A e \in FolderEntries : map[e] # Nothing => more[e] = map[e]

LEMMA StandingIn ==
  ASSUME NEW ch
  PROVE  Standing(ch) \subseteq FolderEntries
BY EntryFacts, RootAssumption DEF Standing, Enterable

LEMMA RightKept ==
  ASSUME NEW c, NEW dn, NEW map, NEW its, NEW ch, RightOK(c, dn, map, its, ch),
         NEW b \in SUBSET c, NEW more, MapGrows(map, more), NEW jts, KeptItems(its, jts)
  PROVE  RightOK(b, dn, more, jts, ch)
<1>1. \A k \in Standing(ch) : map[k] # Nothing => more[k] = map[k]
  BY StandingIn DEF MapGrows
<1>2. \A x, d : HeldIn(x, d, its) => HeldIn(x, d, jts)
  BY HeldStays
<1>3. MarkedOK(b, more, jts, ch)
  BY <1>1, <1>2 DEF RightOK, MarkedOK
<1>4. DoneOK(dn, more, jts, ch)
  BY <1>1, <1>2 DEF RightOK, DoneOK
<1>. QED BY <1>3, <1>4 DEF RightOK

LEMMA ListedKept ==
  ASSUME NEW rs, NEW map, NEW ch, ListedOK(rs, map, ch), NEW more, MapGrows(map, more)
  PROVE  ListedOK(rs, more, ch)
BY StandingIn DEF ListedOK, MapGrows

\* A run's targets are folders of its map.
LEMMA TargetMapped ==
  ASSUME MapsInv, NEW d \in Targets, d # Nothing, folders[d].key \in FolderEntries
  PROVE  /\ folders[d].key \in Standing(scenario.children)
         /\ folderMap[folders[d].key] = d
<1>1. d \in DOMAIN folders /\ folders[d].live /\ folderMap[folders[d].key] = d
  BY DEF MapsInv, TargetsOK
<1>2. MapOK(folderMap, droot, folders, scenario.children)
  BY DEF MapsInv
<1>. QED BY <1>1, <1>2 DEF MapOK, Standing

\* _compute_completed_folders finds what an earlier run completed, and folders
\* whose files are complete and whose folders it finds too.
LEMMA CompletedIs ==
  ASSUME done \subseteq Folders, recorded \subseteq Folders
  PROVE  \A f \in Completed : f \in done \/ (/\ f \in recorded /\ FilesComplete(f)
                                             /\ Subfolders(f) \subseteq done \union Completed)
<1> DEFINE L == {f \in Folders : \A S \in SUBSET Folders : Proven(S) => f \in S}
<1>1. Proven(L)
  BY DEF Proven
<1>2. ASSUME NEW f \in L, f \notin done
      PROVE  FilesComplete(f) /\ Subfolders(f) \subseteq L
  <2>1. SUFFICES ASSUME ~(FilesComplete(f) /\ Subfolders(f) \subseteq L) PROVE FALSE
    OBVIOUS
  <2>2. done \subseteq L \ {f}
    BY <1>1, <1>2 DEF Proven
  <2>3. \A g \in Folders :
          FilesComplete(g) /\ Subfolders(g) \subseteq L \ {f} => g \in L \ {f}
    BY <1>1, <2>1 DEF Proven
  <2>4. Proven(L \ {f})
    BY <2>2, <2>3 DEF Proven
  <2>. QED BY <1>2, <2>4
<1>3. Completed = L \intersect recorded
  BY DEF Completed
<1>4. \A f \in L : f \in done \/ f \in recorded
  BY <1>2 DEF FilesComplete
<1>. QED BY <1>2, <1>3, <1>4

\* What a run that ends completes is there.
LEMMA FinishRight ==
  ASSUME Inv, scenario \in Scenarios, SkipsTell, MaySkip,
         RightOK(copied, done, folderMap, items, scenario.children),
         ListedOK(recorded, folderMap, scenario.children)
  PROVE  RightOK(copied, done \union Completed, folderMap, items, scenario.children)
<1> DEFINE ch == scenario.children
           dn == done \union Completed
<1>1. /\ \A e, f \in Standing(ch) : Source(e) = Source(f) => e = f
      /\ \A f, g \in Folders : Among(ch, f) \intersect Among(ch, g) \intersect Files # {} => f = g
  BY DEF SkipsTell, MaySkip, Standing
<1>2. done \subseteq Folders /\ recorded \subseteq Folders
  BY DEF Inv, ListInv
<1>3. \A f \in Completed : f \in done \/ (/\ f \in recorded /\ FilesComplete(f)
                                          /\ Subfolders(f) \subseteq dn)
  BY <1>2, CompletedIs
<1>4. \A f : ChildSet(f) = Among(ch, f)
  BY DEF ChildSet, Children, Among
<1>5. \A k \in Standing(ch) : Source(k) \in Folders
  BY StandingIn, EntryFacts
<1>6. ASSUME NEW f \in recorded, FilesComplete(f), Subfolders(f) \subseteq dn
      PROVE  /\ \E k \in Standing(ch) :
                  /\ Source(k) = f /\ folderMap[k] # Nothing
                  /\ \A x \in Among(ch, f) \intersect Files : HeldIn(x, folderMap[k], items)
             /\ Among(ch, f) \intersect Shortcuts = {}
             /\ Among(ch, f) \intersect Folders \subseteq dn
  <2>1. PICK k \in Standing(ch) : Source(k) = f /\ folderMap[k] # Nothing
    BY DEF ListedOK
  <2>2. ASSUME NEW x \in Among(ch, f) \intersect Files
        PROVE  HeldIn(x, folderMap[k], items)
    <3>1. x \in copied
      BY <1>4, <1>6 DEF FilesComplete
    <3>2. PICK l \in Standing(ch) : /\ x \in Among(ch, Source(l)) /\ folderMap[l] # Nothing
                                    /\ HeldIn(x, folderMap[l], items)
      BY <3>1 DEF RightOK, MarkedOK
    <3>3. Source(l) = f
      BY <1>1, <1>2, <1>5, <3>2
    <3>4. l = k
      BY <1>1, <2>1, <3>3
    <3>. QED BY <3>2, <3>4
  <2>3. Among(ch, f) \intersect Shortcuts = {}
    BY <1>4, <1>6 DEF FilesComplete
  <2>4. Among(ch, f) \intersect Folders \subseteq dn
    BY <1>4, <1>6 DEF Subfolders
  <2>. QED BY <2>1, <2>2, <2>3, <2>4
<1>7. DoneOK(dn, folderMap, items, ch)
  <2>1. \A f \in done : /\ \E k \in Standing(ch) :
                             /\ Source(k) = f /\ folderMap[k] # Nothing
                             /\ \A x \in Among(ch, f) \intersect Files :
                                  HeldIn(x, folderMap[k], items)
                        /\ Among(ch, f) \intersect Shortcuts = {}
                        /\ Among(ch, f) \intersect Folders \subseteq done
    BY DEF RightOK, DoneOK
  <2>. QED BY <1>3, <1>6, <2>1 DEF DoneOK
<1>. QED BY <1>7 DEF RightOK

\* What a step does to the folders and the logs in them, unless the user removes
\* some.
LEMMA FoldersStay ==
  ASSUME Inv, Inv', ShapeInv, MapsInv, [Next]_vars, ~UserTrash
  PROVE  /\ Kept(folders, folders')
         /\ \A x \in DOMAIN folders : folders'[x].live = folders[x].live
         /\ \A x \in DOMAIN folders' \ DOMAIN folders : folders'[x].live
         /\ \A x \in DOMAIN folders' : folders'[x].log # None =>
              \/ x \in DOMAIN folders /\ folders'[x].log = folders[x].log
              \/ /\ x = droot /\ phase = "walk" /\ ~opt.dry
                 /\ folders'[x].log = [copied |-> copied', map |-> folderMap,
                                       done |-> done', failed |-> stateFailed]
         /\ \/ OpenRoot \/ RootFails
            \/ \E e \in Ids : EnterFolder(e) \/ CreateFails(e)
            \/ DOMAIN folders' = DOMAIN folders
<1> DEFINE G == /\ Kept(folders, folders')
                /\ \A x \in DOMAIN folders : folders'[x].live = folders[x].live
                /\ \A x \in DOMAIN folders' \ DOMAIN folders : folders'[x].live
                /\ \A x \in DOMAIN folders' : folders'[x].log # None =>
                     \/ x \in DOMAIN folders /\ folders'[x].log = folders[x].log
                     \/ /\ x = droot /\ phase = "walk" /\ ~opt.dry
                        /\ folders'[x].log = [copied |-> copied', map |-> folderMap,
                                              done |-> done', failed |-> stateFailed]
<1>8. ASSUME Sprouted(folders, folders') PROVE G
  BY <1>8 DEF Sprouted, Kept
<1>1. CASE OpenRoot
  <2>1. PICK d \in Destinations(DestParent, Root) : Obtain(DestParent, Root, d)
    BY <1>1 DEF OpenRoot
  <2>2. /\ Root \in FolderEntries /\ TreeOK(folders)
        /\ DestParent \in DOMAIN folders /\ folders[DestParent].live
    BY EntryFacts, RootAssumption DEF MapsInv, TreeOK
  <2>3. Sprouted(folders, folders')
    BY <2>1, <2>2, ObtainStands
  <2>. QED BY <1>1, <1>8, <2>3
<1>2. ASSUME NEW e \in Ids, EnterFolder(e) PROVE G
  <2>1. PICK d, f : EnteredAs(e, d, f) /\ ObtainedAs(e, d)
    BY <1>2, EnterIs DEF ShapeInv
  <2>2. e \in FolderEntries /\ stack # <<>> /\ TreeOK(folders)
    BY <2>1 DEF EnteredAs, MapsInv
  <2>3. Top.dest \in Targets
    BY <2>2, TopInFrames, TargetIs DEF Spots, Inv
  <2>4. PICK parent \in DOMAIN folders \union {Nothing} : parent = Top.dest
    BY <2>3 DEF MapsInv, TargetsOK
  <2>5. parent # Nothing => folders[parent].live
    BY <2>3, <2>4 DEF MapsInv, TargetsOK
  <2>6. d \in Destinations(parent, e) /\ Obtain(parent, e, d)
    BY <2>1, <2>4 DEF ObtainedAs
  <2>7. Sprouted(folders, folders')
    BY <2>2, <2>5, <2>6, ObtainStands
  <2>. QED BY <1>8, <2>7
<1>9. CASE RootFails \/ \E e \in Ids : CreateFails(e)
  BY <1>8, <1>9, UnmadeStands
<1>3. CASE folders' = folders
  BY <1>3 DEF Kept
<1>4. CASE folders' = [folders EXCEPT ![droot].log = None]
  <2>1. /\ DOMAIN folders' = DOMAIN folders
        /\ \A x \in DOMAIN folders : folders'[x].live = folders[x].live
        /\ Kept(folders, folders')
    BY <1>4, SaveStands
  <2>2. ASSUME NEW x \in DOMAIN folders, folders'[x].log # None
        PROVE  folders'[x].log = folders[x].log
    <3>1. folders[x] \in DestFolder
      BY LenProperties, ElementOfSeq DEF Inv, DriveInv, FoldersOK
    <3>2. [folders[x] EXCEPT !.log = None].log = None
      BY <3>1 DEF DestFolder
    <3>. QED BY <1>4, <2>2, <3>2
  <2>. QED BY <2>1, <2>2
<1>5. CASE phase = "walk" /\ SaveLog(copied', done')
  <2>1. copied' \subseteq FileEntries /\ done' \subseteq Folders
    BY DEF Inv, ListInv
  <2>. QED BY <1>5, <2>1, SaveStands
<1>6. OpenRoot \/ (\E e \in Ids : EnterFolder(e)) \/ folders' = folders
      \/ RootFails \/ (\E e \in Ids : CreateFails(e))
      \/ folders' = [folders EXCEPT ![droot].log = None]
      \/ (phase = "walk" /\ SaveLog(copied', done'))
  BY MapSteps
<1>7. folders' = folders \/ folders' = [folders EXCEPT ![droot].log = None]
      \/ (phase = "walk" /\ SaveLog(copied', done'))
      => DOMAIN folders' = DOMAIN folders
  <2>1. copied' \subseteq FileEntries /\ done' \subseteq Folders
    BY DEF Inv, ListInv
  <2>. QED BY <2>1, SaveStands
<1>. QED BY <1>1, <1>2, <1>3, <1>4, <1>5, <1>6, <1>7, <1>9

\* What a step does to the items, unless the user removes some.
LEMMA ItemsStay ==
  ASSUME Inv, ShapeInv, [Next]_vars, ~UserTrash
  PROVE  /\ KeptItems(items, items')
         /\ \A i \in DOMAIN items' \ DOMAIN items : items'[i].live
<1>1. CASE items' = items
  BY <1>1 DEF KeptItems
<1>2. ASSUME NEW item, item.live, items' = Append(items, item)
      PROVE  /\ KeptItems(items, items')
             /\ \A i \in DOMAIN items' \ DOMAIN items : items'[i].live
  BY <1>2, ItemAdded DEF Inv, KeptItems
<1>3. ASSUME NEW t, DoneWith(t)
      PROVE  /\ KeptItems(items, items')
             /\ \A i \in DOMAIN items' \ DOMAIN items : items'[i].live
  BY <1>3, DoneAdds DEF KeptItems
<1>4. ASSUME UserUpload
      PROVE  \E item : item.live /\ items' = Append(items, item)
  <2>1. PICK d, e : items' = Append(items, [folder |-> d, of |-> e, tool |-> FALSE,
                                            live |-> TRUE])
    BY <1>4 DEF UserUpload
  <2> DEFINE item == [folder |-> d, of |-> e, tool |-> FALSE, live |-> TRUE]
  <2>2. item.live /\ items' = Append(items, item)
    BY <2>1
  <2> HIDE DEF item
  <2>. QED BY <2>2
<1>5. BuildIndex => items' = items
  BY DEF BuildIndex, driveVars
<1>. QED BY <1>1, <1>2, <1>3, <1>4, <1>5, LedgerSteps

\* What a step does to the marks.
LEMMA MarkSteps ==
  ASSUME Inv, ShapeInv, [Next]_vars
  PROVE  \/ OpenRoot \/ ListFolder \/ Finish \/ EndRun \/ \E t : DoneWith(t)
         \/ UNCHANGED <<copied, done, recorded>>
<1> USE DEF markVars, treeVars
<1>1. CASE UNCHANGED vars
  BY <1>1 DEF vars
<1>2. ASSUME NEW o \in scenario.options, StartRun(o) PROVE UNCHANGED <<copied, done, recorded>>
  BY <1>2 DEF StartRun
<1>3. CASE BuildIndex \/ BatchedList \/ Descend \/ LeaveLevel \/ DropJobs \/ QuotaStops
           \/ Signal \/ UserTrash \/ UserUpload
  BY <1>3 DEF BuildIndex, BatchedList, Descend, LeaveLevel, DropJobs, QuotaStops, Signal,
     UserTrash, UserUpload
<1>4. CASE Finalize \/ RootFails \/ Crash
  BY <1>4 DEF Finalize, RootFails, Crash
<1>5. ASSUME NEW e \in Ids, \/ SubmitFile(e) \/ LoopSkipped(e) \/ SkipComplete(e)
                            \/ EnterFolder(e) \/ ShortcutUnresolved(e) \/ CreateFails(e)
      PROVE  UNCHANGED <<copied, done, recorded>>
  BY <1>5 DEF SubmitFile, LoopSkipped, SkipComplete, EnterFolder, ShortcutUnresolved,
     CreateFails
<1>6. ASSUME NEW e \in Ids, CopyInline(e) PROVE \E t : DoneWith(t)
  BY <1>6, InlineDone
<1>7. CASE RunJob
  BY <1>7, JobDone
<1>. QED BY <1>1, <1>2, <1>3, <1>4, <1>5, <1>6, <1>7 DEF Next, Main, Pool, Environment

\* The phases a run goes through.
LEMMA PhaseSteps ==
  ASSUME Inv, [Next]_vars
  PROVE  /\ phase' \in {"idle", "open"} => EndRun \/ (phase \in {"idle", "open"} /\ ~OpenRoot)
         /\ ListFolder \/ Finish => phase = "walk" /\ UNCHANGED <<opt, folderMap>>
         /\ OpenRoot => phase = "open" /\ phase' = "walk" /\ opt' = opt
         /\ EndRun => phase' = "idle" /\ done' = {} /\ recorded' = {}
         /\ Finish => phase' = "finish"
<1> USE DEF runVars
<1>1. ListFolder \/ Finish => phase = "walk" /\ UNCHANGED <<opt, folderMap>>
  BY DEF ListFolder, Finish
<1>2. OpenRoot => phase = "open" /\ phase' = "walk" /\ opt' = opt
  BY DEF OpenRoot
<1>3. EndRun => phase' = "idle" /\ done' = {} /\ recorded' = {}
  BY DEF EndRun, FreshCopier
<1>4. Finish => phase' = "finish"
  BY DEF Finish
<1>5. phase' = phase \/ EndRun \/ OpenRoot \/ Finish \/ phase = "idle"
  <2>1. CASE UNCHANGED vars
    BY <2>1 DEF vars
  <2>2. ASSUME NEW o \in scenario.options, StartRun(o) PROVE phase = "idle"
    BY <2>2 DEF StartRun
  <2>3. CASE ListFolder \/ BuildIndex \/ BatchedList \/ Descend \/ LeaveLevel \/ DropJobs
             \/ QuotaStops \/ Signal \/ UserTrash \/ UserUpload
    BY <2>3 DEF ListFolder, BuildIndex, BatchedList, Descend, LeaveLevel, DropJobs,
       QuotaStops, Signal, UserTrash, UserUpload
  <2>4. CASE Finalize \/ RootFails \/ Crash
    BY <2>4 DEF Finalize, RootFails, Crash
  <2>5. ASSUME NEW e \in Ids, \/ SubmitFile(e) \/ LoopSkipped(e) \/ SkipComplete(e)
                              \/ EnterFolder(e) \/ ShortcutUnresolved(e) \/ CreateFails(e)
                              \/ CopyInline(e)
        PROVE  phase' = phase
    BY <2>5 DEF SubmitFile, LoopSkipped, SkipComplete, EnterFolder, ShortcutUnresolved,
       CreateFails, CopyInline, CopyFile
  <2>6. CASE RunJob
    BY <2>6 DEF RunJob, CopyFile
  <2>. QED BY <2>1, <2>2, <2>3, <2>4, <2>5, <2>6 DEF Next, Main, Pool, Environment
<1>. QED BY <1>1, <1>2, <1>3, <1>4, <1>5

\* A folder of the map that stands stays in the map.
LEMMA MapKnows ==
  ASSUME Inv, ShapeInv, RootInv, MapsInv, Unmistaken, NEW e \in Ids, EnterFolder(e),
         NEW x \in FolderEntries, folderMap[x] # Nothing, folders[folderMap[x]].live
  PROVE  folderMap'[x] = folderMap[x]
<1>1. PICK d, f : EnteredAs(e, d, f) /\ ObtainedAs(e, d)
  BY EnterIs DEF ShapeInv
<1>7. d # Nothing => d = folderMap[e] \/ ~Cached(e)
  BY <1>1, KnownObtained
<1>8. x = e => Cached(e)
  <2>1. MapOK(folderMap, droot, folders, scenario.children)
    BY DEF MapsInv
  <2>. QED BY <2>1 DEF MapOK, Cached
<1>9. /\ folderMap' = IF d = Nothing THEN folderMap ELSE [folderMap EXCEPT ![e] = d]
      /\ folderMap \in [FolderEntries -> Nat]
  BY <1>1 DEF ObtainedAs, Inv, DriveInv
<1>. QED BY <1>7, <1>8, <1>9

\* Every step of a run keeps the marks right.
LEMMA RunRight ==
  ASSUME Inv, ShapeInv, LedgerInv, IndexInv, MapsInv, ModesTell, SkipsTell, MaySkip,
         [Next]_vars, ~UserTrash, phase \in {"walk", "finish"}, ~opt.dry,
         RightOK(copied, done, folderMap, items, scenario.children),
         ListedOK(recorded, folderMap, scenario.children)
  PROVE  /\ RightOK(copied', done', folderMap, items', scenario.children)
         /\ ListedOK(recorded', folderMap, scenario.children)
<1> DEFINE ch == scenario.children
<1>1. KeptItems(items, items') /\ MapGrows(folderMap, folderMap)
  BY ItemsStay DEF MapGrows
<1>2. ASSUME NEW c \in SUBSET copied PROVE RightOK(c, done, folderMap, items', ch)
  BY <1>1, RightKept
<1>3. CASE UNCHANGED <<copied, done, recorded>>
  BY <1>2, <1>3
<1>4. CASE EndRun
  BY <1>4 DEF EndRun, FreshCopier, RightOK, MarkedOK, DoneOK, ListedOK
<1>5. CASE ListFolder
  <2>1. copied' = copied /\ done' = done /\ recorded' \subseteq recorded \union {Top.src}
    BY <1>5 DEF ListFolder, markVars
  <2>2. stack # <<>> /\ Top \in Frames(stack) /\ phase = "walk"
    BY <1>5, TopInFrames DEF ListFolder, Inv
  <2>3. Top.dest \in Targets /\ Top.dest # Nothing
    BY <2>2, TargetIs DEF MapsInv, Spots
  <2>4. DestOK(Top.dest, Top.src, folders)
    BY <2>2 DEF ShapeInv, FramesOK, FrameOK
  <2>5. \E k \in Standing(ch) : Source(k) = Top.src /\ folderMap[k] # Nothing
    BY <2>3, <2>4, TargetMapped DEF DestOK
  <2>. QED BY <1>2, <2>1, <2>5 DEF ListedOK
<1>6. CASE Finish
  <2>1. copied' = copied /\ items' = items /\ recorded' = recorded
        /\ (done' = done \/ done' = done \union Completed)
    BY <1>6 DEF Finish, treeVars
  <2>2. RightOK(copied, done \union Completed, folderMap, items, ch)
    BY FinishRight DEF Inv, RunInv
  <2>. QED BY <2>1, <2>2
<1>7. ASSUME NEW t, DoneWith(t)
      PROVE  /\ RightOK(copied', done', folderMap, items', ch)
             /\ ListedOK(recorded', folderMap, ch)
  <2>1. /\ copied' \subseteq copied \union {t.entry}
        /\ t.entry \in copied' => HeldIn(t.entry, t.dest, items')
        /\ done' = done /\ recorded' = recorded
    BY <1>7, MarkedHeld
  <2>2. /\ t \in Work /\ phase = "walk" /\ t.dest \in Targets /\ t.dest # Nothing
        /\ folders[t.dest].key \in FolderEntries
        /\ t.entry \in Among(ch, Source(folders[t.dest].key))
    BY <1>7, WorkWhere, WorkFacts DEF DoneWith, MapsInv
  <2>3. PICK k \in Standing(ch) : folderMap[k] = t.dest /\ t.entry \in Among(ch, Source(k))
    BY <2>2, TargetMapped
  <2>4. copied' \ {t.entry} \in SUBSET copied
    BY <2>1
  <2>5. RightOK(copied' \ {t.entry}, done, folderMap, items', ch)
    BY <1>2, <2>4
  <2>6. MarkedOK(copied', folderMap, items', ch)
    <3>1. MarkedOK(copied' \ {t.entry}, folderMap, items', ch)
      BY <2>5 DEF RightOK
    <3>. QED BY <2>1, <2>2, <2>3, <3>1 DEF MarkedOK
  <2>. QED BY <2>1, <2>5, <2>6 DEF RightOK
<1>8. ~OpenRoot
  BY DEF OpenRoot
<1>. QED BY <1>3, <1>4, <1>5, <1>6, <1>7, <1>8, MarkSteps

\* A run begins with what the root's log has marked.
LEMMA OpenRight ==
  ASSUME Inv, MapsInv, MirrorInv, OpenRoot
  PROVE  /\ ~MaySkip => done' = {}
         /\ MaySkip => RightOK(copied', done', folderMap', items', scenario.children)
         /\ recorded' = {}
<1> DEFINE ch == scenario.children
<1>1. PICK d \in Destinations(DestParent, Root) :
        LET log == IF d \in DOMAIN folders THEN folders[d].log ELSE None
        IN  /\ folderMap' = [e \in FolderEntries |->
                               IF e = Root THEN d
                               ELSE IF log = None THEN Nothing ELSE log.map[e]]
            /\ copied' = IF log = None THEN {} ELSE log.copied
            /\ done' = IF log = None THEN {} ELSE log.done
  BY DEF OpenRoot
<1> DEFINE log == IF d \in DOMAIN folders THEN folders[d].log ELSE None
<1>2. items' = items /\ recorded' = recorded /\ phase = "open"
  BY DEF OpenRoot, treeVars
<1>3. recorded = {}
  BY <1>2 DEF MirrorInv
<1>4. CASE log = None
  <2>1. copied' = {} /\ done' = {}
    BY <1>1, <1>4
  <2>. QED BY <1>2, <1>3, <2>1 DEF RightOK, MarkedOK, DoneOK
<1>5. CASE log # None
  <2>1. d \in DOMAIN folders /\ folders[d].log # None /\ log = folders[d].log
    BY <1>5
  <2>2. copied' = log.copied /\ done' = log.done
    BY <1>1, <1>5
  <2>3. ~MaySkip => done' = {}
    BY <2>1, <2>2 DEF MirrorInv
  <2>4. MapGrows(log.map, folderMap')
    <3>1. MapOK(log.map, d, folders, ch)
      BY <2>1 DEF MapsInv
    <3>2. \A e \in FolderEntries : folderMap'[e] = IF e = Root THEN d ELSE log.map[e]
      BY <1>1, <1>5
    <3>. QED BY <3>1, <3>2 DEF MapOK, MapGrows
  <2>5. MaySkip => RightOK(log.copied, log.done, log.map, items, ch)
    BY <2>1 DEF MirrorInv
  <2>6. KeptItems(items, items)
    BY DEF KeptItems
  <2> HIDE DEF log
  <2>7. MaySkip => RightOK(log.copied, log.done, folderMap', items, ch)
    BY <2>4, <2>5, <2>6, RightKept
  <2>. QED BY <1>2, <1>3, <2>2, <2>3, <2>7
<1>. QED BY <1>4, <1>5

LEMMA MirrorNext ==
  ASSUME Inv, Inv', ShapeInv, RootInv, LedgerInv, IndexInv, MapsInv, MirrorInv,
         Unmistaken, ModesTell, SkipsTell, [Next]_vars, scenario' = scenario
  PROVE  MirrorInv'
<1> DEFINE ch == scenario.children
<1>1. MaySkip' <=> MaySkip
  BY DEF MaySkip
<1>2. ASSUME NEW t, DoneWith(t)
      PROVE  phase = "walk" /\ UNCHANGED <<phase, done, recorded, folderMap>>
  BY <1>2, WorkWhere, MarkedHeld DEF DoneWith
<1>3. phase' \in {"idle", "open"} => recorded' = {} /\ done' = {}
  BY <1>2, PhaseSteps, MarkSteps DEF MirrorInv
<1>4. ASSUME ~MaySkip
      PROVE  done' = {} /\ \A x \in DOMAIN folders' :
                             folders'[x].log # None => folders'[x].log.done = {}
  <2>1. done = {} /\ \A x \in DOMAIN folders :
                       folders[x].log # None => folders[x].log.done = {}
    BY <1>4 DEF MirrorInv
  <2>2. Finish => done' = done
    <3>1. Finish => opt \in scenario.options
      BY PhaseSteps DEF LedgerInv, PlaceInv
    <3>. QED BY <1>4, <3>1 DEF Finish, MaySkip
  <2>3. ListFolder => done' = done
    BY DEF ListFolder
  <2>4. done' = {}
    BY <1>2, <1>4, <2>1, <2>2, <2>3, MarkSteps, PhaseSteps, OpenRight
  <2>5. CASE UserTrash
    <3>1. DOMAIN folders' = DOMAIN folders
          /\ \A x \in DOMAIN folders : folders'[x].log = folders[x].log
      BY <2>5, TrashStands DEF MapsInv
    <3>. QED BY <2>1, <2>4, <3>1
  <2>6. CASE ~UserTrash
    <3>1. \A x \in DOMAIN folders' : folders'[x].log # None =>
            \/ x \in DOMAIN folders /\ folders'[x].log = folders[x].log
            \/ folders'[x].log = [copied |-> copied', map |-> folderMap,
                                  done |-> done', failed |-> stateFailed]
      BY <2>6, FoldersStay
    <3>. QED BY <2>1, <2>4, <3>1
  <2>. QED BY <2>5, <2>6
<1>5. ASSUME MaySkip
      PROVE  /\ \A x \in DOMAIN folders' : folders'[x].live
             /\ \A i \in DOMAIN items' : items'[i].live
             /\ \A x \in DOMAIN folders' : folders'[x].log # None =>
                  RightOK(folders'[x].log.copied, folders'[x].log.done,
                          folders'[x].log.map, items', ch)
             /\ phase' \in {"walk", "finish"} /\ ~opt'.dry =>
                  /\ RightOK(copied', done', folderMap', items', ch)
                  /\ ListedOK(recorded', folderMap', ch)
  <2>1. ~UserTrash
    BY <1>5 DEF UserTrash
  <2>2. /\ \A x \in DOMAIN folders : folders[x].live
        /\ \A i \in DOMAIN items : items[i].live
    BY <1>5 DEF MirrorInv
  <2>3. \A x \in DOMAIN folders' : folders'[x].live
    BY <2>1, <2>2, FoldersStay
  <2>4. \A i \in DOMAIN items' : items'[i].live
    BY <2>1, <2>2, ItemsStay DEF KeptItems
  <2>5. ASSUME phase \in {"walk", "finish"}, ~opt.dry
        PROVE  /\ RightOK(copied', done', folderMap, items', ch)
               /\ ListedOK(recorded', folderMap, ch)
    BY <1>5, <2>1, <2>5, RunRight DEF MirrorInv
  <2>6. ASSUME NEW x \in DOMAIN folders', folders'[x].log # None
        PROVE  RightOK(folders'[x].log.copied, folders'[x].log.done,
                       folders'[x].log.map, items', ch)
    <3>1. CASE x \in DOMAIN folders /\ folders'[x].log = folders[x].log
      <4>1. RightOK(folders[x].log.copied, folders[x].log.done, folders[x].log.map,
                    items, ch)
        BY <1>5, <2>6, <3>1 DEF MirrorInv
      <4>2. KeptItems(items, items')
        BY <2>1, ItemsStay
      <4>3. MapGrows(folders[x].log.map, folders[x].log.map)
        BY DEF MapGrows
      <4>4. RightOK(folders[x].log.copied, folders[x].log.done, folders[x].log.map,
                    items', ch)
        BY <4>1, <4>2, <4>3, RightKept
      <4>. QED BY <3>1, <4>4
    <3>2. CASE /\ phase = "walk" /\ ~opt.dry
               /\ folders'[x].log = [copied |-> copied', map |-> folderMap,
                                     done |-> done', failed |-> stateFailed]
      BY <2>5, <3>2
    <3>. QED BY <2>1, <2>6, <3>1, <3>2, FoldersStay
  <2>7. ASSUME phase' \in {"walk", "finish"}, ~opt'.dry
        PROVE  /\ RightOK(copied', done', folderMap', items', ch)
               /\ ListedOK(recorded', folderMap', ch)
    <3>1. CASE OpenRoot
      <4>1. RightOK(copied', done', folderMap', items', ch) /\ recorded' = {}
        BY <1>5, <3>1, OpenRight
      <4>. QED BY <4>1 DEF ListedOK
    <3>2. ASSUME MapGrows(folderMap, folderMap'), phase \in {"walk", "finish"}, ~opt.dry
          PROVE  /\ RightOK(copied', done', folderMap', items', ch)
                 /\ ListedOK(recorded', folderMap', ch)
      <4>1. KeptItems(items', items') /\ copied' \in SUBSET copied'
        BY DEF KeptItems
      <4>. QED BY <2>5, <3>2, <4>1, RightKept, ListedKept
    <3>3. ASSUME NEW e \in Ids, EnterFolder(e)
          PROVE  /\ MapGrows(folderMap, folderMap') /\ phase \in {"walk", "finish"}
                 /\ ~opt.dry
      <4>1. phase' = phase /\ opt' = opt
        BY <3>3 DEF EnterFolder, runVars
      <4>2. \A k \in FolderEntries : folderMap[k] # Nothing => folders[folderMap[k]].live
        BY <2>2 DEF MapsInv, MapOK
      <4>3. MapGrows(folderMap, folderMap')
        BY <3>3, <4>2, MapKnows DEF MapGrows
      <4>. QED BY <2>7, <4>1, <4>3
    <3>4. UNCHANGED folderMap => MapGrows(folderMap, folderMap')
      BY DEF MapGrows
    <3>. QED BY <2>1, <2>7, <3>1, <3>2, <3>3, <3>4, MapSteps, PhaseSteps
  <2>. QED BY <2>3, <2>4, <2>6, <2>7
<1>. QED BY <1>1, <1>3, <1>4, <1>5 DEF MirrorInv

LEMMA MirrorInit == Init => IndexInv /\ MirrorInv
<1> SUFFICES ASSUME Init PROVE IndexInv /\ MirrorInv
  OBVIOUS
<1>1. /\ folders = <<[key |-> None, parent |-> Nothing, live |-> TRUE, log |-> None]>>
      /\ phase = "idle" /\ stack = <<>> /\ jobs = {} /\ items = <<>> /\ indexes = <<>>
      /\ recorded = {} /\ done = {}
  BY DEF Init
<1>2. DOMAIN folders = {1} /\ folders[1].live /\ folders[1].log = None
  BY <1>1
<1>3. Loops(Frames(stack)) = {} /\ DOMAIN items = {} /\ DOMAIN indexes = {}
  BY <1>1, EmptySeq DEF Loops, Frames, Entries
<1>4. Work = {}
  BY <1>1, <1>3, WorkIs
<1>5. IndexInv
  BY <1>3, <1>4 DEF IndexInv
<1>. QED BY <1>1, <1>2, <1>3, <1>5 DEF MirrorInv

-----------------------------------------------------------------------------
(* The ways down a tree                                                    *)

\* A way begins at the root, goes on to entries of the folder it has come to, and
\* enters none twice.
WayOK(p, ch) ==
  /\ p \in Seq(Ids) /\ Len(p) \in Nat \ {0} /\ p[1] = Root
  /\ \A i \in 1..(Len(p) - 1) : p[i] \in FolderEntries /\ p[i + 1] \in Among(ch, Source(p[i]))
  /\ \A i, j \in 1..Len(p) : i # j => Source(p[i]) # Source(p[j])

LEMMA WaysAre ==
  ASSUME scenario \in Scenarios
  PROVE  \A p \in Ways[scenario] : WayOK(p, scenario.children)
<1> DEFINE ch == scenario.children
           N == Cardinality(Folders) + 1
           Of(f) == {ch[f][i] : i \in DOMAIN ch[f]}
           Longer(p) == {Append(p, e) : e \in
             {x \in Of(Source(p[Len(p)])) : \A i \in DOMAIN p : Source(p[i]) # Source(x)}}
           More(s, n) == UNION {Longer(p) : p \in {q \in s : q[n - 1] \in FolderEntries}}
           Step(g, n) == IF n = 1 THEN {<<Root>>} ELSE More(g[n - 1], n)
           T == {m \in Nat : \E g : g = [n \in 1..m |-> Step(g, n)]}
<1>1. N \in Nat
  BY FiniteAssumption, FS_CardinalityType
<1> HIDE DEF More
<1>2. 0 \in T
  <2> DEFINE z == [n \in 1..0 |-> TRUE]
  <2>1. z = [n \in 1..0 |-> Step(z, n)]
    OBVIOUS
  <2> HIDE DEF z
  <2>2. \E g : g = [n \in 1..0 |-> Step(g, n)]
    BY <2>1, Zenon
  <2>. QED BY <2>2
<1>3. ASSUME NEW m \in Nat, m \in T PROVE m + 1 \in T
  <2>1. PICK g : g = [n \in 1..m |-> Step(g, n)]
    BY <1>3
  <2> DEFINE h == [n \in 1..(m + 1) |-> Step(g, n)]
  <2>2. \A n \in 1..m : g[n] = Step(g, n) /\ n \in 1..(m + 1)
    <3> HIDE DEF Step
    <3>. QED BY <2>1
  <2>3. \A n \in 1..m : h[n] = g[n]
    BY <2>2
  <2> HIDE DEF h
  <2>4. \A n \in 1..(m + 1) : n # 1 => n - 1 \in 1..m
    OBVIOUS
  <2>5. \A n \in 1..(m + 1) : Step(g, n) = Step(h, n)
    BY <2>3, <2>4
  <2>6. h = [n \in 1..(m + 1) |-> Step(h, n)]
    BY <2>5 DEF h
  <2>. QED BY <2>6
<1>4. PICK w : w = [n \in 1..N |-> Step(w, n)]
  <2>1. N \in T
    <3> HIDE DEF T, N
    <3>. QED BY <1>1, <1>2, <1>3, Induct
  <2>. QED BY <2>1
<1> DEFINE ways == CHOOSE g : g = [n \in 1..N |-> Step(g, n)]
<1>5. ways = [n \in 1..N |-> Step(ways, n)]
  BY <1>4
<1>6. Ways[scenario] = UNION {ways[n] : n \in DOMAIN ways}
  BY DEF Ways, PathsOf, More
<1> HIDE DEF ways
<1> DEFINE U == {m \in Nat : \A n \in 1..N : n <= m =>
                               \A p \in ways[n] : WayOK(p, ch) /\ Len(p) = n}
<1>7. 0 \in U
  OBVIOUS
<1>8. \A f \in Folders : Of(f) \subseteq Ids /\ Of(f) = Among(ch, f)
  <2>1. SUFFICES ASSUME NEW f \in Folders PROVE Of(f) \subseteq Ids
    BY DEF Among
  <2>2. ch[f] \in Seq(Ids)
    BY ChildrenTyped DEF Children
  <2>. QED BY <2>2, LenProperties, ElementOfSeq
<1>9. ASSUME NEW m \in Nat, m \in U PROVE m + 1 \in U
  <2>1. SUFFICES ASSUME m + 1 \in 1..N, NEW p \in ways[m + 1]
                 PROVE  WayOK(p, ch) /\ Len(p) = m + 1
    BY <1>1, <1>9
  <2>2. p \in Step(ways, m + 1)
    BY <1>5, <2>1
  <2>3. CASE m = 0
    <3>1. p = <<Root>>
      BY <2>2, <2>3
    <3>2. p \in Seq(Ids) /\ Len(p) = 1 /\ p[1] = Root
      BY <3>1, RootAssumption DEF Ids
    <3>. QED BY <2>3, <3>2 DEF WayOK
  <2>4. CASE m # 0
    <3>1. PICK q \in ways[m] : q[m] \in FolderEntries /\ p \in Longer(q)
      <4> HIDE DEF Longer
      <4>1. p \in More(ways[m], m + 1) /\ m + 1 - 1 = m
        BY <2>2, <2>4
      <4>. QED BY <4>1 DEF More
    <3>2. m \in 1..N
      BY <1>1, <2>1, <2>4
    <3>3. WayOK(q, ch) /\ Len(q) = m
      BY <1>9, <3>1, <3>2
    <3>4. PICK e : /\ e \in Of(Source(q[m])) /\ p = Append(q, e)
                   /\ \A i \in DOMAIN q : Source(q[i]) # Source(e)
      BY <3>1, <3>3
    <3>5. Source(q[m]) \in Folders
      BY <3>1, EntryFacts
    <3>6. e \in Ids /\ e \in Among(ch, Source(q[m]))
      BY <1>8, <3>4, <3>5
    <3> HIDE DEF Of, Longer
    <3>7. q \in Seq(Ids) /\ DOMAIN q = 1..m
      BY <3>3, LenProperties DEF WayOK
    <3>8. /\ p \in Seq(Ids) /\ Len(p) = m + 1 /\ p[m + 1] = e
          /\ \A i \in 1..m : p[i] = q[i]
      BY <3>3, <3>4, <3>6, <3>7, AppendProperties
    <3>9. \A i \in 1..(m + 1) : i \in 1..m \/ i = m + 1
      OBVIOUS
    <3>10. \A i \in 1..m : p[i] \in FolderEntries /\ p[i + 1] \in Among(ch, Source(p[i]))
      <4>1. \A i \in 1..m : i = m \/ (i \in 1..(m - 1) /\ i + 1 \in 1..m)
        OBVIOUS
      <4>. QED BY <3>1, <3>3, <3>6, <3>8, <4>1 DEF WayOK
    <3>11. p[1] = Root
      BY <2>4, <3>3, <3>8 DEF WayOK
    <3>12. \A i, j \in 1..(m + 1) : i # j => Source(p[i]) # Source(p[j])
      BY <3>3, <3>4, <3>7, <3>8, <3>9 DEF WayOK
    <3>. QED BY <3>8, <3>10, <3>11, <3>12 DEF WayOK
  <2>. QED BY <2>3, <2>4
<1>10. N \in U
  <2> HIDE DEF U, N
  <2>. QED BY <1>1, <1>7, <1>9, Induct
<1>11. DOMAIN ways = 1..N
  BY <1>5
<1>. QED BY <1>1, <1>6, <1>10, <1>11

\* Where a way has come to a folder, it has entered it, or is at the root.
LEMMA WayStands ==
  ASSUME NEW ch, NEW p, WayOK(p, ch), NEW n \in 1..Len(p), p[n] \in FolderEntries
  PROVE  \A i \in 1..n : /\ p[i] \in FolderEntries /\ p[i] \in Standing(ch)
                         /\ i # 1 => p[i] \in Enterable(ch)
<1>1. Len(p) \in Nat
  BY DEF WayOK
<1>2. ASSUME NEW i \in 1..n PROVE p[i] \in FolderEntries
  <2>1. i = n \/ i \in 1..(Len(p) - 1)
    BY <1>1
  <2>. QED BY <2>1 DEF WayOK
<1>3. ASSUME NEW i \in 1..n, i # 1 PROVE p[i] \in Enterable(ch)
  <2>1. /\ i - 1 \in 1..(Len(p) - 1) /\ i - 1 + 1 = i /\ i \in 1..Len(p) /\ 1 \in 1..Len(p)
        /\ i - 1 \in 1..Len(p) /\ i - 1 # i
    BY <1>1, <1>3
  <2>2. p[i - 1] \in FolderEntries /\ p[i] \in Among(ch, Source(p[i - 1]))
    BY <2>1 DEF WayOK
  <2>3. Source(p[i]) # Source(p[1]) /\ Source(p[i - 1]) # Source(p[i]) /\ p[1] = Root
    BY <1>3, <2>1 DEF WayOK
  <2>4. Source(Root) = Root /\ Source(p[i - 1]) \in Folders
    BY <2>2, EntryFacts, RootAssumption, IdAssumption DEF Source
  <2>. QED BY <1>2, <2>2, <2>3, <2>4 DEF Enterable
<1>4. p[1] = Root
  BY DEF WayOK
<1>. QED BY <1>2, <1>3, <1>4 DEF Standing

-----------------------------------------------------------------------------
(* The folders along a way                                                 *)

\* FoldersAt, of any folders.
StandAt(p, n, fs) ==
  LET at[i \in 1..n] ==
        {d \in DOMAIN fs :
           /\ fs[d].live /\ fs[d].key = p[i]
           /\ IF i = 1 THEN fs[d].parent = DestParent ELSE fs[d].parent \in at[i - 1]}
  IN  at[n]

LEMMA FoldersAtIs ==
  /\ \A p, n : FoldersAt(p, n) = StandAt(p, n, folders)
  /\ \A p, n : FoldersAt(p, n)' = StandAt(p, n, folders')
BY DEF FoldersAt, StandAt

\* What it comes to entry by entry.
AtOK(at, p, n, fs) ==
  \A i \in 1..n : at[i] =
    {d \in DOMAIN fs :
       /\ fs[d].live /\ fs[d].key = p[i]
       /\ IF i = 1 THEN fs[d].parent = DestParent ELSE fs[d].parent \in at[i - 1]}

LEMMA StandsAre ==
  ASSUME NEW p, NEW n \in Nat, n # 0, NEW fs
  PROVE  \E at : StandAt(p, n, fs) = at[n] /\ AtOK(at, p, n, fs)
<1> DEFINE Step(g, i) == {d \in DOMAIN fs :
                            /\ fs[d].live /\ fs[d].key = p[i]
                            /\ IF i = 1 THEN fs[d].parent = DestParent
                                        ELSE fs[d].parent \in g[i - 1]}
           T == {m \in Nat : \E g : g = [i \in 1..m |-> Step(g, i)]}
<1>1. 0 \in T
  <2>1. [i \in 1..0 |-> TRUE] = [i \in 1..0 |-> Step([y \in 1..0 |-> TRUE], i)]
    OBVIOUS
  <2>. QED BY <2>1
<1>2. ASSUME NEW m \in Nat, m \in T PROVE m + 1 \in T
  <2>1. PICK g : g = [i \in 1..m |-> Step(g, i)]
    BY <1>2
  <2> DEFINE h == [i \in 1..(m + 1) |-> Step(g, i)]
  <2>2. \A i \in 1..m : g[i] = Step(g, i) /\ i \in 1..(m + 1)
    BY <2>1
  <2>3. \A i \in 1..m : h[i] = g[i]
    BY <2>2
  <2> HIDE DEF h
  <2>4. \A i \in 1..(m + 1) : i # 1 => i - 1 \in 1..m
    OBVIOUS
  <2>5. \A i \in 1..(m + 1) : Step(g, i) = Step(h, i)
    BY <2>3, <2>4
  <2>6. h = [i \in 1..(m + 1) |-> Step(h, i)]
    BY <2>5 DEF h
  <2>. QED BY <2>6
<1>3. PICK w : w = [i \in 1..n |-> Step(w, i)]
  <2>1. n \in T
    <3> HIDE DEF T
    <3>. QED BY <1>1, <1>2, Induct
  <2>. QED BY <2>1
<1> DEFINE at == CHOOSE g : g = [i \in 1..n |-> Step(g, i)]
<1>4. at = [i \in 1..n |-> Step(at, i)]
  BY <1>3
<1>5. StandAt(p, n, fs) = at[n]
  BY DEF StandAt
<1> HIDE DEF at
<1>6. \A i \in 1..n : at[i] = Step(at, i)
  BY <1>4
<1>7. AtOK(at, p, n, fs)
  BY <1>6 DEF AtOK
<1>. QED BY <1>5, <1>7

\* A chain of folders, each in the one before it, leads there.
LEMMA ChainStands ==
  ASSUME NEW p, NEW n \in Nat, n # 0, NEW fs, NEW c,
         \A i \in 1..n : /\ c[i] \in DOMAIN fs /\ fs[c[i]].live /\ fs[c[i]].key = p[i]
                         /\ fs[c[i]].parent = IF i = 1 THEN DestParent ELSE c[i - 1]
  PROVE  c[n] \in StandAt(p, n, fs)
<1>1. PICK at : StandAt(p, n, fs) = at[n] /\ AtOK(at, p, n, fs)
  BY StandsAre
<1> DEFINE T == {m \in Nat : \A i \in 1..n : i <= m => c[i] \in at[i]}
<1>2. 0 \in T
  OBVIOUS
<1>3. ASSUME NEW m \in Nat, m \in T PROVE m + 1 \in T
  <2>1. SUFFICES ASSUME m + 1 \in 1..n PROVE c[m + 1] \in at[m + 1]
    BY <1>3
  <2>2. m + 1 # 1 => m \in 1..n /\ m + 1 - 1 = m /\ c[m] \in at[m]
    BY <1>3, <2>1
  <2>. QED BY <1>1, <2>1, <2>2 DEF AtOK
<1>4. n \in T
  <2> HIDE DEF T
  <2>. QED BY <1>2, <1>3, Induct
<1>. QED BY <1>1, <1>4

\* Folders that stay are where they were on every way.
LEMMA StandsGrow ==
  ASSUME NEW p, NEW n \in Nat, n # 0, NEW fs, NEW gs, Kept(fs, gs),
         \A d \in DOMAIN fs : fs[d].live => gs[d].live
  PROVE  StandAt(p, n, fs) \subseteq StandAt(p, n, gs)
<1>1. PICK at : StandAt(p, n, fs) = at[n] /\ AtOK(at, p, n, fs)
  BY StandsAre
<1>2. PICK bt : StandAt(p, n, gs) = bt[n] /\ AtOK(bt, p, n, gs)
  BY StandsAre
<1> DEFINE T == {m \in Nat : \A i \in 1..n : i <= m => at[i] \subseteq bt[i]}
<1>3. 0 \in T
  OBVIOUS
<1>4. ASSUME NEW m \in Nat, m \in T PROVE m + 1 \in T
  <2>1. SUFFICES ASSUME m + 1 \in 1..n, NEW d \in at[m + 1] PROVE d \in bt[m + 1]
    BY <1>4
  <2>2. m + 1 # 1 => m \in 1..n /\ m + 1 - 1 = m /\ at[m] \subseteq bt[m]
    BY <1>4, <2>1
  <2>3. d \in DOMAIN fs /\ fs[d].live /\ fs[d].key = p[m + 1]
        /\ IF m + 1 = 1 THEN fs[d].parent = DestParent ELSE fs[d].parent \in at[m]
    BY <1>1, <2>1, <2>2 DEF AtOK
  <2>4. d \in DOMAIN gs /\ gs[d].live /\ gs[d].key = p[m + 1] /\ gs[d].parent = fs[d].parent
    BY <2>3 DEF Kept
  <2>5. IF m + 1 = 1 THEN gs[d].parent = DestParent ELSE gs[d].parent \in bt[m]
    BY <2>2, <2>3, <2>4
  <2>. QED BY <1>2, <2>1, <2>2, <2>4, <2>5 DEF AtOK
<1>5. n \in T
  <2> HIDE DEF T
  <2>. QED BY <1>3, <1>4, Induct
<1>. QED BY <1>1, <1>2, <1>5

-----------------------------------------------------------------------------
(* What is completed is there                                              *)

\* SkipsTell, of one source tree.
OneOfEach(ch) ==
  /\ \A e, f \in Enterable(ch) \union {Root} : Source(e) = Source(f) => e = f
  /\ \A f \in Folders : \A x, y \in Among(ch, f) \intersect Files :
       Index!Same(x, y) => x = y

\* A folder of the map that stands is at the end of every way to its entry.
LEMMA WayMapped ==
  ASSUME NEW ch, OneWayDown(ch), NEW fs, TreeOK(fs), NEW map, NEW r, MapOK(map, r, fs, ch),
         NEW p, WayOK(p, ch), NEW n \in 1..Len(p), p[n] \in FolderEntries,
         map[p[n]] # Nothing, fs[map[p[n]]].live
  PROVE  map[p[n]] \in StandAt(p, n, fs)
<1>1. Len(p) \in Nat /\ n \in Nat /\ n # 0 /\ p[1] = Root
  BY DEF WayOK
<1>2. \A i \in 1..n : /\ p[i] \in FolderEntries /\ p[i] \in Standing(ch)
                      /\ i # 1 => p[i] \in Enterable(ch)
  BY WayStands
<1>3. ASSUME NEW i \in 2..n, map[p[i]] # Nothing, fs[map[p[i]]].live
      PROVE  /\ map[p[i - 1]] # Nothing /\ fs[map[p[i - 1]]].live
             /\ fs[map[p[i]]].parent = map[p[i - 1]]
  <2>1. i \in 1..n /\ i - 1 \in 1..n /\ i # 1 /\ i - 1 \in 1..(Len(p) - 1) /\ i - 1 + 1 = i
    BY <1>1
  <2>2. p[i] \in Enterable(ch) /\ p[i] \in FolderEntries /\ p[i - 1] \in Standing(ch)
    BY <1>2, <2>1
  <2>3. p[i] # Root
    BY <2>2, RootAssumption, IdAssumption DEF Enterable, Source
  <2>4. p[i] \in Among(ch, Source(p[i - 1]))
    BY <2>1 DEF WayOK
  <2>5. map[p[i]] \in DOMAIN fs /\ fs[map[p[i]]].key = p[i]
    BY <1>3, <2>2 DEF MapOK
  <2>6. PICK k \in Standing(ch) : /\ p[i] \in Among(ch, Source(k)) /\ map[k] # Nothing
                                  /\ fs[map[p[i]]].parent = map[k]
    BY <1>3, <2>2, <2>3 DEF MapOK
  <2>7. k = p[i - 1]
    BY <2>2, <2>4, <2>6 DEF OneWayDown, Standing
  <2>8. map[p[i]] \in DOMAIN fs \ {DestParent}
    BY <2>2, <2>5, EntryFacts DEF TreeOK
  <2>. QED BY <1>3, <2>6, <2>7, <2>8 DEF TreeOK
<1> DEFINE T == {m \in Nat : m < n => map[p[n - m]] # Nothing /\ fs[map[p[n - m]]].live}
<1>4. 0 \in T
  BY <1>1
<1>5. ASSUME NEW m \in Nat, m \in T PROVE m + 1 \in T
  <2>1. SUFFICES ASSUME m + 1 < n
                 PROVE  map[p[n - (m + 1)]] # Nothing /\ fs[map[p[n - (m + 1)]]].live
    BY <1>5
  <2>2. n - m \in 2..n /\ n - (m + 1) = n - m - 1 /\ m < n
    BY <1>1, <2>1
  <2>. QED BY <1>3, <1>5, <2>2
<1>6. \A i \in 1..n : map[p[i]] # Nothing /\ fs[map[p[i]]].live
  <2>1. Nat \subseteq T
    <3> HIDE DEF T
    <3>. QED BY <1>4, <1>5, Induct
  <2>2. \A i \in 1..n : n - i \in Nat /\ n - i < n /\ n - (n - i) = i
    BY <1>1
  <2>. QED BY <2>1, <2>2
<1> DEFINE c == [i \in 1..n |-> map[p[i]]]
<1>7. ASSUME NEW i \in 1..n
      PROVE  /\ c[i] \in DOMAIN fs /\ fs[c[i]].live /\ fs[c[i]].key = p[i]
             /\ fs[c[i]].parent = IF i = 1 THEN DestParent ELSE c[i - 1]
  <2>1. c[i] = map[p[i]] /\ c[i] # Nothing /\ fs[c[i]].live
    BY <1>6
  <2>2. c[i] \in DOMAIN fs /\ fs[c[i]].key = p[i]
    BY <1>2, <2>1 DEF MapOK
  <2>3. CASE i = 1
    BY <1>1, <1>2, <2>1, <2>2, <2>3 DEF MapOK
  <2>4. CASE i # 1
    <3>1. i \in 2..n /\ i - 1 \in 1..n
      BY <1>1, <2>4
    <3>2. c[i - 1] = map[p[i - 1]]
      BY <3>1
    <3>. QED BY <1>3, <1>6, <2>1, <2>2, <2>4, <3>1, <3>2
  <2>. QED BY <2>3, <2>4
<1>8. c[n] = map[p[n]]
  BY <1>1
<1> HIDE DEF c
<1>9. c[n] \in StandAt(p, n, fs)
  BY <1>1, <1>7, ChainStands
<1>. QED BY <1>8, <1>9

\* Below a completed folder a way comes to completed folders only.
LEMMA DoneBelow ==
  ASSUME NEW ch, NEW map, NEW its, NEW dn \in SUBSET Folders, DoneOK(dn, map, its, ch),
         NEW p, WayOK(p, ch), NEW i \in 1..Len(p), p[i] \in dn
  PROVE  \A j \in i..Len(p) : p[j] \in FolderEntries => p[j] \in dn
<1>1. Len(p) \in Nat /\ i \in Nat /\ \A j \in 1..Len(p) : p[j] \in Ids
  BY LenProperties, ElementOfSeq DEF WayOK
<1> DEFINE T == {m \in Nat : i + m <= Len(p) =>
                               (p[i + m] \in FolderEntries => p[i + m] \in dn)}
<1>2. 0 \in T
  BY <1>1
<1>3. ASSUME NEW m \in Nat, m \in T PROVE m + 1 \in T
  <2>1. SUFFICES ASSUME i + m + 1 <= Len(p), p[i + m + 1] \in FolderEntries
                 PROVE  p[i + m + 1] \in dn
    BY <1>1
  <2>2. i + m \in 1..(Len(p) - 1) /\ i + m <= Len(p) /\ i + m + 1 \in 1..Len(p)
    BY <1>1, <2>1
  <2>3. p[i + m] \in FolderEntries /\ p[i + m + 1] \in Among(ch, Source(p[i + m]))
    BY <2>2 DEF WayOK
  <2>4. p[i + m] \in dn
    BY <1>3, <2>2, <2>3
  <2>5. Source(p[i + m]) = p[i + m]
    BY <2>4, IdAssumption DEF Source
  <2>6. p[i + m + 1] \in Folders
    BY <2>1, <2>3, <2>4, <2>5 DEF DoneOK, FolderEntries, Source
  <2>. QED BY <2>3, <2>4, <2>5, <2>6 DEF DoneOK
<1>4. Nat \subseteq T
  <2> HIDE DEF T
  <2>. QED BY <1>2, <1>3, Induct
<1>5. ASSUME NEW j \in i..Len(p) PROVE p[j] \in FolderEntries => p[j] \in dn
  <2>1. j - i \in Nat /\ i + (j - i) = j /\ j <= Len(p)
    BY <1>1
  <2>. QED BY <1>4, <2>1
<1>. QED BY <1>5

\* Where a folder holds a copy of a file that no other file of it is equal to, it
\* holds as many as it has to.
LEMMA OneHeld ==
  ASSUME ListInv, OneOfEach(scenario.children), NEW g \in Folders, NEW d,
         Source(folders[d].key) = g, NEW x \in Among(scenario.children, g) \intersect Files,
         Among(scenario.children, g) \intersect Shortcuts = {}, HeldIn(x, d, items)
  PROVE  Holds(d, x)
<1> DEFINE I == {i \in ItemsIn(d) : Index!Same(items[i].of, x)}
           W == {f \in ChildSet(Source(folders[d].key)) \intersect FileEntries :
                   Index!Same(f, x)}
<1>1. IsFiniteSet(I)
  BY ItemsFinite, FS_Subset DEF ItemsIn
<1>2. PICK i \in I : TRUE
  BY DEF HeldIn, ItemsIn
<1>3. {i} \subseteq I /\ Cardinality({i}) = 1
  BY FS_Singleton
<1> HIDE DEF I
<1>4. 1 <= Cardinality(I) /\ Cardinality(I) \in Nat
  BY <1>1, <1>3, NoMore
<1>5. W \subseteq {x}
  <2>1. ChildSet(g) = Among(scenario.children, g)
    BY DEF ChildSet, Among, Children
  <2>2. \A f \in Among(scenario.children, g) \intersect FileEntries : f \in Files
    BY EntryFacts DEF FileEntries, Source
  <2>. QED BY <2>1, <2>2 DEF OneOfEach
<1>6. Cardinality({x}) = 1 /\ IsFiniteSet({x})
  BY FS_Singleton
<1> HIDE DEF W
<1>7. Cardinality(W) <= 1 /\ Cardinality(W) \in Nat
  BY <1>5, <1>6, NoMore
<1>8. Cardinality(I) >= Cardinality(W)
  BY <1>4, <1>7
<1>. QED BY <1>8 DEF Holds, I, W

\* Each place on a way through a completed folder is filled.
LEMMA DoneFilled ==
  ASSUME ListInv, OneOfEach(scenario.children), OneWayDown(scenario.children),
         TreeOK(folders), \A d \in DOMAIN folders : folders[d].live,
         NEW map, NEW r, MapOK(map, r, folders, scenario.children),
         NEW dn \in SUBSET Folders, DoneOK(dn, map, items, scenario.children),
         NEW p, WayOK(p, scenario.children), NEW i \in 1..Len(p), p[i] \in dn
  PROVE  Filled(p)
<1> DEFINE ch == scenario.children
           n == Len(p)
<1>1. n \in Nat /\ n \in 1..n /\ i \in Nat /\ \A j \in 1..n : p[j] \in Ids
  BY LenProperties, ElementOfSeq DEF WayOK
<1>2. \A j \in i..n : p[j] \in FolderEntries => p[j] \in dn
  BY DoneBelow
<1>3. ASSUME NEW j \in 1..n, p[j] \in FolderEntries, p[j] \in dn
      PROVE  /\ map[p[j]] \in FoldersAt(p, j) /\ folders[map[p[j]]].key = p[j]
             /\ \A x \in Among(ch, p[j]) \intersect Files : HeldIn(x, map[p[j]], items)
             /\ Among(ch, p[j]) \intersect Shortcuts = {}
             /\ Source(p[j]) = p[j]
  <2>1. p[j] \in Standing(ch)
    <3>1. j \in 1..j
      BY <1>1
    <3>. QED BY <1>3, <3>1, WayStands
  <2>2. Source(p[j]) = p[j]
    BY <1>3, IdAssumption DEF Source
  <2>3. PICK k \in Standing(ch) :
          /\ Source(k) = p[j] /\ map[k] # Nothing
          /\ \A x \in Among(ch, p[j]) \intersect Files : HeldIn(x, map[k], items)
    BY <1>3 DEF DoneOK
  <2>4. k = p[j]
    BY <2>1, <2>2, <2>3 DEF OneOfEach, Standing
  <2>5. map[p[j]] \in DOMAIN folders /\ folders[map[p[j]]].key = p[j]
    BY <1>3, <2>3, <2>4 DEF MapOK
  <2>6. map[p[j]] \in StandAt(p, j, folders)
    BY <1>3, <2>3, <2>4, <2>5, WayMapped
  <2>. QED BY <1>3, <2>2, <2>3, <2>4, <2>5, <2>6, FoldersAtIs DEF DoneOK
<1>4. CASE p[n] \in FolderEntries
  BY <1>1, <1>2, <1>3, <1>4 DEF Filled
<1>5. CASE p[n] \notin FolderEntries
  <2>1. i # n
    BY <1>5, IdAssumption DEF FolderEntries, Source, Ids
  <2>2. n - 1 \in 1..n /\ n - 1 \in i..n /\ n - 1 \in 1..(n - 1) /\ n - 1 + 1 = n
    BY <1>1, <2>1
  <2>3. p[n - 1] \in FolderEntries /\ p[n] \in Among(ch, Source(p[n - 1]))
    BY <2>2 DEF WayOK
  <2>4. p[n - 1] \in dn
    BY <1>2, <2>2, <2>3
  <2>5. /\ map[p[n - 1]] \in FoldersAt(p, n - 1)
        /\ folders[map[p[n - 1]]].key = p[n - 1]
        /\ \A x \in Among(ch, p[n - 1]) \intersect Files :
             HeldIn(x, map[p[n - 1]], items)
        /\ Among(ch, p[n - 1]) \intersect Shortcuts = {}
        /\ Source(p[n - 1]) = p[n - 1]
    BY <1>3, <2>2, <2>3, <2>4
  <2>6. p[n] \in Files
    BY <1>1, <1>5, <2>3, <2>5 DEF Ids, FolderEntries, Source
  <2>7. Holds(map[p[n - 1]], p[n])
    BY <2>3, <2>4, <2>5, <2>6, OneHeld
  <2>. QED BY <1>5, <2>5, <2>7 DEF Filled
<1>. QED BY <1>4, <1>5

\* So nothing of what is completed is missing.
LEMMA NothingDoneMissing ==
  ASSUME Inv, MapsInv, MirrorInv, SkipsTell, OneWayDown(scenario.children)
  PROVE  CompletedIsMirrored
<1> DEFINE ch == scenario.children
<1>1. SUFFICES ASSUME NEW f \in Known, NEW p \in Ways[scenario], NEW i \in DOMAIN p, p[i] = f
               PROVE  Filled(p)
  BY DEF CompletedIsMirrored, Missing
<1>2. scenario \in Scenarios /\ ListInv
  BY DEF Inv, RunInv
<1>3. WayOK(p, ch) /\ i \in 1..Len(p)
  <2>1. WayOK(p, ch)
    BY <1>2, WaysAre
  <2>. QED BY <2>1, LenProperties DEF WayOK
<1>4. \/ f \in done /\ ~(phase # "idle" /\ opt.dry)
      \/ \E d \in DOMAIN folders : folders[d].log # None /\ f \in folders[d].log.done
  BY <1>1 DEF Known, Logs
<1>5. MaySkip
  BY <1>4 DEF MirrorInv
<1>6. OneOfEach(ch)
  BY <1>2, <1>5 DEF SkipsTell, OneOfEach, MaySkip
<1>7. TreeOK(folders) /\ \A d \in DOMAIN folders : folders[d].live
  BY <1>5 DEF MapsInv, MirrorInv
<1>8. CASE f \in done /\ ~(phase # "idle" /\ opt.dry)
  <2>1. phase \in {"walk", "finish"} /\ ~opt.dry
    BY <1>8 DEF MirrorInv, Inv, RunInv, Phases
  <2>2. DoneOK(done, folderMap, items, ch) /\ done \in SUBSET Folders
    BY <1>2, <1>5, <2>1 DEF MirrorInv, RightOK, ListInv
  <2>3. MapOK(folderMap, droot, folders, ch)
    BY DEF MapsInv
  <2>. QED BY <1>1, <1>2, <1>3, <1>6, <1>7, <1>8, <2>2, <2>3, DoneFilled
<1>9. ASSUME NEW d \in DOMAIN folders, folders[d].log # None, f \in folders[d].log.done
      PROVE  Filled(p)
  <2> DEFINE log == folders[d].log
  <2>1. DoneOK(log.done, log.map, items, ch)
    BY <1>5, <1>9 DEF MirrorInv, RightOK
  <2>2. log.done \in SUBSET Folders
    <3>1. folders[d] \in DestFolder
      BY <1>9, LenProperties, ElementOfSeq DEF Inv, DriveInv, FoldersOK
    <3>. QED BY <1>9, <3>1 DEF DestFolder, Log
  <2>3. MapOK(log.map, d, folders, ch)
    BY <1>9 DEF MapsInv
  <2> HIDE DEF log
  <2>4. f \in log.done
    BY <1>9 DEF log
  <2>. QED BY <1>1, <1>2, <1>3, <1>6, <1>7, <2>1, <2>2, <2>3, <2>4, DoneFilled
<1>. QED BY <1>4, <1>8, <1>9

-----------------------------------------------------------------------------
(* The theorem about what is completed                                     *)

\* What has gone wrong so far is of the kinds that can, and has been paid for.
Spent == /\ spoiled \subseteq scenario.faults
         /\ faults \in Int /\ faults <= scenario.budget
         /\ spoiled # {} => faults < scenario.budget

LEMMA SpentNext ==
  ASSUME Inv, ShapeInv, Spent, [Next]_vars, scenario' = scenario
  PROVE  Spent'
<1>1. SpentBy(scenario.faults)
  BY LedgerSteps
<1>2. scenario.budget \in Nat
  BY ScenarioAssumption DEF Inv, RunInv, Scenario
<1>3. CASE UNCHANGED envVars
  BY <1>1, <1>3 DEF Spent, envVars
<1>4. CASE faults > 0 /\ faults' = faults - 1
  <2>1. faults' \in Int /\ faults' < scenario.budget
    BY <1>2, <1>4 DEF Spent
  <2>2. spoiled' \subseteq scenario.faults
    BY <1>1 DEF Spent, SpentBy
  <2>. QED BY <1>2, <2>1, <2>2 DEF Spent
<1>. QED BY <1>1, <1>3, <1>4 DEF SpentBy

\* All that is known of a reachable state, in trees where each folder is found
\* in one way.
Reached == /\ Inv /\ OneFolderPerPlace /\ Spent
           /\ ShapeInv /\ LedgerInv /\ AheadInv /\ MapsInv /\ IndexInv /\ MirrorInv

LEMMA ReachedInit == Init => Reached
<1>1. Init => Spent
  BY ScenarioAssumption DEF Init, Spent, Scenario
<1>. QED BY <1>1, InvInit, LedgerInit, AheadInit, MapsInit, MirrorInit DEF Reached

LEMMA ReachedUnmistaken ==
  ASSUME TreesOneWayDown, VerificationsTell, Reached
  PROVE  Unmistaken
<1>1. scenario \in Scenarios
  BY DEF Reached, Inv, RunInv
<1>2. scenario.budget \in Nat
  BY <1>1, ScenarioAssumption DEF Scenario
<1>3. ASSUME "verify" \in scenario.faults, faults > 0
      PROVE  {"search", "resent"} \intersect spoiled = {}
  <2>1. CASE scenario.budget <= 1
    BY <1>2, <1>3, <2>1 DEF Reached, Spent
  <2>2. CASE {"search", "resent"} \intersect scenario.faults = {}
    BY <2>2 DEF Reached, Spent
  <2>. QED BY <1>1, <1>3, <2>1, <2>2 DEF VerificationsTell
<1>. QED BY <1>1, <1>3 DEF Reached, Unmistaken, TreesOneWayDown

LEMMA ReachedNext ==
  ASSUME ModesTell, TreesOneWayDown, SkipsTell, VerificationsTell, Reached, [Next]_vars
  PROVE  Reached' /\ scenario' = scenario /\ OneWayDown(scenario.children)
<1>1. OneWayDown(scenario.children) /\ Unmistaken
  BY ReachedUnmistaken DEF Unmistaken
<1>2. Inv' /\ OneFolderPerPlace'
  BY InvNext DEF Reached
<1>3. ShapeInv' /\ scenario' = scenario
  BY ShapeNext, StepGrows DEF Reached
<1>4. AheadInv'
  BY <1>1, AheadNext DEF Reached
<1>5. LedgerInv'
  BY <1>2, AheadGivesOneIndex, LedgerNext DEF Reached, Inv
<1>6. MapsInv'
  BY <1>1, <1>2, <1>3, MapsNext DEF Reached, AheadInv
<1>7. IndexInv'
  BY IndexNext DEF Reached
<1>8. MirrorInv'
  BY <1>1, <1>2, <1>3, MirrorNext DEF Reached, AheadInv
<1>9. Spent'
  BY <1>3, SpentNext DEF Reached
<1>. QED BY <1>1, <1>2, <1>3, <1>4, <1>5, <1>6, <1>7, <1>8, <1>9 DEF Reached

\* What a run or a log takes for completed has been copied in full, below every
\* place where the folder stands in the tree.
THEOREM CompletedAreMirrored ==
  ASSUME ModesTell, TreesOneWayDown, SkipsTell, VerificationsTell
  PROVE  Spec => []CompletedIsMirrored
<1>1. Init => Reached
  BY ReachedInit
<1>2. Reached /\ [Next]_vars => Reached'
  BY ReachedNext
<1>3. Reached => CompletedIsMirrored
  BY NothingDoneMissing DEF Reached, TreesOneWayDown, Inv, RunInv
<1>. QED BY <1>1, <1>2, <1>3, PTL DEF Spec

-----------------------------------------------------------------------------
(* The levels below the last one                                           *)

FirstOf(s, n) == {s[i] : i \in 1..n}
Below == FirstOf(stack, Len(stack) - 1)

\* The numbers up to one.
LEMMA UpTo ==
  ASSUME NEW n \in Nat
  PROVE  /\ \A i \in 1..n : i = n \/ i \in 1..(n - 1)
         /\ \A i \in 1..(n - 1) : i \in 1..n /\ i \in 1..(n + 1) /\ i # n
         /\ \A i \in 1..(n + 1) : i = n + 1 \/ i \in 1..n
         /\ \A i \in 1..n : i \in 1..(n + 1) /\ i # n + 1
         /\ n + 1 \in 1..(n + 1) /\ n + 1 # n
         /\ n # 0 => n \in 1..n /\ n \in 1..(n + 1) /\ n - 1 \in Nat
OBVIOUS

LEMMA LastTwo ==
  ASSUME NEW n \in Nat, n # 0, NEW s, NEW t, NEW f, NEW g,
         \A i \in 1..(n - 1) : t[i] = s[i], t[n] = f, t[n + 1] = g
  PROVE  FirstOf(t, n + 1) = FirstOf(s, n - 1) \union {f, g}
<1>1. /\ \A i \in 1..(n + 1) : i = n + 1 \/ i = n \/ i \in 1..(n - 1)
      /\ \A i \in 1..(n - 1) : i \in 1..(n + 1)
      /\ n \in 1..(n + 1) /\ n + 1 \in 1..(n + 1)
  BY UpTo
<1> DEFINE T == 1..(n + 1)
           S == 1..(n - 1)
<1>2. \A i \in T : i = n + 1 \/ i = n \/ i \in S
  BY <1>1
<1>3. /\ \A i \in S : i \in T /\ t[i] = s[i]
      /\ n \in T /\ n + 1 \in T
  BY <1>1
<1> HIDE DEF T, S
<1>. QED BY <1>2, <1>3 DEF T, S, FirstOf

LEMMA SplitStack ==
  ASSUME WalkInv, stack # <<>>
  PROVE  /\ Frames(stack) = Below \union {Top} /\ Top = stack[Len(stack)] /\ Top \in Frame
         /\ Len(stack) \in Nat /\ Len(stack) # 0 /\ DOMAIN stack = 1..Len(stack)
         /\ \A f \in Below : f \in Frame
<1>1. /\ Len(stack) \in DOMAIN stack /\ DOMAIN stack = 1..Len(stack) /\ Len(stack) \in Nat
      /\ Top \in Frame /\ stack \in Seq(Frame)
  BY TopIs DEF WalkInv, StackOK
<1>2. /\ \A i \in 1..Len(stack) : i = Len(stack) \/ i \in 1..(Len(stack) - 1)
      /\ \A i \in 1..(Len(stack) - 1) : i \in 1..Len(stack)
  BY <1>1, UpTo
<1>3. \A i \in 1..Len(stack) : stack[i] \in Frame
  BY <1>1, ElementOfSeq
<1>4. Len(stack) # 0
  BY <1>1
<1>. QED BY <1>1, <1>2, <1>3, <1>4 DEF Below, FirstOf, Frames, Entries, Top

\* What becomes of the last level.
LEMMA TopSet ==
  ASSUME WalkInv, stack # <<>>, NEW f, SetTop(f)
  PROVE  /\ DOMAIN stack' = 1..Len(stack) /\ stack'[Len(stack)] = f
         /\ \A i \in 1..(Len(stack) - 1) : stack'[i] = stack[i]
         /\ Frames(stack') = Below \union {f}
<1>1. /\ Len(stack) \in Nat /\ Len(stack) # 0 /\ DOMAIN stack = 1..Len(stack)
  BY SplitStack
<1>2. /\ \A i \in 1..Len(stack) : i = Len(stack) \/ i \in 1..(Len(stack) - 1)
      /\ \A i \in 1..(Len(stack) - 1) : i \in 1..Len(stack) /\ i # Len(stack)
      /\ Len(stack) \in 1..Len(stack)
  BY <1>1, UpTo
<1>3. /\ DOMAIN stack' = 1..Len(stack) /\ stack'[Len(stack)] = f
      /\ \A i \in 1..(Len(stack) - 1) : stack'[i] = stack[i]
  BY <1>1, <1>2 DEF SetTop
<1>. QED BY <1>2, <1>3 DEF Below, FirstOf, Frames, Entries

Opened(f, g) == stack' = Append([stack EXCEPT ![Len(stack)] = f], g)

LEMMA TopOpens ==
  ASSUME WalkInv, stack # <<>>, NEW f \in Frame, NEW g \in Frame, Opened(f, g)
  PROVE  /\ DOMAIN stack' = 1..(Len(stack) + 1) /\ stack'[Len(stack)] = f
         /\ stack'[Len(stack) + 1] = g
         /\ \A i \in 1..(Len(stack) - 1) : stack'[i] = stack[i]
         /\ Frames(stack') = Below \union {f, g}
<1> DEFINE s == [stack EXCEPT ![Len(stack)] = f]
<1>1. /\ Len(stack) \in Nat /\ Len(stack) # 0 /\ DOMAIN stack = 1..Len(stack)
      /\ stack \in Seq(Frame)
  BY SplitStack DEF WalkInv, StackOK
<1>2. /\ \A i \in 1..Len(stack) : i = Len(stack) \/ i \in 1..(Len(stack) - 1)
      /\ \A i \in 1..(Len(stack) - 1) : /\ i \in 1..Len(stack) /\ i # Len(stack)
                                        /\ i \in 1..(Len(stack) + 1)
      /\ \A i \in 1..(Len(stack) + 1) : i = Len(stack) + 1 \/ i \in 1..Len(stack)
      /\ Len(stack) \in 1..Len(stack) /\ Len(stack) \in 1..(Len(stack) + 1)
      /\ Len(stack) + 1 \in 1..(Len(stack) + 1)
  BY <1>1, UpTo
<1>3. /\ DOMAIN s = 1..Len(stack) /\ s[Len(stack)] = f
      /\ \A i \in 1..(Len(stack) - 1) : s[i] = stack[i]
  BY <1>1, <1>2
<1>4. s \in Seq(Frame) /\ Len(s) = Len(stack)
  BY <1>1, <1>2, ExceptSeq
<1> HIDE DEF s
<1>5. /\ stack' \in Seq(Frame) /\ Len(stack') = Len(stack) + 1
      /\ \A i \in 1..Len(stack) : stack'[i] = s[i]
      /\ stack'[Len(stack) + 1] = g
  <2>1. stack' = Append(s, g)
    BY DEF s, Opened
  <2>2. /\ Append(s, g) \in Seq(Frame) /\ Len(Append(s, g)) = Len(s) + 1
        /\ \A i \in 1..Len(s) : Append(s, g)[i] = s[i]
        /\ Append(s, g)[Len(s) + 1] = g
    BY <1>4, AppendProperties
  <2>. QED BY <1>4, <2>1, <2>2
<1>6. DOMAIN stack' = 1..(Len(stack) + 1)
  BY <1>5, LenProperties
<1>7. /\ stack'[Len(stack)] = f
      /\ \A i \in 1..(Len(stack) - 1) : stack'[i] = stack[i]
  BY <1>2, <1>3, <1>5
<1>8. Frames(stack') = FirstOf(stack', Len(stack) + 1)
  BY <1>6 DEF Frames, Entries, FirstOf
<1>9. Frames(stack') = Below \union {f, g}
  <2>1. /\ Len(stack) \in Nat /\ Len(stack) # 0
        /\ stack'[Len(stack)] = f /\ stack'[Len(stack) + 1] = g
        /\ \A i \in 1..(Len(stack) - 1) : stack'[i] = stack[i]
    BY <1>1, <1>5, <1>7
  <2>2. FirstOf(stack', Len(stack) + 1) = FirstOf(stack, Len(stack) - 1) \union {f, g}
    BY <2>1, LastTwo
  <2>. QED BY <1>8, <2>2 DEF Below
<1>. QED BY <1>5, <1>6, <1>7, <1>9

LEMMA TopReturns ==
  ASSUME WalkInv, stack # <<>>, Return
  PROVE  /\ DOMAIN stack' = 1..(Len(stack) - 1)
         /\ \A i \in 1..(Len(stack) - 1) : stack'[i] = stack[i]
         /\ Frames(stack') = Below
<1>1. /\ Len(stack) \in Nat /\ DOMAIN stack = 1..Len(stack)
      /\ stack \in Seq(Frame) /\ Len(stack) - 1 \in Nat
  BY SplitStack, UpTo DEF WalkInv, StackOK
<1>2. \A i \in 1..(Len(stack) - 1) : stack[i] \in Frame
  BY <1>1, UpTo, ElementOfSeq
<1>3. /\ stack' \in Seq(Frame) /\ Len(stack') = Len(stack) - 1
      /\ \A i \in 1..(Len(stack) - 1) : stack'[i] = stack[i]
  <2> DEFINE n == Len(stack)
  <2>1. n \in Nat /\ n - 1 \in Nat
    BY <1>1
  <2> HIDE DEF n
  <2>2. /\ SubSeq(stack, 1, n - 1) \in Seq(Frame)
        /\ Len(SubSeq(stack, 1, n - 1)) = IF 1 <= n - 1 THEN (n - 1) - 1 + 1 ELSE 0
        /\ \A i \in 1..((n - 1) - 1 + 1) : SubSeq(stack, 1, n - 1)[i] = stack[1 + i - 1]
    BY <1>2, <2>1, SubSeqProperties DEF n
  <2>3. /\ Len(SubSeq(stack, 1, n - 1)) = n - 1
        /\ \A i \in 1..(n - 1) : SubSeq(stack, 1, n - 1)[i] = stack[i]
    BY <2>1, <2>2
  <2>. QED BY <2>2, <2>3 DEF n, Return
<1>4. DOMAIN stack' = 1..(Len(stack) - 1)
  BY <1>3, LenProperties
<1>. QED BY <1>3, <1>4 DEF Below, FirstOf, Frames, Entries

-----------------------------------------------------------------------------
(* What a run that has had no failure still has before it                  *)

\* A level that stands for entry e has yet to come to x, or e is put off.
DueIn(F, fs, e, x, ch) ==
  \E f \in F : e \in Put(f, fs) \/ (e \in Here(f, fs) /\ x \in Offers(f, ch))

\* The files of e have not been looked at.
EarlyIn(F, fs, e) ==
  \E f \in F : e \in Put(f, fs) \/ (e \in Here(f, fs) /\ f.stage \in {"list", "index"})

\* A way goes from e on to x.
Follows(e, x, ch) ==
  /\ x \in FolderEntries
  /\ \E p : WayOK(p, ch) /\ \E n \in 1..(Len(p) - 1) : p[n] = e /\ p[n + 1] = x

\* A level begins with all of its folder, and so do those it has put off.
FullOK(f, ch) ==
  /\ f.stage = "list" => f.pending = <<>>
  /\ f.stage = "index" => Entries(f.todo) = Among(ch, f.src)
  /\ f.stage = "descend" => \A k \in DOMAIN f.pending :
       Entries(f.pending[k].kids) = Among(ch, f.pending[k].src)

\* Each level stands for an entry of the one before it.
LineOK(s, fs, ch) ==
  \A i \in DOMAIN s : /\ Put(s[i], fs) \subseteq Among(ch, s[i].src)
                      /\ i # 1 => Here(s[i], fs) \subseteq Among(ch, s[i - 1].src)

\* The folders of V stand, and what is below them stands too, is due, or has been
\* completed before.
CoverAt(V, F, fs, map, dn, ch) ==
  /\ V \subseteq Standing(ch) /\ Root \in V
  /\ \A e \in V : map[e] # Nothing /\ fs[map[e]].live
  /\ \A f \in F : Here(f, fs) \subseteq V /\ Put(f, fs) \subseteq V /\ FullOK(f, ch)
  /\ \A e \in V : \A x : Follows(e, x, ch) => x \in V \/ x \in dn \/ DueIn(F, fs, e, x, ch)

\* The files like x that are done with an index have copies that it offers no more.
Used(d, x, rest, its) ==
  {i \in DOMAIN its : its[i].live /\ its[i].folder = d /\ Index!Same(its[i].of, x)} \ rest
SettledBy(ix, d, x, want, w, ixs, its) ==
  /\ \A t \in w : t.index = ix => t.dest = d
  /\ Cardinality(Past(w, ix, x, want)) <= Cardinality(Used(d, x, ixs[ix].rest, its))
Settled(d, x, want, w, ixs, its) ==
  \E ix \in DOMAIN ixs : SettledBy(ix, d, x, want, w, ixs, its)

FilesAt(V, F, fs, map, w, ixs, its, ch) ==
  \A e \in V : \/ EarlyIn(F, fs, e)
               \/ \A x \in Wanted(Source(e), ch) :
                    Settled(map[e], x, Wanted(Source(e), ch), w, ixs, its)

Clean == phase = "walk" /\ ~opt.dry /\ ~stop /\ failed = {} /\ listErrs = {}

CoverInv ==
  Clean =>
    /\ LineOK(stack, folders, scenario.children)
    /\ \E V : /\ CoverAt(V, Frames(stack), folders, folderMap, done, scenario.children)
              /\ FilesAt(V, Frames(stack), folders, folderMap, Work, indexes, items,
                         scenario.children)

\* From levels F to levels G: the entries of X come to stand, and those of Z have
\* their files looked at.
HandsOver(F, G, fs, X, Z, dn, ch) ==
  /\ \A f \in G : /\ FullOK(f, ch)
                  /\ \A e \in Here(f, fs) \union Put(f, fs) :
                       e \in X \/ \E g \in F : e \in Here(g, fs) \union Put(g, fs)
  /\ \A e, x : Follows(e, x, ch) /\ DueIn(F, fs, e, x, ch) =>
       x \in X \/ x \in dn \/ DueIn(G, fs, e, x, ch)
  /\ \A e \in X : EarlyIn(G, fs, e) /\ \A x : Follows(e, x, ch) => DueIn(G, fs, e, x, ch)
  /\ \A e : EarlyIn(F, fs, e) => e \in Z \/ EarlyIn(G, fs, e)

\* It is enough to look at the levels that change.
LEMMA HandsTop ==
  ASSUME NEW B, NEW t, NEW N, NEW fs, NEW X, NEW Z, NEW dn, NEW ch,
         \A f \in B : FullOK(f, ch), HandsOver({t}, N, fs, X, Z, dn, ch)
  PROVE  HandsOver(B \union {t}, B \union N, fs, X, Z, dn, ch)
<1>1. \A e, x : /\ DueIn(B \union {t}, fs, e, x, ch) => DueIn(B, fs, e, x, ch) \/ DueIn({t}, fs, e, x, ch)
                /\ DueIn(B, fs, e, x, ch) \/ DueIn(N, fs, e, x, ch) => DueIn(B \union N, fs, e, x, ch)
  BY DEF DueIn
<1>2. \A e : /\ EarlyIn(B \union {t}, fs, e) => EarlyIn(B, fs, e) \/ EarlyIn({t}, fs, e)
             /\ EarlyIn(B, fs, e) \/ EarlyIn(N, fs, e) => EarlyIn(B \union N, fs, e)
  BY DEF EarlyIn
<1>3. \A f \in N : /\ FullOK(f, ch)
                   /\ \A e \in Here(f, fs) \union Put(f, fs) :
                        e \in X \/ e \in Here(t, fs) \union Put(t, fs)
  BY DEF HandsOver
<1>4. /\ \A e, x : Follows(e, x, ch) /\ DueIn({t}, fs, e, x, ch) =>
           x \in X \/ x \in dn \/ DueIn(N, fs, e, x, ch)
      /\ \A e \in X : EarlyIn(N, fs, e) /\ \A x : Follows(e, x, ch) => DueIn(N, fs, e, x, ch)
      /\ \A e : EarlyIn({t}, fs, e) => e \in Z \/ EarlyIn(N, fs, e)
  BY DEF HandsOver
<1>. QED BY <1>1, <1>2, <1>3, <1>4 DEF HandsOver

\* Levels that stay.
LEMMA HandsSame ==
  ASSUME NEW F, NEW fs, NEW dn, NEW ch, \A f \in F : FullOK(f, ch)
  PROVE  HandsOver(F, F, fs, {}, {}, dn, ch)
BY DEF HandsOver

\* The cover goes over with them.
LEMMA CoverOver ==
  ASSUME NEW F, NEW G, NEW fs, NEW X, NEW Z, NEW dn, NEW ch, HandsOver(F, G, fs, X, Z, dn, ch),
         NEW V, NEW map, CoverAt(V, F, fs, map, dn, ch),
         X \subseteq Standing(ch), \A e \in X : map[e] # Nothing /\ fs[map[e]].live
  PROVE  CoverAt(V \union X, G, fs, map, dn, ch)
<1>1. \A f \in G : Here(f, fs) \subseteq V \union X /\ Put(f, fs) \subseteq V \union X /\ FullOK(f, ch)
  BY DEF HandsOver, CoverAt
<1>2. ASSUME NEW e \in V \union X, NEW x, Follows(e, x, ch)
      PROVE  x \in V \union X \/ x \in dn \/ DueIn(G, fs, e, x, ch)
  <2>1. CASE e \in X
    BY <1>2, <2>1 DEF HandsOver
  <2>2. CASE e \in V
    <3>1. x \in V \/ x \in dn \/ DueIn(F, fs, e, x, ch)
      BY <1>2, <2>2 DEF CoverAt
    <3>. QED BY <1>2, <3>1 DEF HandsOver
  <2>. QED BY <2>1, <2>2
<1>. QED BY <1>1, <1>2 DEF CoverAt

LEMMA FilesOver ==
  ASSUME NEW F, NEW G, NEW fs, NEW X, NEW Z, NEW dn, NEW ch, HandsOver(F, G, fs, X, Z, dn, ch),
         NEW V, NEW map, NEW w, NEW ixs, NEW its,
         FilesAt(V, F, fs, map, w, ixs, its, ch),
         NEW u, NEW jxs, NEW jts,
         \A e \in V : \A x \in Wanted(Source(e), ch) :
           \/ e \in Z \/ Settled(map[e], x, Wanted(Source(e), ch), w, ixs, its)
           => Settled(map[e], x, Wanted(Source(e), ch), u, jxs, jts)
  PROVE  FilesAt(V \union X, G, fs, map, u, jxs, jts, ch)
<1>1. ASSUME NEW e \in V \union X
      PROVE  \/ EarlyIn(G, fs, e)
             \/ \A x \in Wanted(Source(e), ch) :
                  Settled(map[e], x, Wanted(Source(e), ch), u, jxs, jts)
  <2>1. CASE e \in X
    BY <2>1 DEF HandsOver
  <2>2. CASE e \in V
    <3>1. \/ EarlyIn(F, fs, e)
          \/ \A x \in Wanted(Source(e), ch) :
               Settled(map[e], x, Wanted(Source(e), ch), w, ixs, its)
      BY <2>2 DEF FilesAt
    <3>2. EarlyIn(F, fs, e) => e \in Z \/ EarlyIn(G, fs, e)
      BY DEF HandsOver
    <3>. QED BY <2>2, <3>1, <3>2
  <2>. QED BY <2>1, <2>2
<1>. QED BY <1>1 DEF FilesAt

\* They stay what they are while folders are made.
LEMMA CoverGrown ==
  ASSUME NEW F, NEW fs, NEW gs, Grown(fs, gs), NEW ch, \A f \in F : FrameOK(f, fs, ch),
         NEW V, NEW map, NEW dn, CoverAt(V, F, fs, map, dn, ch),
         NEW more, \A e \in V : more[e] = map[e] /\ gs[map[e]].live,
         NEW w, NEW ixs, NEW its, FilesAt(V, F, fs, map, w, ixs, its, ch)
  PROVE  CoverAt(V, F, gs, more, dn, ch) /\ FilesAt(V, F, gs, more, w, ixs, its, ch)
<1>1. \A f \in F : Here(f, gs) = Here(f, fs) /\ Put(f, gs) = Put(f, fs)
  BY FrameKept
<1>2. /\ \A e, x : DueIn(F, fs, e, x, ch) => DueIn(F, gs, e, x, ch)
      /\ \A e : EarlyIn(F, fs, e) => EarlyIn(F, gs, e)
  BY <1>1 DEF DueIn, EarlyIn
<1>3. CoverAt(V, F, gs, more, dn, ch)
  BY <1>1, <1>2 DEF CoverAt
<1>4. FilesAt(V, F, gs, more, w, ixs, its, ch)
  BY <1>2 DEF FilesAt
<1>. QED BY <1>3, <1>4

-----------------------------------------------------------------------------
(* Files that are done with stay settled                                   *)

\* A step that leaves the work with an index, and the index.
LEMMA SettledKept ==
  ASSUME NEW ix, NEW d, NEW x, NEW want \in SUBSET FileEntries, NEW w, NEW ixs, NEW its,
         IsFiniteSet(want), SettledBy(ix, d, x, want, w, ixs, its),
         NEW u, \A t \in u : t.index = ix => t \in w,
         \A t \in w : t.index = ix /\ t.entry \in FileEntries => t \in u,
         NEW jxs, jxs[ix] = ixs[ix], NEW jts, IsFiniteSet(DOMAIN jts), KeptItems(its, jts)
  PROVE  SettledBy(ix, d, x, want, u, jxs, jts)
<1> DEFINE A == Past(u, ix, x, want)
           B == Used(d, x, ixs[ix].rest, its)
           C == Used(d, x, jxs[ix].rest, jts)
<1>1. A = Past(w, ix, x, want)
  BY DEF Past, Alike
<1>2. B \subseteq C /\ C \subseteq DOMAIN jts
  BY DEF Used, KeptItems
<1>3. Cardinality(A) <= Cardinality(B)
  BY <1>1 DEF SettledBy
<1>4. Cardinality(A) <= Cardinality(C)
  <2>1. IsFiniteSet(C) /\ IsFiniteSet(B)
    BY <1>2, NoMore
  <2>2. Cardinality(B) <= Cardinality(C) /\ Cardinality(B) \in Nat /\ Cardinality(C) \in Nat
    BY <1>2, <2>1, NoMore
  <2>3. Cardinality(A) <= Cardinality(B) /\ Cardinality(A) \in Nat
    <3>1. A \subseteq want
      BY DEF Past, Alike
    <3>. QED BY <1>3, <3>1, NoMore
  <2> HIDE DEF A, B, C
  <2>. QED BY <2>2, <2>3
<1>. QED BY <1>4 DEF SettledBy

\* A file that is done with, and the copy that is found or made for it.
SettledPay(b, t, d, rest, left, its, jts) ==
  /\ b \in DOMAIN jts /\ jts[b].live /\ jts[b].folder = d
  /\ Index!Same(jts[b].of, t.entry)
  /\ b \notin left /\ left \subseteq rest
  /\ b \in rest \/ b \notin DOMAIN its

LEMMA SettledPaid ==
  ASSUME NEW ix, NEW d, NEW x, NEW want \in SUBSET FileEntries, NEW w, NEW ixs, NEW its,
         IsFiniteSet(want), SettledBy(ix, d, x, want, w, ixs, its),
         NEW t, t.index = ix,
         NEW u, u \subseteq w,
         \A v \in w : v.index = ix /\ v.entry \in FileEntries =>
           v \in u \/ v.entry = t.entry,
         NEW jxs, NEW jts, IsFiniteSet(DOMAIN jts), KeptItems(its, jts),
         NEW b, SettledPay(b, t, d, ixs[ix].rest, jxs[ix].rest, its, jts)
  PROVE  SettledBy(ix, d, x, want, u, jxs, jts)
<1> DEFINE A == Past(w, ix, x, want)
           A2 == Past(u, ix, x, want)
           B == Used(d, x, ixs[ix].rest, its)
           B2 == Used(d, x, jxs[ix].rest, jts)
<1>1. A2 \subseteq A \union {t.entry} /\ (~Index!Same(t.entry, x) => A2 \subseteq A)
  BY DEF Past, Alike
<1>2. B \subseteq B2 /\ B2 \subseteq DOMAIN jts
  <2>1. jxs[ix].rest \subseteq ixs[ix].rest
    BY DEF SettledPay
  <2>. QED BY <2>1 DEF Used, KeptItems
<1>3. Cardinality(A) <= Cardinality(B) /\ IsFiniteSet(A) /\ IsFiniteSet(B2)
  <2>1. A \subseteq want
    BY DEF Past, Alike
  <2>. QED BY <1>2, <2>1, NoMore DEF SettledBy
<1>4. Index!Same(t.entry, x) => b \in B2
  <2>1. SUFFICES ASSUME Index!Same(t.entry, x) PROVE b \in B2
    OBVIOUS
  <2>2. Index!Same(x, t.entry)
    BY <2>1, SameFacts
  <2>3. Index!Same(jts[b].of, x)
    BY <2>2, SameFacts DEF SettledPay
  <2>. QED BY <2>3 DEF SettledPay, Used
<1>5. b \notin B
  BY DEF SettledPay, Used
<1>6. Cardinality(A2) <= Cardinality(B2)
  <2> HIDE DEF A, A2, B, B2
  <2>1. CASE Index!Same(t.entry, x)
    <3>1. A2 \subseteq A \union {t.entry} /\ B \union {b} \subseteq B2
      BY <1>1, <1>2, <1>4, <2>1
    <3>. QED BY <1>3, <1>5, <3>1, OneMoreEach
  <2>2. CASE ~Index!Same(t.entry, x)
    <3>1. /\ Cardinality(A2) <= Cardinality(A) /\ Cardinality(A2) \in Nat
          /\ Cardinality(A) \in Nat
      BY <1>1, <1>3, <2>2, NoMore
    <3>2. /\ Cardinality(B) <= Cardinality(B2) /\ Cardinality(B) \in Nat
          /\ Cardinality(B2) \in Nat
      BY <1>2, <1>3, NoMore
    <3>. QED BY <1>3, <3>1, <3>2
  <2>. QED BY <2>1, <2>2
<1>. QED BY <1>6 DEF SettledBy

\* The item that is found or made for a file that is done with.
LEMMA DonePays ==
  ASSUME Inv, ShapeInv, LedgerInv, IndexInv, ModesTell, NEW t, DoneWith(t), ~opt.dry,
         failed' = {}
  PROVE  /\ \E b : SettledPay(b, t, t.dest, indexes[t.index].rest, indexes'[t.index].rest,
                              items, items')
         /\ DOMAIN indexes' = DOMAIN indexes
         /\ \A x \in DOMAIN indexes : x # t.index => indexes'[x] = indexes[x]
<1>1. /\ t \in Work /\ t.entry \in FileEntries /\ t.index \in 1..Len(indexes)
      /\ CopyFile(t.entry, t.dest, t.index) /\ phase = "walk"
  BY WorkFacts, WorkWhere DEF DoneWith
<1>2. /\ opt \in scenario.options /\ IndexesOK(indexes, items)
      /\ DOMAIN indexes = 1..Len(indexes)
  BY <1>1, LenProperties DEF LedgerInv, PlaceInv, Inv, WalkInv
<1>3. ASSUME NEW i, i # 0, \/ i = Index!ByAppProp(indexes[t.index], t.entry)
                           \/ i = Matched(t.entry, t.index),
             items' = items, PopIndex(t.index, i)
      PROVE  /\ SettledPay(i, t, t.dest, indexes[t.index].rest, indexes'[t.index].rest,
                           items, items')
             /\ DOMAIN indexes' = DOMAIN indexes
             /\ \A x \in DOMAIN indexes : x # t.index => indexes'[x] = indexes[x]
  <2>1. i \in indexes[t.index].rest
    BY <1>1, <1>2, <1>3, PoppedOffered
  <2>2. i \in DOMAIN items /\ Index!Same(items[i].of, t.entry)
    BY <1>1, <1>2, <1>3, PoppedAlike
  <2>3. items[i].live /\ items[i].folder = t.dest
    BY <1>1, <2>1 DEF IndexInv
  <2>4. indexes' = [indexes EXCEPT ![t.index] = Index!Pop(indexes[t.index], i)]
    BY <1>3 DEF PopIndex
  <2>5. indexes'[t.index].rest = indexes[t.index].rest \ {i}
    BY <1>1, <1>2, <2>4, PopIs
  <2>6. SettledPay(i, t, t.dest, indexes[t.index].rest, indexes'[t.index].rest, items, items')
    BY <1>3, <2>1, <2>2, <2>3, <2>5 DEF SettledPay
  <2>. QED BY <2>4, <2>6
<1>4. CASE SkipConfirmed(t.entry, t.index)
  <2>1. /\ Index!ByAppProp(indexes[t.index], t.entry) # 0 /\ items' = items
        /\ PopIndex(t.index, Index!ByAppProp(indexes[t.index], t.entry))
    BY <1>4 DEF SkipConfirmed, Confirmed, driveVars
  <2>. QED BY <1>3, <2>1
<1>5. CASE RecordExisting(t.entry, t.index)
  <2>1. /\ Matched(t.entry, t.index) # 0 /\ items' = items
        /\ PopIndex(t.index, Matched(t.entry, t.index))
    BY <1>5 DEF RecordExisting
  <2>. QED BY <1>3, <2>1
<1>6. ~CountDryRun(t.entry, t.index)
  BY DEF CountDryRun
<1>7. ~CopyFails(t.entry, t.dest, t.index)
  BY DEF CopyFails, RecordFailed
<1>8. CASE CopyLands(t.entry, t.dest, t.index)
  <2>1. indexes' = indexes
    BY <1>8 DEF CopyLands
  <2>2. items' # items
    <3>1. PICK e \in FileEntries, d \in Nat : e = t.entry /\ d = t.dest
      BY <1>1, WorkFacts
    <3>2. PICK its \in {Landed(items, e, d), Landed(Landed(items, e, d), e, d)} :
            its = items'
      BY <1>8, <3>1 DEF CopyLands
    <3>. QED BY <3>2, CopiesAdded DEF Inv
  <2>3. PICK b \in DOMAIN items' : b \notin DOMAIN items
    BY <2>2, DoneAdds
  <2>4. items'[b].folder = t.dest /\ items'[b].of = t.entry /\ items'[b].live
    BY <2>3, DoneAdds
  <2>5. b \notin indexes[t.index].rest
    BY <1>1, <1>2, <2>3 DEF IndexesOK
  <2>6. SettledPay(b, t, t.dest, indexes[t.index].rest, indexes'[t.index].rest, items, items')
    BY <2>1, <2>3, <2>4, <2>5, SameFacts DEF SettledPay
  <2>. QED BY <2>1, <2>6
<1>. QED BY <1>1, <1>4, <1>5, <1>6, <1>7, <1>8 DEF CopyFile

\* All files that are still to be done stay so, but for the one that is done with.
LeftBy(t) == \A u \in Work : u.entry \in FileEntries =>
  u \in Work' \/ (u.index = t.index /\ u.entry = t.entry)

LEMMA DoneSettles ==
  ASSUME Inv, Inv', ShapeInv, LedgerInv, IndexInv, ModesTell, NEW t, DoneWith(t), LeftBy(t),
         Work' \subseteq Work, ~opt.dry, failed' = {},
         NEW d, NEW x, NEW want \in SUBSET FileEntries, IsFiniteSet(want),
         Settled(d, x, want, Work, indexes, items)
  PROVE  Settled(d, x, want, Work', indexes', items')
<1>1. PICK ix \in DOMAIN indexes : SettledBy(ix, d, x, want, Work, indexes, items)
  BY DEF Settled
<1>2. /\ KeptItems(items, items') /\ IsFiniteSet(DOMAIN items') /\ t \in Work
  <2>1. DOMAIN items' = 1..Len(items') /\ Len(items') \in Nat
    BY LenProperties DEF Inv, ListInv
  <2>2. IsFiniteSet(1..Len(items'))
    BY <2>1, FS_Interval
  <2>. QED BY <2>1, <2>2, MarkedHeld DEF DoneWith
<1>3. /\ \E b : SettledPay(b, t, t.dest, indexes[t.index].rest, indexes'[t.index].rest,
                           items, items')
      /\ DOMAIN indexes' = DOMAIN indexes
      /\ \A y \in DOMAIN indexes : y # t.index => indexes'[y] = indexes[y]
  BY DonePays
<1>4. CASE t.index # ix
  <2>1. indexes'[ix] = indexes[ix]
    BY <1>1, <1>3, <1>4
  <2>2. \A v \in Work : v.index = ix /\ v.entry \in FileEntries => v \in Work'
    BY <1>4 DEF LeftBy
  <2>3. \A v \in Work' : v.index = ix => v \in Work
    OBVIOUS
  <2>4. SettledBy(ix, d, x, want, Work', indexes', items')
    BY <1>1, <1>2, <2>1, <2>2, <2>3, SettledKept
  <2>. QED BY <1>1, <1>3, <2>4 DEF Settled
<1>5. CASE t.index = ix
  <2>1. t.dest = d
    BY <1>1, <1>2, <1>5 DEF SettledBy
  <2>2. PICK b : SettledPay(b, t, d, indexes[ix].rest, indexes'[ix].rest, items, items')
    BY <1>3, <1>5, <2>1
  <2>3. \A v \in Work : v.index = ix /\ v.entry \in FileEntries =>
          v \in Work' \/ v.entry = t.entry
    BY DEF LeftBy
  <2>4. SettledBy(ix, d, x, want, Work', indexes', items')
    BY <1>1, <1>2, <1>5, <2>2, <2>3, SettledPaid
  <2>. QED BY <1>1, <1>3, <2>4 DEF Settled
<1>. QED BY <1>4, <1>5

\* The files of the last level are still on one of N, submitted, or in E.
Carried(N, E) ==
  Top.stage = "loop" => \A x \in Entries(Top.todo) \intersect FileEntries :
    \/ x \in E
    \/ [entry |-> x, dest |-> Top.dest, index |-> Top.index] \in jobs'
    \/ \E h \in N : /\ h.stage = "loop" /\ h.dest = Top.dest /\ h.index = Top.index
                   /\ x \in Entries(h.todo)

LEMMA WorkLeft ==
  ASSUME WalkInv, stack # <<>>, jobs \subseteq jobs', NEW N, Frames(stack') = Below \union N,
         NEW E, Carried(N, E)
  PROVE  \A u \in Work : u.entry \in FileEntries =>
           u \in Work' \/ (u.index = Top.index /\ u.entry \in E)
<1>1. SUFFICES ASSUME NEW u \in Work, u.entry \in FileEntries
               PROVE  u \in Work' \/ (u.index = Top.index /\ u.entry \in E)
  OBVIOUS
<1>2. CASE u \in jobs
  BY <1>2, WorkIs
<1>3. ASSUME NEW f \in Loops(Frames(stack)), u \in LevelWork(f)
      PROVE  u \in Work' \/ (u.index = Top.index /\ u.entry \in E)
  <2>1. PICK x \in Entries(f.todo) : u = [entry |-> x, dest |-> f.dest, index |-> f.index]
    BY <1>3, LevelWorkIs
  <2>2. CASE f \in Below
    <3>1. f \in Loops(Frames(stack'))
      BY <1>3, <2>2 DEF Loops
    <3>. QED BY <1>3, <3>1, WorkIs
  <2>3. CASE f = Top
    <3>1. u.entry = x /\ u.index = Top.index /\ x \in FileEntries /\ Top.stage = "loop"
      BY <1>1, <1>3, <2>1, <2>3 DEF Loops
    <3>2. CASE [entry |-> x, dest |-> Top.dest, index |-> Top.index] \in jobs'
      BY <2>1, <2>3, <3>2, WorkIs
    <3>3. ASSUME NEW h \in N, h.stage = "loop", h.dest = Top.dest, h.index = Top.index,
                 x \in Entries(h.todo)
          PROVE  u \in Work'
      <4>1. u \in LevelWork(h)
        BY <2>1, <2>3, <3>3, LevelWorkIs
      <4>2. h \in Loops(Frames(stack'))
        BY <3>3 DEF Loops
      <4>. QED BY <4>1, <4>2, WorkIs
    <3>. QED BY <2>1, <2>3, <3>1, <3>2, <3>3 DEF Carried
  <2>4. Frames(stack) = Below \union {Top}
    BY SplitStack
  <2>. QED BY <1>3, <2>2, <2>3, <2>4 DEF Loops
<1>. QED BY <1>1, <1>2, <1>3, WorkIs

-----------------------------------------------------------------------------
(* The line of the levels                                                  *)

LEMMA OneBefore ==
  ASSUME NEW n \in Nat
  PROVE  /\ \A i \in 1..n : i # 1 => i - 1 \in 1..(n - 1) /\ i - 1 \in 1..n
         /\ \A i \in 1..(n - 1) : i # 1 => i - 1 \in 1..(n - 1)
         /\ n + 1 - 1 = n
OBVIOUS

LEMMA LineTop ==
  ASSUME WalkInv, stack # <<>>, NEW fs, NEW ch, LineOK(stack, fs, ch), NEW f, SetTop(f),
         f.src = Top.src, f.dest = Top.dest, Put(f, fs) \subseteq Among(ch, f.src)
  PROVE  LineOK(stack', fs, ch)
<1>1. /\ DOMAIN stack' = 1..Len(stack) /\ stack'[Len(stack)] = f
      /\ \A i \in 1..(Len(stack) - 1) : stack'[i] = stack[i]
  BY TopSet
<1>2. Len(stack) \in Nat /\ DOMAIN stack = 1..Len(stack) /\ Top = stack[Len(stack)]
  BY SplitStack
<1>3. /\ \A i \in 1..Len(stack) : i = Len(stack) \/ i \in 1..(Len(stack) - 1)
      /\ \A i \in 1..Len(stack) : i # 1 => i - 1 \in 1..(Len(stack) - 1)
  BY <1>2, UpTo, OneBefore
<1>4. ASSUME NEW i \in 1..Len(stack)
      PROVE  /\ Put(stack'[i], fs) \subseteq Among(ch, stack'[i].src)
             /\ i # 1 => Here(stack'[i], fs) \subseteq Among(ch, stack'[i - 1].src)
  <2>1. i # 1 => stack'[i - 1] = stack[i - 1]
    BY <1>1, <1>3
  <2>2. /\ Put(stack[i], fs) \subseteq Among(ch, stack[i].src)
        /\ i # 1 => Here(stack[i], fs) \subseteq Among(ch, stack[i - 1].src)
    BY <1>2 DEF LineOK
  <2>3. CASE i = Len(stack)
    <3>1. stack'[i] = f /\ stack[i] = Top
      BY <1>1, <1>2, <2>3
    <3>. QED BY <2>1, <2>2, <3>1 DEF Here
  <2>4. CASE i \in 1..(Len(stack) - 1)
    <3>1. stack'[i] = stack[i]
      BY <1>1, <2>4
    <3>. QED BY <2>1, <2>2, <3>1
  <2>. QED BY <1>3, <2>3, <2>4
<1>. QED BY <1>1, <1>4 DEF LineOK

LEMMA LineOpens ==
  ASSUME WalkInv, stack # <<>>, NEW fs, NEW ch, LineOK(stack, fs, ch),
         NEW f \in Frame, NEW g \in Frame, Opened(f, g),
         f.src = Top.src, f.dest = Top.dest, Put(f, fs) \subseteq Among(ch, f.src),
         Put(g, fs) = {}, Here(g, fs) \subseteq Among(ch, f.src)
  PROVE  LineOK(stack', fs, ch)
<1>1. /\ DOMAIN stack' = 1..(Len(stack) + 1) /\ stack'[Len(stack)] = f
      /\ stack'[Len(stack) + 1] = g
      /\ \A i \in 1..(Len(stack) - 1) : stack'[i] = stack[i]
  BY TopOpens
<1>2. Len(stack) \in Nat /\ DOMAIN stack = 1..Len(stack) /\ Top = stack[Len(stack)]
  BY SplitStack
<1>3. /\ \A i \in 1..(Len(stack) + 1) : \/ i = Len(stack) + 1 \/ i = Len(stack)
                                        \/ i \in 1..(Len(stack) - 1)
      /\ \A i \in 1..Len(stack) : i # 1 => i - 1 \in 1..(Len(stack) - 1)
      /\ \A i \in 1..(Len(stack) + 1) : i # Len(stack) + 1 => i \in 1..Len(stack)
      /\ Len(stack) + 1 - 1 = Len(stack)
  <2>1. /\ \A i \in 1..(Len(stack) + 1) : i = Len(stack) + 1 \/ i \in 1..Len(stack)
        /\ \A i \in 1..Len(stack) : i = Len(stack) \/ i \in 1..(Len(stack) - 1)
    BY <1>2, UpTo
  <2>. QED BY <1>2, <2>1, OneBefore
<1>4. ASSUME NEW i \in 1..(Len(stack) + 1)
      PROVE  /\ Put(stack'[i], fs) \subseteq Among(ch, stack'[i].src)
             /\ i # 1 => Here(stack'[i], fs) \subseteq Among(ch, stack'[i - 1].src)
  <2>1. CASE i = Len(stack) + 1
    <3>1. stack'[i] = g /\ stack'[i - 1] = f
      <4>1. i - 1 = Len(stack)
        <5>1. Len(stack) \in Nat
          BY <1>2
        <5>. QED BY <2>1, <5>1
      <4>2. stack'[i] = g
        BY <1>1, <2>1
      <4>. QED BY <1>1, <4>1, <4>2
    <3>. QED BY <3>1
  <2>2. CASE i \in 1..Len(stack)
    <3>1. i # 1 => stack'[i - 1] = stack[i - 1]
      BY <1>1, <1>3, <2>2
    <3>2. /\ Put(stack[i], fs) \subseteq Among(ch, stack[i].src)
          /\ i # 1 => Here(stack[i], fs) \subseteq Among(ch, stack[i - 1].src)
      BY <1>2, <2>2 DEF LineOK
    <3>3. CASE i = Len(stack)
      <4>1. stack'[i] = f /\ stack[i] = Top
        BY <1>1, <1>2, <3>3
      <4>. QED BY <3>1, <3>2, <4>1 DEF Here
    <3>4. CASE i \in 1..(Len(stack) - 1)
      <4>1. stack'[i] = stack[i]
        BY <1>1, <3>4
      <4>. QED BY <3>1, <3>2, <4>1
    <3>5. i = Len(stack) \/ i \in 1..(Len(stack) - 1)
      BY <1>2, <2>2, UpTo
    <3>. QED BY <3>3, <3>4, <3>5
  <2>. QED BY <1>3, <2>1, <2>2
<1>. QED BY <1>1, <1>4 DEF LineOK

LEMMA LineReturns ==
  ASSUME WalkInv, stack # <<>>, NEW fs, NEW ch, LineOK(stack, fs, ch), Return
  PROVE  LineOK(stack', fs, ch)
<1>1. /\ DOMAIN stack' = 1..(Len(stack) - 1)
      /\ \A i \in 1..(Len(stack) - 1) : stack'[i] = stack[i]
  BY TopReturns
<1>2. Len(stack) \in Nat /\ DOMAIN stack = 1..Len(stack)
  BY SplitStack
<1>3. \A i \in 1..(Len(stack) - 1) : /\ i \in 1..Len(stack)
                                     /\ i # 1 => i - 1 \in 1..(Len(stack) - 1)
  BY <1>2, UpTo, OneBefore
<1>. QED BY <1>1, <1>2, <1>3 DEF LineOK

-----------------------------------------------------------------------------
(* What each step hands over                                               *)

\* All but the first are left.
LEMMA RestLeft ==
  ASSUME NEW S, NEW s \in Seq(S), s # <<>>
  PROVE  /\ Entries(s) = Entries(Tail(s)) \union {Head(s)}
         /\ Tail(s) \in Seq(S) /\ Head(s) \in S
<1> DEFINE t == Tail(s)
           n == Len(s)
<1>1. /\ n \in Nat /\ DOMAIN s = 1..n /\ n # 0
      /\ t \in Seq(S) /\ Len(t) = n - 1 /\ Head(s) = s[1] /\ Head(s) \in S
  BY HeadTailProperties, LenProperties, EmptySeq
<1>2. \A i \in 1..(n - 1) : t[i] = s[i + 1]
  BY <1>1, HeadTailProperties
<1>3. DOMAIN t = 1..(n - 1)
  BY <1>1, LenProperties
<1>4. n \in Nat /\ n # 0
  BY <1>1
<1>5. /\ \A i \in 1..n : i = 1 \/ (i - 1 \in 1..(n - 1) /\ i - 1 + 1 = i)
      /\ \A i \in 1..(n - 1) : i + 1 \in 1..n
      /\ 1 \in 1..n
  <2> HIDE DEF n
  <2>. QED BY <1>4
<1> HIDE DEF t, n
<1>6. ASSUME NEW x \in Entries(s) PROVE x \in Entries(t) \union {Head(s)}
  <2>1. PICK i \in 1..n : x = s[i]
    BY <1>1 DEF Entries
  <2>2. CASE i = 1
    BY <1>1, <2>1, <2>2
  <2>3. CASE i # 1
    <3>1. i - 1 \in DOMAIN t /\ t[i - 1] = s[i]
      <4>1. i - 1 \in 1..(n - 1) /\ i - 1 + 1 = i
        BY <1>5, <2>3
      <4>2. t[i - 1] = s[i - 1 + 1]
        BY <1>2, <4>1
      <4>. QED BY <1>3, <4>1, <4>2
    <3>. QED BY <2>1, <3>1 DEF Entries
  <2>. QED BY <2>2, <2>3
<1>7. ASSUME NEW x \in Entries(t) PROVE x \in Entries(s)
  <2>1. PICK i \in 1..(n - 1) : x = t[i]
    BY <1>3 DEF Entries
  <2>2. i + 1 \in DOMAIN s /\ x = s[i + 1]
    BY <1>1, <1>2, <1>5, <2>1
  <2>. QED BY <2>2 DEF Entries
<1>8. Head(s) \in Entries(s)
  BY <1>1, <1>5 DEF Entries
<1>9. Entries(s) = Entries(t) \union {Head(s)}
  BY <1>6, <1>7, <1>8
<1>. QED BY <1>1, <1>9 DEF t

\* The last level hands over to those of N.
Advance(N, X, Z, fs, dn) ==
  /\ Frames(stack') = Below \union N
  /\ HandsOver({Top}, N, fs, X, Z, dn, scenario.children)
  /\ LineOK(stack', fs, scenario.children)

\* The next entry, if it need not be entered.
LEMMA NextHands ==
  ASSUME Inv, ShapeInv, NEW e, AtEntry(e), SetTop(Next1), NEW fs, NEW dn,
         LineOK(stack, fs, scenario.children),
         \A k \in Here(Top, fs) : Follows(k, e, scenario.children) => e \in dn
  PROVE  Advance({Next1}, {}, {}, fs, dn)
<1> DEFINE ch == scenario.children
<1>1. /\ stack # <<>> /\ Top.todo # <<>> /\ e = Head(Top.todo) /\ Top.stage = "loop"
      /\ Top \in Frame
  BY AtEntryIs DEF AtEntry, Inv
<1>2. /\ Next1.src = Top.src /\ Next1.dest = Top.dest /\ Next1.stage = "loop"
      /\ Next1.pending = Top.pending
  BY NextTamed DEF Inv, ShapeInv
<1>3. Next1.todo = Tail(Top.todo)
  BY <1>1 DEF Next1, Frame
<1>4. Entries(Top.todo) = Entries(Next1.todo) \union {e}
  <2>1. Top.todo \in Seq(Ids)
    BY <1>1 DEF Frame
  <2>. QED BY <1>1, <1>3, <2>1, RestLeft
<1>5. Here(Next1, fs) = Here(Top, fs) /\ Put(Next1, fs) = Put(Top, fs)
  BY <1>2 DEF Here, Put
<1>6. FullOK(Next1, ch)
  BY <1>2 DEF FullOK
<1>7. /\ Offers(Top, ch) = Entries(Top.todo)
      /\ Offers(Next1, ch) = Entries(Next1.todo)
  BY <1>1, <1>2 DEF Offers
<1>8. ASSUME NEW k, NEW x, Follows(k, x, ch), DueIn({Top}, fs, k, x, ch)
      PROVE  x \in dn \/ DueIn({Next1}, fs, k, x, ch)
  <2>1. k \in Put(Top, fs) \/ (k \in Here(Top, fs) /\ x \in Entries(Top.todo))
    BY <1>7, <1>8 DEF DueIn
  <2>2. CASE k \in Put(Top, fs)
    BY <1>5, <2>2 DEF DueIn
  <2>3. CASE k \in Here(Top, fs) /\ x = e
    BY <1>8, <2>3
  <2>4. CASE k \in Here(Top, fs) /\ x \in Entries(Next1.todo)
    BY <1>5, <1>7, <2>4 DEF DueIn
  <2>. QED BY <1>4, <2>1, <2>2, <2>3, <2>4
<1>9. \A k : EarlyIn({Top}, fs, k) => EarlyIn({Next1}, fs, k)
  BY <1>1, <1>2, <1>5 DEF EarlyIn
<1>10. HandsOver({Top}, {Next1}, fs, {}, {}, dn, ch)
  BY <1>5, <1>6, <1>8, <1>9 DEF HandsOver
<1>11. Put(Next1, fs) \subseteq Among(ch, Next1.src)
  <2>1. Len(stack) \in DOMAIN stack
    BY <1>1, TopIs DEF Inv
  <2>. QED BY <1>2, <1>5, <2>1 DEF LineOK, Top
<1>12. LineOK(stack', fs, ch)
  BY <1>1, <1>2, <1>11, LineTop DEF Inv
<1>13. Frames(stack') = Below \union {Next1}
  BY <1>1, TopSet DEF Inv
<1>. QED BY <1>10, <1>12, <1>13 DEF Advance

\* A level that has nothing left to do returns.
LEMMA LeaveHands ==
  ASSUME Inv, LeaveLevel, ~stop, NEW fs, NEW dn, LineOK(stack, fs, scenario.children)
  PROVE  Advance({}, {}, {}, fs, dn)
<1> DEFINE ch == scenario.children
<1>1. /\ stack # <<>> /\ Top.stage \in {"loop", "descend"} /\ Return
      /\ Top.todo = <<>> /\ Top.pending = <<>>
  BY DEF LeaveLevel
<1>2. Put(Top, fs) = {} /\ Offers(Top, ch) = {}
  <2>1. DOMAIN <<>> = {}
    BY EmptySeq
  <2>. QED BY <1>1, <2>1 DEF Put, Offers, Entries
<1>3. HandsOver({Top}, {}, fs, {}, {}, dn, ch)
  BY <1>1, <1>2 DEF HandsOver, DueIn, EarlyIn
<1>4. LineOK(stack', fs, ch) /\ Frames(stack') = Below
  BY <1>1, LineReturns, TopReturns DEF Inv
<1>. QED BY <1>3, <1>4 DEF Advance

LEMMA TopPut ==
  ASSUME WalkInv, stack # <<>>, NEW fs, NEW ch, LineOK(stack, fs, ch)
  PROVE  Put(Top, fs) \subseteq Among(ch, Top.src)
<1>1. Len(stack) \in DOMAIN stack
  BY TopIs
<1>. QED BY <1>1 DEF LineOK, Top

LEMMA SetAdvances ==
  ASSUME WalkInv, stack # <<>>, NEW fs, LineOK(stack, fs, scenario.children),
         NEW f, SetTop(f), f.src = Top.src, f.dest = Top.dest,
         Put(f, fs) \subseteq Among(scenario.children, Top.src),
         NEW X, NEW Z, NEW dn, HandsOver({Top}, {f}, fs, X, Z, dn, scenario.children)
  PROVE  Advance({f}, X, Z, fs, dn)
<1>1. LineOK(stack', fs, scenario.children)
  BY LineTop
<1>2. Frames(stack') = Below \union {f}
  BY TopSet
<1>. QED BY <1>1, <1>2 DEF Advance

\* A level that does the same work under other names.
LEMMA SameHands ==
  ASSUME NEW f, NEW g, NEW fs, NEW dn, NEW ch, g.src = f.src, g.dest = f.dest,
         Put(g, fs) = Put(f, fs), Offers(f, ch) \subseteq Offers(g, ch), FullOK(g, ch),
         NEW Z, f.stage \in {"list", "index"} =>
                  g.stage \in {"list", "index"} \/ Here(f, fs) \subseteq Z
  PROVE  HandsOver({f}, {g}, fs, {}, Z, dn, ch)
<1>1. Here(g, fs) = Here(f, fs)
  BY DEF Here
<1>2. \A e, x : DueIn({f}, fs, e, x, ch) => DueIn({g}, fs, e, x, ch)
  BY <1>1 DEF DueIn
<1>3. \A e : EarlyIn({f}, fs, e) => e \in Z \/ EarlyIn({g}, fs, e)
  BY <1>1 DEF EarlyIn
<1>. QED BY <1>1, <1>2, <1>3 DEF HandsOver

\* Outside of a preview every level has its folder.
LEMMA NoneNowhere ==
  ASSUME MapsInv, phase = "walk", ~opt.dry, NEW f \in Frames(stack)
  PROVE  /\ f.dest # Nothing /\ Here(f, folders) = {folders[f.dest].key}
         /\ \A k \in DOMAIN f.pending :
              /\ f.pending[k].dest # Nothing
              /\ Keys(f.pending[k].dest, folders) = {folders[f.pending[k].dest].key}
<1>1. \A d \in Spots(f) : d \in Targets
  BY TargetIs
<1>2. Nothing \notin Spots(f)
  BY <1>1 DEF MapsInv
<1>. QED BY <1>2 DEF Spots, Here, Keys

LEMMA ListHands ==
  ASSUME Inv, ShapeInv, MapsInv, ListFolder, ~opt.dry, listErrs' = {},
         NEW dn, FullOK(Top, scenario.children), LineOK(stack, folders, scenario.children)
  PROVE  \E N, Z : /\ Advance(N, {}, Z, folders, dn)
                   /\ \A e \in Z : Wanted(Source(e), scenario.children) = {}
<1> DEFINE ch == scenario.children
           kids == Children(Top.src)
           f == [Top EXCEPT !.stage = "index", !.todo = kids]
<1>1. /\ stack # <<>> /\ phase = "walk" /\ Top.stage = "list" /\ EnterLevel(kids)
  BY DEF ListFolder, ListingError
<1>2. /\ Top \in Frame /\ Top \in Frames(stack) /\ Top.src \in Folders
      /\ FrameOK(Top, folders, ch)
  <2>1. Top \in Frame /\ Top \in Frames(stack)
    BY <1>1, TopIs, TopInFrames DEF Inv
  <2>. QED BY <2>1 DEF Frame, ShapeInv, FramesOK
<1>3. /\ Entries(kids) = Among(ch, Top.src) /\ Top.pending = <<>>
      /\ Offers(Top, ch) = Among(ch, Top.src)
  BY <1>1 DEF Entries, Among, Children, FullOK, Offers
<1>4. Top.dest # Nothing
  BY <1>1, <1>2, NoneNowhere
<1>5. Put(Top, folders) = {}
  BY <1>3, EmptySeq DEF Put
<1>6. CASE SetTop(f)
  <2>1. /\ f.src = Top.src /\ f.dest = Top.dest /\ f.stage = "index" /\ f.todo = kids
        /\ f.pending = Top.pending
    BY <1>2 DEF Frame
  <2> HIDE DEF f, kids
  <2>2. Put(f, folders) = {} /\ Offers(f, ch) = Among(ch, Top.src) /\ FullOK(f, ch)
    BY <1>3, <1>5, <2>1 DEF Put, Offers, FullOK
  <2>3. HandsOver({Top}, {f}, folders, {}, {}, dn, ch)
    BY <1>3, <1>5, <2>1, <2>2, SameHands
  <2>4. Advance({f}, {}, {}, folders, dn)
    BY <1>1, <1>6, <2>1, <2>2, <2>3, SetAdvances DEF Inv
  <2>. QED BY <2>4
<1>7. CASE Return /\ kids = <<>>
  <2>1. Among(ch, Top.src) = {}
    BY <1>3, <1>7, EmptySeq DEF Entries
  <2>2. HandsOver({Top}, {}, folders, {}, Here(Top, folders), dn, ch)
    BY <1>3, <1>5, <2>1 DEF HandsOver, DueIn, EarlyIn
  <2>3. Advance({}, {}, Here(Top, folders), folders, dn)
    BY <1>1, <1>7, <2>2, LineReturns, TopReturns DEF Inv, Advance
  <2>4. \A e \in Here(Top, folders) : Source(e) = Top.src
    BY <1>2, HereIs
  <2>5. \A e \in Here(Top, folders) : Wanted(Source(e), ch) = {}
    BY <2>1, <2>4 DEF Wanted
  <2>. QED BY <2>3, <2>5
<1>. QED BY <1>1, <1>4, <1>6, <1>7 DEF EnterLevel

LEMMA BuildHands ==
  ASSUME Inv, ShapeInv, BuildIndex,
         NEW dn, LineOK(stack, folders, scenario.children)
  PROVE  \E f : /\ BegunAs(f) /\ SetTop(f)
                /\ Advance({f}, {}, Here(Top, folders), folders, dn)
<1> DEFINE ch == scenario.children
           f == [Top EXCEPT !.stage = "loop", !.index = Len(indexes) + 1]
<1>1. stack # <<>> /\ Top.stage = "index" /\ SetTop(f)
  BY DEF BuildIndex
<1>2. /\ Top \in Frame /\ Top \in Frames(stack) /\ FrameOK(Top, folders, ch)
  BY <1>1, TopIs, TopInFrames DEF Inv, ShapeInv, FramesOK
<1>3. /\ f.src = Top.src /\ f.dest = Top.dest /\ f.stage = "loop" /\ f.todo = Top.todo
      /\ f.index = Len(indexes) + 1 /\ f.pending = Top.pending
  BY <1>2 DEF Frame
<1>4. \A h \in Frames(stack') : h = f \/ (h \in Frames(stack) /\ h.src # Top.src)
  <2>1. stack' = [stack EXCEPT ![Len(stack)] = f] /\ f.src = stack[Len(stack)].src
    BY <1>1, <1>3 DEF SetTop, Top
  <2> HIDE DEF f
  <2>2. StackOK(stack, Len(indexes))
    BY DEF Inv, WalkInv
  <2>3. \A h \in Frames([stack EXCEPT ![Len(stack)] = f]) :
          h = f \/ (h \in Frames(stack) /\ h.src # f.src)
    BY <1>1, <2>1, <2>2, TopReplaced
  <2>. QED BY <1>3, <2>1, <2>3
<1> HIDE DEF f
<1>5. BegunAs(f)
  BY <1>1, <1>2, <1>3, <1>4 DEF BegunAs, FrameOK
<1>6. /\ Put(f, folders) = Put(Top, folders) /\ Offers(f, ch) = Offers(Top, ch)
      /\ FullOK(f, ch)
  BY <1>1, <1>3 DEF Put, Offers, FullOK
<1>7. HandsOver({Top}, {f}, folders, {}, Here(Top, folders), dn, ch)
  BY <1>3, <1>6, SameHands
<1>8. Put(Top, folders) \subseteq Among(ch, Top.src)
  BY <1>1, TopPut DEF Inv
<1>9. Advance({f}, {}, Here(Top, folders), folders, dn)
  BY <1>1, <1>3, <1>6, <1>7, <1>8, SetAdvances DEF Inv
<1>. QED BY <1>1, <1>5, <1>9

LEMMA FollowsIs ==
  ASSUME NEW ch, NEW e, NEW x, Follows(e, x, ch)
  PROVE  e \in FolderEntries /\ x \in FolderEntries /\ x \in Among(ch, Source(e))
BY DEF Follows, WayOK

LEMMA PutIs ==
  ASSUME NEW f, NEW fs
  PROVE  Put(f, fs) = UNION {Keys(q.dest, fs) : q \in Entries(f.pending)}
BY DEF Put, Entries

\* One more folder is put off.
LEMMA PutMore ==
  ASSUME NEW s \in Seq(Pending), NEW q \in Pending
  PROVE  Entries(Append(s, q)) = Entries(s) \union {q}
<1> DEFINE t == Append(s, q)
           n == Len(s)
<1>1. /\ n \in Nat /\ DOMAIN s = 1..n /\ t \in Seq(Pending) /\ Len(t) = n + 1
      /\ \A i \in 1..n : t[i] = s[i]
      /\ t[n + 1] = q
  BY AppendProperties, LenProperties
<1>2. DOMAIN t = 1..(n + 1)
  BY <1>1, LenProperties
<1>3. n \in Nat
  BY <1>1
<1> HIDE DEF n, t
<1>4. /\ \A i \in 1..(n + 1) : i = n + 1 \/ i \in 1..n
      /\ \A i \in 1..n : i \in 1..(n + 1)
      /\ n + 1 \in 1..(n + 1)
  BY <1>3, UpTo
<1>5. Entries(t) = Entries(s) \union {q}
  <2>1. \A x \in Entries(t) : x \in Entries(s) \union {q}
    BY <1>1, <1>2, <1>4 DEF Entries
  <2>2. \A x \in Entries(s) \union {q} : x \in Entries(t)
    BY <1>1, <1>2, <1>4 DEF Entries
  <2>. QED BY <2>1, <2>2
<1>. QED BY <1>5 DEF t

LEMMA EnterHands ==
  ASSUME Inv, ShapeInv, RootInv, MapsInv, ~opt.dry, NEW e \in Ids, EnterFolder(e),
         NEW dn, LineOK(stack, folders', scenario.children)
  PROVE  /\ \E N : Advance(N, {e}, {}, folders', dn) /\ Carried(N, {})
         /\ e \in Standing(scenario.children)
         /\ folderMap'[e] # Nothing /\ folders'[folderMap'[e]].live
<1> DEFINE ch == scenario.children
<1>1. /\ AtEntry(e) /\ e \in FolderEntries /\ phase = "walk"
      /\ e \in Entries(Top.todo)
  <2>1. AtEntry(e) /\ e \in FolderEntries
    BY DEF EnterFolder, Enters
  <2>. QED BY <2>1, NextTamed DEF Inv, ShapeInv, AtEntry
<1>2. /\ stack # <<>> /\ Top.todo # <<>> /\ Top \in Frame /\ Top.stage = "loop"
      /\ Top \in Frames(stack) /\ FrameOK(Top, folders, ch) /\ e = Head(Top.todo)
  <2>1. stack # <<>> /\ Top.todo # <<>> /\ Top \in Frame /\ Top.stage = "loop"
    BY <1>1, AtEntryIs DEF Inv
  <2>. QED BY <1>1, <2>1, TopInFrames DEF Inv, ShapeInv, FramesOK, AtEntry
<1>3. PICK d : /\ d \in Destinations(Top.dest, e) /\ Obtain(Top.dest, e, d)
               /\ folderMap' = IF d = Nothing THEN folderMap ELSE [folderMap EXCEPT ![e] = d]
               /\ IF opt.fast
                  THEN SetTop([Next1 EXCEPT !.pending =
                         Append(@, [src |-> Source(e), dest |-> d, kids |-> <<>>])])
                  ELSE stack' = Append([stack EXCEPT ![Len(stack)] = Next1],
                                       NewFrame(Source(e), d, "list", <<>>))
  BY DEF EnterFolder
<1>4. /\ d # Nothing /\ d \in Nat /\ folders'[d].key = e /\ folders'[d].live
      /\ folderMap'[e] = d
  <2>1. Top.dest # Nothing /\ Top.dest \in DOMAIN folders /\ folders[Top.dest].live
    <3>1. Top.dest # Nothing
      BY <1>1, <1>2, NoneNowhere
    <3>2. Top.dest \in Targets
      BY <1>2, TargetIs DEF Spots
    <3>. QED BY <3>1, <3>2 DEF MapsInv, TargetsOK
  <2>2. /\ d # Nothing => folders'[d].live /\ folders'[d].key = e
        /\ d = Nothing => Top.dest = Nothing \/ opt.dry
    BY <1>1, <1>3, <2>1, ObtainStands DEF MapsInv
  <2>3. d \in Nat
    <3>1. Top.dest \in Nat
      BY <1>2 DEF Frame
    <3>. QED BY <1>1, <1>3, <3>1, ObtainIs DEF Inv
  <2>4. d # Nothing
    BY <2>1, <2>2
  <2>5. folderMap \in [FolderEntries -> Nat]
    BY DEF Inv, DriveInv
  <2>. QED BY <1>1, <1>3, <2>2, <2>3, <2>4, <2>5
<1>5. e \in Standing(ch)
  <2>1. PICK x, f : EnteredAs(e, x, f)
    BY EnterIs DEF ShapeInv
  <2>. QED BY <2>1, EnteredEnterable DEF Standing
<1>6. e \in Among(ch, Top.src)
  BY <1>1, <1>2 DEF FrameOK, KidsOK
<1>7. /\ Next1.src = Top.src /\ Next1.dest = Top.dest /\ Next1.stage = "loop"
      /\ Next1.pending = Top.pending /\ Next1.index = Top.index
  BY <1>1, NextTamed DEF Inv, ShapeInv
<1>8. Next1 \in Frame /\ Entries(Top.todo) = Entries(Next1.todo) \union {e}
  <2>1. Top.todo \in Seq(Ids)
    BY <1>2 DEF Frame
  <2>2. Tail(Top.todo) \in Seq(Ids) /\ Entries(Top.todo) = Entries(Tail(Top.todo)) \union {e}
    BY <1>2, <2>1, RestLeft
  <2>3. Next1.todo = Tail(Top.todo) /\ Next1 \in Frame
    BY <1>2, <2>2 DEF Next1, Frame
  <2>. QED BY <2>2, <2>3
<1>9. Put(Top, folders') \subseteq Among(ch, Top.src)
  BY <1>2, TopPut DEF Inv
<1>10. /\ Offers(Top, ch) = Entries(Top.todo)
       /\ Here(Next1, folders') = Here(Top, folders')
       /\ Put(Next1, folders') = Put(Top, folders')
       /\ Offers(Next1, ch) = Entries(Next1.todo) /\ FullOK(Next1, ch)
  BY <1>2, <1>7 DEF Offers, Here, Put, FullOK
<1>11. Source(e) \in Folders
  BY <1>1, EntryFacts
<1>12. \A x : Follows(e, x, ch) => x \in Among(ch, Source(e))
  BY FollowsIs
<1> DEFINE Same(h) == /\ h.stage = "loop" /\ h.dest = Top.dest /\ h.index = Top.index
                      /\ h.todo = Next1.todo
<1>0. ASSUME NEW N, NEW h \in N, Same(h)
       PROVE  Carried(N, {})
  <2>1. e \notin FileEntries
    BY <1>1, IdAssumption DEF FolderEntries, FileEntries
  <2>. QED BY <1>8, <1>0, <2>1 DEF Carried
<1>13. CASE ~opt.fast
  <2> DEFINE g == NewFrame(Source(e), d, "list", <<>>)
             N == {Next1, g}
  <2>1. /\ g.src = Source(e) /\ g.dest = d /\ g.stage = "list" /\ g.pending = <<>>
        /\ g \in Frame
    BY <1>4, <1>11, EmptySeq DEF NewFrame, Frame, Stages
  <2>2. Opened(Next1, g)
    BY <1>3, <1>13 DEF Opened
  <2> HIDE DEF g
  <2>3. /\ Here(g, folders') = {e} /\ Put(g, folders') = {} /\ FullOK(g, ch)
        /\ Offers(g, ch) = Among(ch, Source(e))
    BY <1>4, <2>1, EmptySeq DEF Here, Keys, Put, FullOK, Offers
  <2>4. ASSUME NEW k, NEW x, DueIn({Top}, folders', k, x, ch)
        PROVE  x = e \/ DueIn(N, folders', k, x, ch)
    <3>1. \/ k \in Put(Next1, folders')
          \/ k \in Here(Next1, folders') /\ (x = e \/ x \in Offers(Next1, ch))
      BY <1>8, <1>10, <2>4 DEF DueIn
    <3>. QED BY <3>1 DEF DueIn
  <2>5. /\ EarlyIn(N, folders', e)
        /\ \A x : Follows(e, x, ch) => DueIn(N, folders', e, x, ch)
    BY <1>12, <2>1, <2>3 DEF EarlyIn, DueIn
  <2>6. \A k : EarlyIn({Top}, folders', k) => EarlyIn(N, folders', k)
    BY <1>2, <1>10 DEF EarlyIn
  <2>7. HandsOver({Top}, N, folders', {e}, {}, dn, ch)
    BY <1>10, <2>3, <2>4, <2>5, <2>6 DEF HandsOver
  <2>8. Frames(stack') = Below \union N
    BY <1>2, <1>8, <2>1, <2>2, TopOpens DEF Inv
  <2>9. LineOK(stack', folders', ch)
    BY <1>2, <1>6, <1>7, <1>8, <1>9, <1>10, <2>1, <2>2, <2>3, LineOpens DEF Inv
  <2>10. Carried(N, {})
    BY <1>7, <1>0
  <2>. QED BY <1>4, <1>5, <2>7, <2>8, <2>9, <2>10 DEF Advance
<1>14. CASE opt.fast
  <2> DEFINE q == [src |-> Source(e), dest |-> d, kids |-> <<>>]
             more == Append(Next1.pending, q)
             f == [Next1 EXCEPT !.pending = more]
  <2>1. q \in Pending /\ q.dest = d
    BY <1>4, <1>11, EmptySeq DEF Pending
  <2>2. Next1.pending \in Seq(Pending)
    BY <1>8 DEF Frame
  <2>3. SetTop(f)
    BY <1>3, <1>14
  <2> HIDE DEF q
  <2>4. Entries(more) = Entries(Next1.pending) \union {q}
    BY <2>1, <2>2, PutMore
  <2> HIDE DEF more
  <2>5. /\ f.src = Top.src /\ f.dest = Top.dest /\ f.stage = "loop" /\ f.pending = more
        /\ f.todo = Next1.todo /\ f.index = Top.index
    BY <1>7, <1>8 DEF Frame
  <2> HIDE DEF f
  <2>6. Put(f, folders') = Put(Top, folders') \union {e}
    <3>1. Keys(d, folders') = {e}
      BY <1>4 DEF Keys
    <3>2. Put(f, folders') = Put(Next1, folders') \union Keys(d, folders')
      BY <2>1, <2>4, <2>5, PutIs
    <3>. QED BY <1>10, <3>1, <3>2
  <2>7. /\ Here(f, folders') = Here(Top, folders') /\ Offers(f, ch) = Entries(Next1.todo)
        /\ FullOK(f, ch)
    BY <2>5 DEF Here, Offers, FullOK
  <2>8. ASSUME NEW k, NEW x, DueIn({Top}, folders', k, x, ch)
        PROVE  x = e \/ DueIn({f}, folders', k, x, ch)
    BY <1>8, <1>10, <2>6, <2>7, <2>8 DEF DueIn
  <2>9. EarlyIn({f}, folders', e) /\ \A x : DueIn({f}, folders', e, x, ch)
    BY <2>6 DEF EarlyIn, DueIn
  <2>10. \A k : EarlyIn({Top}, folders', k) => EarlyIn({f}, folders', k)
    BY <1>2, <2>6 DEF EarlyIn
  <2>11. HandsOver({Top}, {f}, folders', {e}, {}, dn, ch)
    BY <2>6, <2>7, <2>8, <2>9, <2>10 DEF HandsOver
  <2>12. Put(f, folders') \subseteq Among(ch, Top.src)
    BY <1>6, <1>9, <2>6
  <2>13. Advance({f}, {e}, {}, folders', dn)
    BY <1>2, <2>3, <2>5, <2>11, <2>12, SetAdvances DEF Inv
  <2>14. Carried({f}, {})
    BY <1>0, <2>5
  <2>. QED BY <1>4, <1>5, <2>13, <2>14
<1>. QED BY <1>13, <1>14

LEMMA DescendHands ==
  ASSUME Inv, ShapeInv, MapsInv, Descend, ~opt.dry, NEW dn,
         FullOK(Top, scenario.children), LineOK(stack, folders, scenario.children)
  PROVE  \E N, Z : /\ Advance(N, {}, Z, folders, dn)
                   /\ \A e \in Z : Wanted(Source(e), scenario.children) = {}
<1> DEFINE ch == scenario.children
           sub == Head(Top.pending)
           left == Tail(Top.pending)
           f == [Top EXCEPT !.pending = left]
           g == NewFrame(sub.src, sub.dest, "index", sub.kids)
<1>1. /\ stack # <<>> /\ phase = "walk" /\ Top.stage = "descend" /\ Top.pending # <<>>
      /\ Top \in Frame /\ Top \in Frames(stack) /\ FrameOK(Top, folders, ch)
  <2>1. stack # <<>> /\ phase = "walk" /\ Top.stage = "descend" /\ Top.pending # <<>>
    BY DEF Descend
  <2>. QED BY <2>1, TopIs, TopInFrames DEF Inv, ShapeInv, FramesOK
<1>2. Top.pending \in Seq(Pending)
  BY <1>1 DEF Frame
<1>3. /\ Entries(Top.pending) = Entries(left) \union {sub}
      /\ left \in Seq(Pending) /\ sub \in Pending
  BY <1>1, <1>2, RestLeft
<1>4. stack' = IF sub.kids # <<>> /\ sub.dest # Nothing
               THEN Append([stack EXCEPT ![Len(stack)] = f], g)
               ELSE [stack EXCEPT ![Len(stack)] = f]
  BY DEF Descend
<1>5. PICK n \in DOMAIN Top.pending : sub = Top.pending[n]
  BY <1>3 DEF Entries
<1>6. /\ sub.dest # Nothing /\ Keys(sub.dest, folders) = {folders[sub.dest].key}
      /\ DestOK(sub.dest, sub.src, folders)
      /\ Entries(sub.kids) = Among(ch, sub.src)
  <2>1. FullOK(Top, ch) /\ FrameOK(Top, folders, ch)
    BY <1>1
  <2>. QED BY <1>1, <1>5, NoneNowhere DEF FullOK, FrameOK
<1> DEFINE k == folders[sub.dest].key
<1>7. Source(k) = sub.src /\ Keys(sub.dest, folders) = {k}
  BY <1>6 DEF DestOK
<1>8. /\ f.src = Top.src /\ f.dest = Top.dest /\ f.stage = "descend" /\ f.pending = left
      /\ f.todo = Top.todo /\ f \in Frame
  BY <1>1, <1>3 DEF Frame
<1> HIDE DEF sub, left, k, f
<1>9. /\ Put(Top, folders) = Put(f, folders) \union {k}
      /\ Here(f, folders) = Here(Top, folders) /\ Offers(f, ch) = Offers(Top, ch)
  <2>1. Put(Top, folders) = Put(f, folders) \union Keys(sub.dest, folders)
    BY <1>3, <1>8, PutIs
  <2>. QED BY <1>1, <1>7, <1>8, <2>1 DEF Here, Offers
<1>10. FullOK(f, ch)
  <2>1. \A q \in Entries(Top.pending) : Entries(q.kids) = Among(ch, q.src)
    <3>1. \A m \in DOMAIN Top.pending :
            Entries(Top.pending[m].kids) = Among(ch, Top.pending[m].src)
      BY <1>1 DEF FullOK
    <3>2. \A q \in Entries(Top.pending) : \E m \in DOMAIN Top.pending : q = Top.pending[m]
      BY DEF Entries
    <3>. QED BY <3>1, <3>2
  <2>2. \A q \in Entries(left) : Entries(q.kids) = Among(ch, q.src)
    BY <1>3, <2>1
  <2>3. \A m \in DOMAIN f.pending : f.pending[m] \in Entries(left)
    BY <1>8 DEF Entries
  <2>. QED BY <1>8, <2>2, <2>3 DEF FullOK
<1>11. Put(Top, folders) \subseteq Among(ch, Top.src)
  BY <1>1, TopPut DEF Inv
<1>12. \A x : Follows(k, x, ch) => x \in Among(ch, sub.src)
  BY <1>7, FollowsIs
<1>13. CASE sub.kids # <<>>
  <2> DEFINE N == {f, g}
  <2>1. /\ g.src = sub.src /\ g.dest = sub.dest /\ g.stage = "index" /\ g.pending = <<>>
        /\ g.todo = sub.kids /\ g \in Frame
    BY <1>3, EmptySeq DEF NewFrame, Frame, Stages, Pending
  <2>2. Opened(f, g)
    BY <1>4, <1>6, <1>13 DEF Opened
  <2> HIDE DEF g
  <2>3. /\ Here(g, folders) = {k} /\ Put(g, folders) = {} /\ FullOK(g, ch)
        /\ Offers(g, ch) = Among(ch, sub.src)
    BY <1>6, <1>7, <2>1, EmptySeq DEF Here, Put, FullOK, Offers
  <2>4. ASSUME NEW e, NEW x, Follows(e, x, ch), DueIn({Top}, folders, e, x, ch)
        PROVE  DueIn(N, folders, e, x, ch)
    <3>1. \/ e \in Put(f, folders)
          \/ e = k /\ x \in Offers(g, ch)
          \/ e \in Here(f, folders) /\ x \in Offers(f, ch)
      BY <1>9, <1>12, <2>3, <2>4 DEF DueIn
    <3>. QED BY <2>3, <3>1 DEF DueIn
  <2>5. \A e : EarlyIn({Top}, folders, e) => EarlyIn(N, folders, e)
    BY <1>1, <1>9, <2>1, <2>3 DEF EarlyIn
  <2>6. HandsOver({Top}, N, folders, {}, {}, dn, ch)
    BY <1>9, <1>10, <2>3, <2>4, <2>5 DEF HandsOver
  <2>7. Frames(stack') = Below \union N
    BY <1>1, <1>8, <2>1, <2>2, TopOpens DEF Inv
  <2>8. LineOK(stack', folders, ch)
    BY <1>1, <1>8, <1>9, <1>11, <2>1, <2>2, <2>3, LineOpens DEF Inv
  <2>9. Advance(N, {}, {}, folders, dn)
    BY <2>6, <2>7, <2>8 DEF Advance
  <2>. QED BY <2>9
<1>14. CASE sub.kids = <<>>
  <2>1. SetTop(f)
    BY <1>4, <1>14 DEF SetTop
  <2>2. Among(ch, sub.src) = {}
    BY <1>6, <1>14, EmptySeq DEF Entries
  <2>3. \A e, x : Follows(e, x, ch) /\ DueIn({Top}, folders, e, x, ch) =>
          DueIn({f}, folders, e, x, ch)
    BY <1>9, <1>12, <2>2 DEF DueIn
  <2>4. \A e : EarlyIn({Top}, folders, e) => e \in {k} \/ EarlyIn({f}, folders, e)
    BY <1>1, <1>9 DEF EarlyIn
  <2>5. HandsOver({Top}, {f}, folders, {}, {k}, dn, ch)
    BY <1>9, <1>10, <2>3, <2>4 DEF HandsOver
  <2>6. Advance({f}, {}, {k}, folders, dn)
    BY <1>1, <1>8, <1>9, <1>11, <2>1, <2>5, SetAdvances DEF Inv
  <2>7. Wanted(Source(k), ch) = {}
    BY <1>7, <2>2 DEF Wanted
  <2>. QED BY <2>6, <2>7
<1>. QED BY <1>13, <1>14

LEMMA BatchHands ==
  ASSUME Inv, BatchedList, listErrs' = {}, NEW dn,
         LineOK(stack, folders, scenario.children)
  PROVE  \E N : Advance(N, {}, {}, folders, dn)
<1> DEFINE ch == scenario.children
<1>1. /\ stack # <<>> /\ Top.stage = "loop" /\ Top \in Frame
  <2>1. stack # <<>> /\ Top.stage = "loop"
    BY DEF BatchedList
  <2>. QED BY <2>1, TopIs DEF Inv
<1>2. PICK lost : SetKids(Listing(lost))
  BY DEF BatchedList, ListingError
<1> DEFINE told(i) == [Top.pending[i] EXCEPT !.kids = Listing(lost)[Top.pending[i].src]]
           more == [i \in DOMAIN Top.pending |-> told(i)]
           f == [Top EXCEPT !.stage = "descend", !.pending = more]
<1>3. SetTop(f)
  BY <1>2 DEF SetKids
<1>4. /\ f.src = Top.src /\ f.dest = Top.dest /\ f.stage = "descend" /\ f.pending = more
      /\ f.todo = Top.todo
  BY <1>1 DEF Frame
<1>5. DOMAIN more = DOMAIN Top.pending /\ \A i \in DOMAIN more : more[i] = told(i)
  OBVIOUS
<1> HIDE DEF f, more
<1>6. ASSUME NEW i \in DOMAIN Top.pending
      PROVE  /\ told(i).src = Top.pending[i].src /\ told(i).dest = Top.pending[i].dest
             /\ Entries(told(i).kids) = Among(ch, Top.pending[i].src)
  <2>1. Top.pending[i] \in Pending
    <3>1. Top.pending \in Seq(Pending)
      BY <1>1 DEF Frame
    <3>. QED BY <3>1, ElementOfSeq, LenProperties
  <2>2. Top.pending[i].src \in Batch
    BY DEF Batch
  <2>3. Listing(lost)[Top.pending[i].src] = Children(Top.pending[i].src)
    BY <2>2 DEF Listing, Relisted, Batched
  <2>4. told(i).kids = Children(Top.pending[i].src)
    BY <2>1, <2>3 DEF Pending
  <2>5. Entries(Children(Top.pending[i].src)) = Among(ch, Top.pending[i].src)
    BY DEF Entries, Among, Children
  <2>. QED BY <2>1, <2>4, <2>5 DEF Pending
<1> HIDE DEF told
<1>7. Put(f, folders) = Put(Top, folders)
  BY <1>4, <1>5, <1>6 DEF Put
<1>8. FullOK(f, ch)
  BY <1>4, <1>5, <1>6 DEF FullOK
<1>9. Offers(f, ch) = Offers(Top, ch)
  BY <1>1, <1>4 DEF Offers
<1>10. HandsOver({Top}, {f}, folders, {}, {}, dn, ch)
  BY <1>1, <1>4, <1>7, <1>8, <1>9, SameHands
<1>11. Put(f, folders) \subseteq Among(ch, Top.src)
  BY <1>1, <1>7, TopPut DEF Inv
<1>12. Advance({f}, {}, {}, folders, dn)
  BY <1>1, <1>3, <1>4, <1>10, <1>11, SetAdvances DEF Inv
<1>. QED BY <1>12

\* A folder on the current path is not ahead on a way that leads through it: the
\* levels are the way.
LEMMA PathIsWay ==
  ASSUME Inv, ShapeInv, RootInv, MapsInv, OneWayDown(scenario.children),
         phase = "walk", stack # <<>>, ~opt.dry,
         LineOK(stack, folders, scenario.children),
         \A f \in Frames(stack) : Here(f, folders) \subseteq Standing(scenario.children),
         NEW e \in Here(Top, folders), NEW x, Follows(e, x, scenario.children)
  PROVE  Source(x) \notin Visited
<1> DEFINE ch == scenario.children
           len == Len(stack)
           Key(i) == folders[stack[i].dest].key
<1>1. len \in Nat /\ len # 0 /\ DOMAIN stack = 1..len
  BY SplitStack DEF Inv
<1>2. \A i \in 1..len : /\ stack[i] \in Frames(stack) /\ Here(stack[i], folders) = {Key(i)}
                        /\ Source(Key(i)) = stack[i].src /\ Key(i) \in Standing(ch)
                        /\ Key(i) \in FolderEntries
  <2>1. SUFFICES ASSUME NEW i \in 1..len
                 PROVE  /\ stack[i] \in Frames(stack) /\ Here(stack[i], folders) = {Key(i)}
                        /\ Source(Key(i)) = stack[i].src /\ Key(i) \in Standing(ch)
                        /\ Key(i) \in FolderEntries
    OBVIOUS
  <2>2. stack[i] \in Frames(stack)
    BY <1>1 DEF Frames, Entries
  <2>3. Here(stack[i], folders) = {Key(i)}
    BY <2>2, NoneNowhere
  <2>4. FrameOK(stack[i], folders, ch)
    BY <2>2 DEF ShapeInv, FramesOK
  <2>. QED BY <2>2, <2>3, <2>4, HereIs
<1>0. PICK p : WayOK(p, ch) /\ \E n \in 1..(Len(p) - 1) : p[n] = e /\ p[n + 1] = x
  BY DEF Follows
<1>3. PICK n \in 1..(Len(p) - 1) : WayOK(p, ch) /\ p[n] = e /\ p[n + 1] = x
  BY <1>0
<1>4. /\ Len(p) \in Nat /\ Len(p) # 0 /\ p[1] = Root
      /\ \A i \in 1..(Len(p) - 1) : p[i + 1] \in Among(ch, Source(p[i]))
      /\ \A i, j \in 1..Len(p) : i # j => Source(p[i]) # Source(p[j])
      /\ p[n] \in FolderEntries
  BY <1>3 DEF WayOK
<1>5. n \in Nat /\ n # 0 /\ n \in 1..Len(p) /\ n + 1 \in 1..Len(p)
  <2>1. \A l \in Nat : \A m \in 1..(l - 1) :
          m \in Nat /\ m # 0 /\ m \in 1..l /\ m + 1 \in 1..l
    OBVIOUS
  <2>. QED BY <1>4, <2>1
<1>6. \A j \in 1..n : /\ p[j] \in Standing(ch) /\ (j # 1 => p[j] \in Enterable(ch))
                      /\ j # 1 => /\ j - 1 \in 1..n /\ p[j] \in Among(ch, Source(p[j - 1]))
  <2>1. SUFFICES ASSUME NEW j \in 1..n
                 PROVE  /\ p[j] \in Standing(ch) /\ (j # 1 => p[j] \in Enterable(ch))
                        /\ j # 1 => /\ j - 1 \in 1..n
                                    /\ p[j] \in Among(ch, Source(p[j - 1]))
    OBVIOUS
  <2>2. p[j] \in Standing(ch) /\ (j # 1 => p[j] \in Enterable(ch))
    BY <1>3, <1>4, <1>5, WayStands
  <2>3. ASSUME j # 1
        PROVE  j - 1 \in 1..n /\ j - 1 \in 1..(Len(p) - 1) /\ j - 1 + 1 = j
    <3>1. \A l \in Nat : \A m \in 1..(l - 1) : \A i \in 1..m : i # 1 =>
            i - 1 \in 1..m /\ i - 1 \in 1..(l - 1) /\ i - 1 + 1 = i
      OBVIOUS
    <3>. QED BY <1>4, <2>3, <3>1
  <2>. QED BY <1>4, <2>2, <2>3
<1>7. ASSUME NEW i \in 1..len, i # 1, NEW j \in 1..n, p[j] = Key(i)
      PROVE  \E l \in 1..n : p[l] = Key(i - 1)
  <2>1. i - 1 \in 1..len /\ 1 \in 1..len
    <3>1. \A l \in Nat : \A m \in 1..l : m # 1 => m - 1 \in 1..l /\ 1 \in 1..l
      OBVIOUS
    <3>. QED BY <1>1, <1>7, <3>1
  <2>2. Key(i) \in Among(ch, Source(Key(i - 1)))
    <3>1. Here(stack[i], folders) \subseteq Among(ch, stack[i - 1].src)
      BY <1>1, <1>7 DEF LineOK
    <3>. QED BY <1>2, <2>1, <3>1
  <2>3. Key(i) # Root
    <3>1. Source(Root) = Root
      BY RootAssumption, IdAssumption DEF Source
    <3>2. stack[1].src = Root /\ stack[i].src # stack[1].src
      BY <1>1, <1>7, <2>1 DEF RootInv, Inv, WalkInv, StackOK
    <3>. QED BY <1>2, <3>1, <3>2
  <2>4. j # 1
    BY <1>4, <1>7, <2>3
  <2>5. /\ j - 1 \in 1..n /\ p[j] \in Among(ch, Source(p[j - 1])) /\ p[j] \in Enterable(ch)
        /\ p[j - 1] \in Standing(ch)
    BY <1>6, <2>4
  <2>6. Key(i - 1) \in Standing(ch)
    BY <1>2, <2>1
  <2>7. p[j - 1] = Key(i - 1)
    BY <1>7, <2>2, <2>5, <2>6 DEF OneWayDown, Standing
  <2>. QED BY <2>5, <2>7
<1>8. \A i \in 1..len : \E j \in 1..n : p[j] = Key(i)
  <2> DEFINE T == {m \in Nat : m < len => \E j \in 1..n : p[j] = Key(len - m)}
  <2>1. 0 \in T
    <3>1. e = Key(len)
      <4>1. len \in 1..len /\ Top = stack[len]
        BY <1>1, UpTo DEF Top
      <4>. QED BY <1>2, <4>1
    <3>2. n \in 1..n /\ len - 0 = len
      BY <1>1, <1>5
    <3>3. \E j \in 1..n : p[j] = Key(len - 0)
      BY <1>3, <3>1, <3>2
    <3>. QED BY <3>3
  <2>2. ASSUME NEW m \in Nat, m \in T PROVE m + 1 \in T
    <3>1. SUFFICES ASSUME m + 1 < len PROVE \E j \in 1..n : p[j] = Key(len - (m + 1))
      OBVIOUS
    <3>2. /\ m < len /\ len - m \in 1..len /\ len - m # 1
          /\ (len - m) - 1 = len - (m + 1)
      <4> HIDE DEF len, T
      <4>. QED BY <1>1, <2>2, <3>1
    <3>3. PICK j \in 1..n : p[j] = Key(len - m)
      BY <2>2, <3>2
    <3>4. \E l \in 1..n : p[l] = Key((len - m) - 1)
      BY <1>7, <3>2, <3>3
    <3>. QED BY <3>2, <3>4
  <2>3. Nat \subseteq T
    <3> HIDE DEF T
    <3>. QED BY <2>1, <2>2, Induct
  <2>4. ASSUME NEW i \in 1..len PROVE \E j \in 1..n : p[j] = Key(i)
    <3>1. len - i \in Nat /\ len - i < len /\ len - (len - i) = i
      <4> HIDE DEF len
      <4>. QED BY <1>1, <2>4
    <3>2. len - i \in T
      BY <2>3, <3>1
    <3>3. \E j \in 1..n : p[j] = Key(len - (len - i))
      BY <3>1, <3>2
    <3>. QED BY <3>1, <3>3
  <2>. QED BY <2>4
<1>9. ASSUME Source(x) \in Visited PROVE FALSE
  <2>1. PICK i \in 1..len : Source(x) = stack[i].src
    BY <1>1, <1>9 DEF Visited
  <2>2. PICK j \in 1..n : p[j] = Key(i)
    BY <1>8
  <2>3. j \in 1..Len(p) /\ j # n + 1
    <3>1. \A l \in Nat : \A m \in 1..(l - 1) : \A k \in 1..m : k \in 1..l /\ k # m + 1
      OBVIOUS
    <3>. QED BY <1>4, <3>1
  <2>4. Source(p[j]) = Source(p[n + 1])
    BY <1>2, <1>3, <2>1, <2>2
  <2>. QED BY <1>4, <1>5, <2>3, <2>4
<1>. QED BY <1>9

-----------------------------------------------------------------------------
(* The steps of a run that has had no failure                              *)

LEMMA CleanSteps ==
  ASSUME Inv, [Next]_vars, Clean'
  PROVE  \/ OpenRoot
         \/ /\ Clean /\ UNCHANGED <<opt, done>>
            /\ \/ UNCHANGED vars \/ RunJob
               \/ ListFolder \/ BuildIndex \/ BatchedList \/ Descend \/ LeaveLevel
               \/ \E e \in Ids : \/ SubmitFile(e) \/ CopyInline(e) \/ LoopSkipped(e)
                                 \/ SkipComplete(e) \/ EnterFolder(e)
<1> DEFINE Goes == Clean /\ UNCHANGED <<opt, done>>
<1>1. phase' = "walk" /\ ~opt'.dry /\ ~stop' /\ failed' = {} /\ listErrs' = {}
  BY DEF Clean
<1>2. CASE UNCHANGED vars
  BY <1>1, <1>2 DEF vars, runVars, failVars, treeVars, Clean
<1>3. ASSUME NEW o \in scenario.options, StartRun(o) PROVE FALSE
  BY <1>1, <1>3 DEF StartRun
<1>4. ~EndRun
  BY <1>1 DEF EndRun
<1>5. ASSUME UNCHANGED runVars, UNCHANGED done, failed \subseteq failed', listErrs \subseteq listErrs'
      PROVE  Goes
  BY <1>1, <1>5 DEF runVars, Clean
<1>6. \A keys : ~RecordFailed(keys)
  BY <1>1 DEF RecordFailed
<1>7. ASSUME NEW e, NEW d, NEW ix, CopyFile(e, d, ix)
      PROVE  Goes
  <2>1. UNCHANGED failed
    <3>1. Reconcile(e) => UNCHANGED failed
      BY DEF Reconcile, failVars
    <3>. QED BY <1>6, <1>7, <3>1 DEF CopyFile, SkipConfirmed, RecordExisting, CountDryRun,
                                    CopyLands, CopyFails, failVars
  <2>. QED BY <1>5, <1>7, <2>1 DEF CopyFile, treeVars
<1>8. CASE RunJob
  <2>1. \E j \in jobs : CopyFile(j.entry, j.dest, j.index)
    BY <1>8 DEF RunJob
  <2>. QED BY <1>7, <1>8, <2>1
<1>9. ~DropJobs /\ ~QuotaStops /\ ~Signal
  BY <1>1 DEF DropJobs, QuotaStops, Signal, runVars
<1>10. ~Finish /\ ~UserTrash /\ ~UserUpload
  <2>1. ~Finish
    BY <1>1 DEF Finish
  <2>. QED BY <1>1, <2>1 DEF UserTrash, UserUpload, runVars
<1>11. ASSUME ListFolder \/ BatchedList
       PROVE  Goes
  <2>1. UNCHANGED failVars /\ UNCHANGED listErrs
    BY <1>6, <1>11 DEF ListFolder, BatchedList, ListingError
  <2>. QED BY <1>5, <1>11, <2>1 DEF ListFolder, BatchedList, failVars
<1>12. ASSUME BuildIndex \/ Descend \/ LeaveLevel
       PROVE  Goes
  BY <1>5, <1>12 DEF BuildIndex, Descend, LeaveLevel, failVars, treeVars
<1>13. ASSUME NEW e \in Ids, SubmitFile(e) \/ LoopSkipped(e) \/ SkipComplete(e) \/ EnterFolder(e)
       PROVE  Goes
  BY <1>5, <1>13 DEF SubmitFile, LoopSkipped, SkipComplete, EnterFolder, failVars, treeVars
<1>14. ASSUME NEW e \in Ids, CopyInline(e)
       PROVE  Goes
  BY <1>7, <1>14 DEF CopyInline
<1>15. \A e \in Ids : ~ShortcutUnresolved(e) /\ ~CreateFails(e)
  BY <1>6 DEF ShortcutUnresolved, CreateFails
<1>16. Finalize \/ RootFails \/ Crash => EndRun
  BY DEF Finalize, RootFails, Crash
<1> HIDE DEF Goes
<1>17. Main => OpenRoot \/ Goes
  BY <1>4, <1>10, <1>11, <1>12, <1>13, <1>14, <1>16 DEF Main
<1>18. ~Environment
  BY <1>4, <1>9, <1>10, <1>15, <1>16 DEF Environment
<1>19. Pool => RunJob
  BY <1>9 DEF Pool
<1>20. Main => \/ OpenRoot \/ ListFolder \/ BuildIndex \/ BatchedList \/ Descend \/ LeaveLevel
               \/ \E e \in Ids : \/ SubmitFile(e) \/ CopyInline(e) \/ LoopSkipped(e)
                                 \/ SkipComplete(e) \/ EnterFolder(e)
  BY <1>4, <1>10, <1>16 DEF Main
<1>21. UNCHANGED vars \/ Main \/ RunJob
  BY <1>3, <1>18, <1>19 DEF Next
<1>. QED BY <1>2, <1>8, <1>17, <1>20, <1>21 DEF Goes

LEMMA JobLeft ==
  ASSUME Inv, ShapeInv, RunJob
  PROVE  \E t : DoneWith(t) /\ LeftBy(t)
<1>1. PICK t : DoneWith(t) /\ jobs' = jobs \ {t} /\ stack' = stack
  BY JobDone
<1>2. \A u \in Work : u \in Work' \/ u = t
  BY <1>1, WorkIs
<1>. QED BY <1>1, <1>2 DEF LeftBy

\* The work of the next entry, if it is a file, is done or submitted.
LEMMA NextLeft ==
  ASSUME Inv, ShapeInv, NEW e, AtEntry(e), SetTop(Next1), jobs \subseteq jobs', NEW E,
         e \in FileEntries => \/ e \in E
                              \/ [entry |-> e, dest |-> Top.dest, index |-> Top.index] \in jobs'
  PROVE  \A u \in Work : u.entry \in FileEntries =>
           u \in Work' \/ (u.index = Top.index /\ u.entry \in E)
<1>1. /\ stack # <<>> /\ Top.stage = "loop"
  BY AtEntryIs DEF Inv
<1>2. /\ Next1.dest = Top.dest /\ Next1.index = Top.index /\ Next1.stage = "loop"
  BY NextTamed DEF Inv, ShapeInv
<1>3. Entries(Top.todo) = Entries(Next1.todo) \union {e}
  <2>1. Top \in Frame /\ Top.todo # <<>> /\ e = Head(Top.todo)
    BY AtEntryIs DEF Inv, AtEntry
  <2>2. Top.todo \in Seq(Ids)
    BY <2>1 DEF Frame
  <2>3. Next1.todo = Tail(Top.todo)
    BY <2>1 DEF Next1, Frame
  <2>. QED BY <2>1, <2>2, <2>3, RestLeft
<1>4. Frames(stack) = Below \union {Top} /\ Frames(stack') = Below \union {Next1}
  BY <1>1, SplitStack, TopSet DEF Inv
<1>5. Carried({Next1}, E)
  BY <1>2, <1>3 DEF Carried
<1>. QED BY <1>1, <1>4, <1>5, WorkLeft DEF Inv

LEMMA InlineLeft ==
  ASSUME Inv, ShapeInv, NEW e \in Ids, CopyInline(e)
  PROVE  \E t : DoneWith(t) /\ LeftBy(t)
<1> DEFINE t == [entry |-> e, dest |-> Top.dest, index |-> Top.index]
<1>1. DoneWith(t)
  BY InlineDone
<1>2. AtEntry(e) /\ SetTop(Next1) /\ jobs' = jobs
  BY DEF CopyInline
<1>3. \A u \in Work : u.entry \in FileEntries =>
        u \in Work' \/ (u.index = Top.index /\ u.entry \in {e})
  BY <1>2, NextLeft
<1>4. LeftBy(t)
  BY <1>3 DEF LeftBy
<1>. QED BY <1>1, <1>4

\* Files that are settled stay so.
Keeps == \A d, x : \A want \in SUBSET FileEntries :
  IsFiniteSet(want) /\ Settled(d, x, want, Work, indexes, items)
  => Settled(d, x, want, Work', indexes', items')

LEMMA QuietKeeps ==
  ASSUME Inv, Inv', Work' \subseteq Work, UNCHANGED <<indexes, items>>,
         \A u \in Work : u.entry \in FileEntries => u \in Work'
  PROVE  Keeps
<1>1. IsFiniteSet(DOMAIN items') /\ KeptItems(items, items')
  BY ItemsFinite DEF Inv, KeptItems
<1>2. ASSUME NEW d, NEW x, NEW want \in SUBSET FileEntries, IsFiniteSet(want),
             Settled(d, x, want, Work, indexes, items)
      PROVE  Settled(d, x, want, Work', indexes', items')
  <2>1. PICK ix \in DOMAIN indexes : SettledBy(ix, d, x, want, Work, indexes, items)
    BY <1>2 DEF Settled
  <2>2. indexes'[ix] = indexes[ix] /\ DOMAIN indexes' = DOMAIN indexes
    OBVIOUS
  <2>3. SettledBy(ix, d, x, want, Work', indexes', items')
    BY <1>1, <1>2, <2>1, <2>2, SettledKept
  <2>. QED BY <2>1, <2>2, <2>3 DEF Settled
<1>. QED BY <1>2 DEF Keeps

LEMMA DoneKeeps ==
  ASSUME Inv, Inv', ShapeInv, LedgerInv, IndexInv, ModesTell, NEW t, DoneWith(t), LeftBy(t),
         Work' \subseteq Work, ~opt.dry, failed' = {}
  PROVE  Keeps
BY DoneSettles DEF Keeps

LEMMA BuildKeeps ==
  ASSUME Inv, Inv', ShapeInv, MapsInv, BuildIndex, NEW f, BegunAs(f), SetTop(f),
         FullOK(Top, scenario.children)
  PROVE  /\ Keeps
         /\ \A e \in Here(Top, folders) : \A x \in Wanted(Source(e), scenario.children) :
              Settled(folderMap[e], x, Wanted(Source(e), scenario.children),
                      Work', indexes', items')
<1> DEFINE ch == scenario.children
           new == Len(indexes) + 1
<1>1. /\ stack # <<>> /\ Top.stage = "index" /\ jobs' = jobs /\ items' = items
      /\ folders' = folders /\ scenario' = scenario
  BY DEF BuildIndex, driveVars
<1>2. /\ f.src = Top.src /\ f.dest = Top.dest /\ f.stage = "loop" /\ f.todo = Top.todo
      /\ f.index = new
  BY DEF BegunAs
<1>3. /\ DOMAIN indexes' = 1..new /\ DOMAIN indexes = 1..Len(indexes)
      /\ \A x \in 1..Len(indexes) : indexes'[x] = indexes[x]
      /\ Len(indexes) \in Nat
  <2>1. /\ DOMAIN indexes = 1..Len(indexes) /\ Len(indexes) \in Nat
    BY LenProperties DEF Inv, WalkInv
  <2>. QED BY <2>1, IndexBuilt
<1>4. /\ \A x \in 1..Len(indexes) : x \in 1..new /\ x # new
      /\ new \in 1..new
  <2>1. \A n \in Nat : (\A x \in 1..n : x \in 1..(n + 1) /\ x # n + 1) /\ n + 1 \in 1..(n + 1)
    OBVIOUS
  <2>. QED BY <1>3, <2>1
<1> HIDE DEF new
<1>5. Work' \subseteq Work \union LevelWork(f)
  <2>1. Grown(folders, folders')
    BY <1>1 DEF Grown
  <2>. QED BY <2>1, ShapeBuild
<1>6. \A t \in LevelWork(f) : t.index = new /\ t.dest = Top.dest
  BY <1>2, LevelWorkIs
<1>7. \A t \in Work : t.index \in 1..Len(indexes)
  BY WorkFacts
<1>8. Frames(stack') = Below \union {f}
  BY <1>1, TopSet DEF Inv
<1>9. \A u \in Work : u.entry \in FileEntries => u \in Work'
  <2> DEFINE N == {f}
             E == {}
  <2>1. Carried(N, E)
    BY <1>1 DEF Carried
  <2>2. WalkInv /\ stack # <<>> /\ jobs \subseteq jobs' /\ Frames(stack') = Below \union N
    BY <1>1, <1>8 DEF Inv
  <2> HIDE DEF N, E
  <2>3. \A u \in Work : u.entry \in FileEntries =>
          u \in Work' \/ (u.index = Top.index /\ u.entry \in E)
    BY <2>1, <2>2, WorkLeft
  <2>. QED BY <2>3 DEF E
<1>10. IsFiniteSet(DOMAIN items') /\ KeptItems(items, items')
  BY <1>1, ItemsFinite DEF Inv, KeptItems
<1>11. Keeps
  <2>1. ASSUME NEW d, NEW x, NEW want \in SUBSET FileEntries, IsFiniteSet(want),
               Settled(d, x, want, Work, indexes, items)
        PROVE  Settled(d, x, want, Work', indexes', items')
    <3>1. PICK ix \in DOMAIN indexes : SettledBy(ix, d, x, want, Work, indexes, items)
      BY <2>1 DEF Settled
    <3>2. ix \in DOMAIN indexes' /\ indexes'[ix] = indexes[ix] /\ ix # new
      BY <1>3, <1>4, <3>1
    <3>3. \A t \in Work' : t.index = ix => t \in Work
      BY <1>5, <1>6, <3>2
    <3>4. \A t \in Work : t.index = ix /\ t.entry \in FileEntries => t \in Work'
      BY <1>9
    <3>5. SettledBy(ix, d, x, want, Work', indexes', items')
      BY <1>10, <2>1, <3>1, <3>2, <3>3, <3>4, SettledKept
    <3>. QED BY <3>2, <3>5 DEF Settled
  <2>. QED BY <2>1 DEF Keeps
<1>12. ASSUME NEW e \in Here(Top, folders), NEW x \in Wanted(Source(e), ch)
       PROVE  Settled(folderMap[e], x, Wanted(Source(e), ch), Work', indexes', items')
  <2> DEFINE want == Wanted(Source(e), ch)
  <2>1. /\ Top \in Frames(stack) /\ FrameOK(Top, folders, ch)
    BY <1>1, TopInFrames DEF Inv, ShapeInv, FramesOK
  <2>2. Source(e) = Top.src /\ Top.dest # Nothing /\ e = folders[Top.dest].key
    BY <2>1, HereIs DEF Here, Keys
  <2>3. folderMap[e] = Top.dest
    <3>1. Top.dest \in Targets
      BY <2>1, TargetIs DEF Spots
    <3>. QED BY <2>2, <3>1 DEF MapsInv, TargetsOK
  <2>4. \A t \in Work' : t.index = new => t.dest = folderMap[e]
    BY <1>4, <1>5, <1>6, <1>7, <2>3
  <2>5. ASSUME NEW g \in Past(Work', new, x, want) PROVE FALSE
    <3>1. g \in want /\ \A t \in Work' : t.index = new => t.entry # g
      BY <2>5 DEF Past, Alike
    <3>2. g \in Entries(f.todo)
      BY <1>1, <1>2, <2>2, <3>1 DEF FullOK, Wanted
    <3> DEFINE t == [entry |-> g, dest |-> f.dest, index |-> f.index]
    <3>3. t \in LevelWork(f) /\ t.index = new /\ t.entry = g
      BY <1>2, <3>2, LevelWorkIs
    <3> HIDE DEF t
    <3>4. f \in Loops(Frames(stack'))
      BY <1>2, <1>8 DEF Loops
    <3>5. t \in Work'
      BY <3>3, <3>4, WorkIs
    <3>. QED BY <3>1, <3>3, <3>5
  <2>6. Cardinality(Past(Work', new, x, want)) = 0
    <3>1. Past(Work', new, x, want) = {}
      BY <2>5
    <3>. QED BY <3>1, FS_EmptySet
  <2>7. Cardinality(Used(folderMap[e], x, indexes'[new].rest, items')) \in Nat
    <3>1. Used(folderMap[e], x, indexes'[new].rest, items') \subseteq DOMAIN items'
      BY DEF Used
    <3>. QED BY <1>10, <3>1, NoMore
  <2> HIDE DEF want
  <2>8. SettledBy(new, folderMap[e], x, want, Work', indexes', items')
    <3>1. \A n \in Nat : 0 <= n
      OBVIOUS
    <3>2. Cardinality(Past(Work', new, x, want)) <=
            Cardinality(Used(folderMap[e], x, indexes'[new].rest, items'))
      BY <2>6, <2>7, <3>1
    <3>. QED BY <2>4, <3>2 DEF SettledBy
  <2>9. new \in DOMAIN indexes'
    BY <1>3, <1>4
  <2>. QED BY <2>8, <2>9 DEF Settled, want
<1>. QED BY <1>11, <1>12

-----------------------------------------------------------------------------
(* The cover, step by step                                                 *)

\* A step hands the cover over.
StepOver == \E N, X, Z :
  /\ Advance(N, X, Z, folders', done)
  /\ X \subseteq Standing(scenario.children)
  /\ \A e \in X : folderMap'[e] # Nothing /\ folders'[folderMap'[e]].live
  /\ \A e \in Z : \A x \in Wanted(Source(e), scenario.children) :
       Settled(folderMap'[e], x, Wanted(Source(e), scenario.children),
               Work', indexes', items')

LEMMA AdvanceKeeps ==
  ASSUME Inv, Inv', stack # <<>>, NEW N, NEW X, NEW Z, NEW fs, NEW dn,
         Advance(N, X, Z, fs, dn), Carried(N, {}), jobs \subseteq jobs',
         Work' \subseteq Work, UNCHANGED <<indexes, items>>
  PROVE  Keeps
<1> DEFINE E == {}
<1>1. WalkInv /\ Frames(stack') = Below \union N /\ Carried(N, E)
  BY DEF Inv, Advance
<1> HIDE DEF E
<1>2. \A u \in Work : u.entry \in FileEntries =>
        u \in Work' \/ (u.index = Top.index /\ u.entry \in E)
  BY <1>1, WorkLeft
<1>3. \A u \in Work : u.entry \in FileEntries => u \in Work'
  BY <1>2 DEF E
<1>. QED BY <1>3, QuietKeeps

\* A level that has no files before it has none to carry on.
LEMMA NoneCarried ==
  ASSUME NEW N, Top.stage # "loop" \/ Top.todo = <<>>
  PROVE  Carried(N, {})
<1>1. Entries(<<>>) = {}
  BY EmptySeq DEF Entries
<1>. QED BY <1>1 DEF Carried

LEMMA ListOver ==
  ASSUME Inv, Inv', ShapeInv, MapsInv, ~opt.dry, listErrs' = {}, Work' \subseteq Work,
         FullOK(Top, scenario.children), LineOK(stack, folders, scenario.children),
         ListFolder \/ Descend \/ BatchedList \/ (LeaveLevel /\ ~stop)
  PROVE  Keeps /\ StepOver
<1> DEFINE ch == scenario.children
<1>1. /\ stack # <<>> /\ UNCHANGED <<folders, items, jobs, indexes, folderMap>>
      /\ Top.stage # "loop" \/ Top.todo = <<>>
  BY DEF ListFolder, Descend, BatchedList, LeaveLevel, driveVars
<1>2. \E N, Z : /\ Advance(N, {}, Z, folders, done)
                /\ \A e \in Z : Wanted(Source(e), ch) = {}
  <2>1. CASE ListFolder
    BY <2>1, ListHands
  <2>2. CASE Descend
    BY <2>2, DescendHands
  <2>3. CASE BatchedList
    BY <2>3, BatchHands
  <2>4. CASE LeaveLevel /\ ~stop
    BY <2>4, LeaveHands
  <2>. QED BY <2>1, <2>2, <2>3, <2>4
<1>3. PICK N, Z : /\ Advance(N, {}, Z, folders, done)
                  /\ \A e \in Z : Wanted(Source(e), ch) = {}
  BY <1>2
<1>4. Keeps
  <2>1. Carried(N, {}) /\ jobs \subseteq jobs'
    BY <1>1, NoneCarried
  <2>. QED BY <1>1, <1>3, <2>1, AdvanceKeeps
<1>5. StepOver
  <2>1. Advance(N, {}, Z, folders', done)
    BY <1>1, <1>3
  <2>. QED BY <1>3, <2>1 DEF StepOver
<1>. QED BY <1>4, <1>5

LEMMA BuildOver ==
  ASSUME Inv, Inv', ShapeInv, MapsInv, BuildIndex,
         FullOK(Top, scenario.children), LineOK(stack, folders, scenario.children)
  PROVE  Keeps /\ StepOver
<1>1. UNCHANGED <<folders, folderMap>>
  BY DEF BuildIndex, driveVars
<1>2. PICK f : /\ BegunAs(f) /\ SetTop(f)
               /\ Advance({f}, {}, Here(Top, folders), folders, done)
  BY BuildHands
<1>3. /\ Keeps
      /\ \A e \in Here(Top, folders) : \A x \in Wanted(Source(e), scenario.children) :
           Settled(folderMap[e], x, Wanted(Source(e), scenario.children),
                   Work', indexes', items')
  BY <1>2, BuildKeeps
<1>4. Advance({f}, {}, Here(Top, folders), folders', done) /\ folderMap' = folderMap
  BY <1>1, <1>2
<1>. QED BY <1>3, <1>4 DEF StepOver

LEMMA EnterOver ==
  ASSUME Inv, Inv', ShapeInv, RootInv, MapsInv, ~opt.dry, Work' \subseteq Work,
         NEW e \in Ids, EnterFolder(e), LineOK(stack, folders', scenario.children)
  PROVE  Keeps /\ StepOver
<1>1. stack # <<>> /\ UNCHANGED <<items, indexes>> /\ jobs \subseteq jobs'
  BY DEF EnterFolder, Enters, AtEntry
<1>2. PICK N : Advance(N, {e}, {}, folders', done) /\ Carried(N, {})
  BY EnterHands
<1>3. Keeps
  BY <1>1, <1>2, AdvanceKeeps
<1>4. /\ e \in Standing(scenario.children)
      /\ folderMap'[e] # Nothing /\ folders'[folderMap'[e]].live
  BY EnterHands
<1>. QED BY <1>2, <1>3, <1>4 DEF StepOver

\* The entries that are not entered.
LEMMA NextOver ==
  ASSUME Inv, ShapeInv, NEW e, AtEntry(e), SetTop(Next1),
         LineOK(stack, folders', scenario.children),
         \A k \in Here(Top, folders') : Follows(k, e, scenario.children) => e \in done
  PROVE  StepOver
<1>1. Advance({Next1}, {}, {}, folders', done)
  BY NextHands
<1>. QED BY <1>1 DEF StepOver

LEMMA NextKeeps ==
  ASSUME Inv, Inv', ShapeInv, NEW e, AtEntry(e), SetTop(Next1), jobs \subseteq jobs',
         e \in FileEntries => [entry |-> e, dest |-> Top.dest, index |-> Top.index] \in jobs',
         Work' \subseteq Work, UNCHANGED <<indexes, items>>
  PROVE  Keeps
<1> DEFINE E == {}
<1>1. e \in FileEntries => \/ e \in E
                           \/ [entry |-> e, dest |-> Top.dest, index |-> Top.index] \in jobs'
  OBVIOUS
<1> HIDE DEF E
<1>2. \A u \in Work : u.entry \in FileEntries =>
        u \in Work' \/ (u.index = Top.index /\ u.entry \in E)
  BY <1>1, NextLeft
<1>3. \A u \in Work : u.entry \in FileEntries => u \in Work'
  BY <1>2 DEF E
<1>. QED BY <1>3, QuietKeeps

LEMMA FileFollowsNone ==
  ASSUME NEW ch, NEW e \in FileEntries
  PROVE  \A k : ~Follows(k, e, ch)
<1>1. e \notin FolderEntries
  BY IdAssumption DEF FolderEntries, FileEntries
<1>. QED BY <1>1, FollowsIs

LEMMA SkipOver ==
  ASSUME Inv, Inv', ShapeInv, RootInv, MapsInv, OneWayDown(scenario.children), ~opt.dry,
         Work' \subseteq Work, NEW e \in Ids,
         SubmitFile(e) \/ LoopSkipped(e) \/ SkipComplete(e),
         LineOK(stack, folders, scenario.children),
         \A f \in Frames(stack) : Here(f, folders) \subseteq Standing(scenario.children)
  PROVE  Keeps /\ StepOver
<1> DEFINE ch == scenario.children
<1>1. /\ AtEntry(e) /\ SetTop(Next1) /\ UNCHANGED <<folders, items, indexes>>
      /\ phase = "walk" /\ stack # <<>>
  BY DEF SubmitFile, LoopSkipped, SkipComplete, driveVars, AtEntry
<1>2. CASE SubmitFile(e)
  <2>1. /\ e \in FileEntries /\ jobs \subseteq jobs'
        /\ [entry |-> e, dest |-> Top.dest, index |-> Top.index] \in jobs'
    BY <1>2, EntryFacts DEF SubmitFile
  <2>2. Keeps
    BY <1>1, <2>1, NextKeeps
  <2>3. \A k : ~Follows(k, e, ch)
    BY <2>1, FileFollowsNone
  <2>4. StepOver
    BY <1>1, <2>3, NextOver
  <2>. QED BY <2>2, <2>4
<1>3. CASE LoopSkipped(e) \/ SkipComplete(e)
  <2>1. e \in FolderEntries /\ jobs' = jobs
    BY <1>3 DEF LoopSkipped, SkipComplete
  <2>2. e \notin FileEntries
    BY <2>1, IdAssumption DEF FolderEntries, FileEntries
  <2>3. Keeps
    BY <1>1, <2>1, <2>2, NextKeeps
  <2>4. ASSUME NEW k \in Here(Top, folders), Follows(k, e, ch)
        PROVE  e \in done
    <3>1. Source(e) \notin Visited
      BY <1>1, <2>4, PathIsWay
    <3>. QED BY <1>3, <3>1 DEF LoopSkipped, SkipComplete, Skippable
  <2>5. folders' = folders
    BY <1>1
  <2>6. StepOver
    BY <1>1, <2>4, <2>5, NextOver
  <2>. QED BY <2>3, <2>6
<1>. QED BY <1>2, <1>3

LEMMA LineGrown ==
  ASSUME NEW s, NEW fs, NEW gs, Grown(fs, gs), NEW ch,
         \A i \in DOMAIN s : FrameOK(s[i], fs, ch), LineOK(s, fs, ch)
  PROVE  LineOK(s, gs, ch)
<1>1. \A i \in DOMAIN s : Here(s[i], gs) = Here(s[i], fs) /\ Put(s[i], gs) = Put(s[i], fs)
  BY FrameKept
<1>. QED BY <1>1 DEF LineOK

\* Making folders leaves the cover as it is.
LEMMA CoverStays ==
  ASSUME Inv, Inv', ShapeInv, RootInv, MapsInv, Unmistaken, [Next]_vars, ~UserTrash,
         folderMap' = folderMap \/ \E e \in Ids : EnterFolder(e),
         NEW V, CoverAt(V, Frames(stack), folders, folderMap, done, scenario.children),
         FilesAt(V, Frames(stack), folders, folderMap, Work, indexes, items,
                 scenario.children)
  PROVE  /\ CoverAt(V, Frames(stack), folders', folderMap', done, scenario.children)
         /\ FilesAt(V, Frames(stack), folders', folderMap', Work, indexes, items,
                    scenario.children)
<1>1. Grown(folders, folders') /\ \A f \in Frames(stack) : FrameOK(f, folders, scenario.children)
  BY StepGrows DEF ShapeInv, FramesOK
<1>2. ASSUME NEW e \in V
      PROVE  folderMap'[e] = folderMap[e] /\ folders'[folderMap[e]].live
  <2>1. /\ e \in FolderEntries /\ folderMap[e] # Nothing /\ folders[folderMap[e]].live
    BY StandingIn DEF CoverAt
  <2>2. folderMap[e] \in DOMAIN folders
    BY <2>1 DEF MapsInv, MapOK
  <2>3. folders'[folderMap[e]].live
    BY <2>1, <2>2, FoldersStay
  <2>4. folderMap'[e] = folderMap[e]
    BY <2>1, MapKnows
  <2>. QED BY <2>3, <2>4
<1>. QED BY <1>1, <1>2, CoverGrown

LEMMA CoverMoves ==
  ASSUME Inv, scenario \in Scenarios, stack # <<>> \/ stack' = stack, Keeps,
         stack' = stack \/ StepOver, done' = done,
         NEW V, CoverAt(V, Frames(stack), folders', folderMap', done, scenario.children),
         FilesAt(V, Frames(stack), folders', folderMap', Work, indexes, items,
                 scenario.children),
         LineOK(stack, folders', scenario.children)
  PROVE  /\ LineOK(stack', folders', scenario.children)
         /\ \E W : /\ CoverAt(W, Frames(stack'), folders', folderMap', done',
                              scenario.children)
                   /\ FilesAt(W, Frames(stack'), folders', folderMap', Work', indexes',
                              items', scenario.children)
<1> DEFINE ch == scenario.children
           F == Frames(stack)
           G == Frames(stack')
<1>1. \A f \in F : FullOK(f, ch)
  BY DEF CoverAt
<1>2. ASSUME NEW X, NEW Z, HandsOver(F, G, folders', X, Z, done, ch),
             X \subseteq Standing(ch),
             \A e \in X : folderMap'[e] # Nothing /\ folders'[folderMap'[e]].live,
             \A e \in Z : \A x \in Wanted(Source(e), ch) :
               Settled(folderMap'[e], x, Wanted(Source(e), ch), Work', indexes', items')
      PROVE  /\ CoverAt(V \union X, G, folders', folderMap', done', ch)
             /\ FilesAt(V \union X, G, folders', folderMap', Work', indexes', items', ch)
  <2>1. CoverAt(V \union X, G, folders', folderMap', done', ch)
    BY <1>2, CoverOver
  <2>2. ASSUME NEW e \in V, NEW x \in Wanted(Source(e), ch),
               Settled(folderMap'[e], x, Wanted(Source(e), ch), Work, indexes, items)
        PROVE  Settled(folderMap'[e], x, Wanted(Source(e), ch), Work', indexes', items')
    <3>1. Source(e) \in Folders
      BY StandingIn, EntryFacts DEF CoverAt
    <3>2. IsFiniteSet(Wanted(Source(e), ch)) /\ Wanted(Source(e), ch) \in SUBSET FileEntries
      BY <3>1, WantedFinite DEF Wanted
    <3>. QED BY <2>2, <3>2 DEF Keeps
  <2>3. FilesAt(V \union X, G, folders', folderMap', Work', indexes', items', ch)
    BY <1>2, <2>2, FilesOver
  <2>. QED BY <2>1, <2>3
<1>3. CASE stack' = stack
  <2>1. HandsOver(F, G, folders', {}, {}, done, ch)
    BY <1>1, <1>3, HandsSame
  <2>2. /\ CoverAt(V \union {}, G, folders', folderMap', done', ch)
        /\ FilesAt(V \union {}, G, folders', folderMap', Work', indexes', items', ch)
    BY <1>2, <2>1
  <2>. QED BY <1>3, <2>2
<1>4. CASE stack # <<>> /\ StepOver
  <2>1. PICK N, X, Z :
          /\ Advance(N, X, Z, folders', done)
          /\ X \subseteq Standing(ch)
          /\ \A e \in X : folderMap'[e] # Nothing /\ folders'[folderMap'[e]].live
          /\ \A e \in Z : \A x \in Wanted(Source(e), ch) :
               Settled(folderMap'[e], x, Wanted(Source(e), ch), Work', indexes', items')
    BY <1>4 DEF StepOver
  <2>2. F = Below \union {Top} /\ G = Below \union N
    BY <1>4, <2>1, SplitStack DEF Inv, Advance
  <2>3. HandsOver({Top}, N, folders', X, Z, done, ch)
    BY <2>1 DEF Advance
  <2>4. \A f \in Below : FullOK(f, ch)
    BY <1>1, <2>2
  <2>5. HandsOver(F, G, folders', X, Z, done, ch)
    <3>1. HandsOver(Below \union {Top}, Below \union N, folders', X, Z, done, ch)
      BY <2>3, <2>4, HandsTop
    <3> HIDE DEF F, G
    <3>. QED BY <2>2, <3>1
  <2>6. /\ CoverAt(V \union X, G, folders', folderMap', done', ch)
        /\ FilesAt(V \union X, G, folders', folderMap', Work', indexes', items', ch)
    BY <1>2, <2>1, <2>5
  <2>. QED BY <2>1, <2>6 DEF Advance
<1>. QED BY <1>3, <1>4

LEMMA CoverOpen ==
  ASSUME Inv, MapsInv', OpenRoot, Clean', scenario' = scenario
  PROVE  CoverInv'
<1> DEFINE ch == scenario.children
<1>1. PICK d : OpenedAs(d)
  BY OpenIs
<1> DEFINE f == NewFrame(Root, d, "list", <<>>)
<1>2. /\ stack' = <<f>> /\ f.src = Root /\ f.dest = d /\ f.stage = "list"
      /\ f.pending = <<>>
  BY <1>1 DEF OpenedAs, NewFrame
<1> HIDE DEF f
<1>3. Frames(stack') = {f} /\ DOMAIN stack' = {1} /\ stack'[1] = f
  BY <1>2 DEF Frames, Entries
<1>4. d \in Targets'
  BY <1>2, <1>3, TargetIs DEF Spots
<1>5. d # Nothing /\ folders'[d].key = Root
  BY <1>1, <1>4 DEF MapsInv, Clean, OpenedAs
<1>6. folders'[d].live /\ folderMap'[Root] = d
  BY <1>4, <1>5 DEF MapsInv, TargetsOK
<1>7. /\ Here(f, folders') = {Root} /\ Put(f, folders') = {} /\ FullOK(f, ch)
      /\ Offers(f, ch) = Among(ch, Root)
  BY <1>2, <1>5, EmptySeq DEF Here, Keys, Put, FullOK, Offers
<1>8. Source(Root) = Root
  BY RootAssumption, IdAssumption DEF Source
<1>9. \A x : Follows(Root, x, ch) => DueIn({f}, folders', Root, x, ch)
  BY <1>7, <1>8, FollowsIs DEF DueIn
<1>10. CoverAt({Root}, Frames(stack'), folders', folderMap', done', ch)
  BY <1>3, <1>5, <1>6, <1>7, <1>9 DEF CoverAt, Standing
<1>11. FilesAt({Root}, Frames(stack'), folders', folderMap', Work', indexes', items', ch)
  BY <1>2, <1>3, <1>7 DEF FilesAt, EarlyIn
<1>12. LineOK(stack', folders', ch)
  BY <1>3, <1>7 DEF LineOK
<1>. QED BY <1>10, <1>11, <1>12 DEF CoverInv

LEMMA CoverNext ==
  ASSUME ModesTell, OneWayDown(scenario.children), Unmistaken, Reached, Reached', CoverInv,
         [Next]_vars, scenario' = scenario
  PROVE  CoverInv'
<1> DEFINE ch == scenario.children
<1>1. SUFFICES ASSUME Clean' PROVE CoverInv'
  BY DEF CoverInv
<1>2. /\ Inv /\ Inv' /\ ShapeInv /\ RootInv /\ MapsInv /\ MapsInv' /\ LedgerInv /\ IndexInv
      /\ scenario \in Scenarios
  BY DEF Reached, AheadInv, Inv, RunInv
<1>3. CASE OpenRoot
  BY <1>1, <1>2, <1>3, CoverOpen
<1>4. CASE ~OpenRoot
  <2>1. /\ Clean /\ UNCHANGED <<opt, done>>
        /\ \/ UNCHANGED vars \/ RunJob
           \/ ListFolder \/ BuildIndex \/ BatchedList \/ Descend \/ LeaveLevel
           \/ \E e \in Ids : \/ SubmitFile(e) \/ CopyInline(e) \/ LoopSkipped(e)
                             \/ SkipComplete(e) \/ EnterFolder(e)
    BY <1>1, <1>2, <1>4, CleanSteps
  <2>2. /\ phase = "walk" /\ ~opt.dry /\ ~stop /\ failed' = {} /\ listErrs' = {}
        /\ phase' = "walk"
    BY <1>1, <2>1 DEF Clean
  <2>3. PICK V : /\ CoverAt(V, Frames(stack), folders, folderMap, done, ch)
                 /\ FilesAt(V, Frames(stack), folders, folderMap, Work, indexes, items, ch)
    BY <2>1 DEF CoverInv
  <2>4. /\ LineOK(stack, folders, ch) /\ LineOK(stack, folders', ch)
    <3>1. LineOK(stack, folders, ch)
      BY <2>1 DEF CoverInv
    <3>2. Grown(folders, folders')
      BY <1>2, StepGrows
    <3>3. \A i \in DOMAIN stack : FrameOK(stack[i], folders, ch)
      BY <1>2 DEF ShapeInv, FramesOK, Frames, Entries
    <3>. QED BY <3>1, <3>2, <3>3, LineGrown
  <2>5. /\ \A f \in Frames(stack) : FullOK(f, ch) /\ Here(f, folders) \subseteq Standing(ch)
    BY <2>3 DEF CoverAt
  <2>6. stack # <<>> => FullOK(Top, ch)
    BY <1>2, <2>5, TopInFrames DEF Inv
  <2>7. folderMap' = folderMap \/ \E e \in Ids : EnterFolder(e)
    BY <2>1 DEF vars, RunJob, CopyFile, ListFolder, BuildIndex, BatchedList, Descend,
                LeaveLevel, SubmitFile, CopyInline, LoopSkipped, SkipComplete
  <2>8. ~UserTrash
    BY <2>2 DEF UserTrash
  <2>9. /\ CoverAt(V, Frames(stack), folders', folderMap', done, ch)
        /\ FilesAt(V, Frames(stack), folders', folderMap', Work, indexes, items, ch)
    BY <1>2, <2>3, <2>7, <2>8, CoverStays
  <2>10. Keeps /\ (stack' = stack \/ (stack # <<>> /\ StepOver))
    <3>1. CASE BuildIndex
      <4>1. stack # <<>>
        BY <3>1 DEF BuildIndex
      <4>. QED BY <1>2, <2>4, <2>6, <3>1, <4>1, BuildOver
    <3>2. CASE ~BuildIndex
      <4>1. Work' \subseteq Work
        BY <1>2, <3>2, ShapeNext
      <4>2. CASE UNCHANGED vars
        <5>1. UNCHANGED <<stack, jobs, indexes, items>>
          BY <4>2 DEF vars, walkVars, driveVars
        <5>2. \A u \in Work : u \in Work'
          BY <5>1, WorkIs
        <5>. QED BY <1>2, <4>1, <5>1, <5>2, QuietKeeps
      <4>3. CASE RunJob
        <5>1. \E t : DoneWith(t) /\ LeftBy(t)
          BY <1>2, <4>3, JobLeft
        <5>2. stack' = stack
          BY <4>3 DEF RunJob
        <5>. QED BY <1>2, <2>2, <4>1, <5>1, <5>2, DoneKeeps
      <4>4. CASE ListFolder \/ Descend \/ BatchedList \/ LeaveLevel
        <5>1. stack # <<>>
          BY <4>4 DEF ListFolder, Descend, BatchedList, LeaveLevel
        <5>. QED BY <1>2, <2>2, <2>4, <2>6, <4>1, <4>4, <5>1, ListOver
      <4>5. ASSUME NEW e \in Ids, SubmitFile(e) \/ LoopSkipped(e) \/ SkipComplete(e)
            PROVE  Keeps /\ stack # <<>> /\ StepOver
        <5>1. stack # <<>>
          BY <4>5 DEF SubmitFile, LoopSkipped, SkipComplete, AtEntry
        <5>. QED BY <1>2, <2>2, <2>4, <2>5, <4>1, <4>5, <5>1, SkipOver
      <4>6. ASSUME NEW e \in Ids, CopyInline(e)
            PROVE  Keeps /\ stack # <<>> /\ StepOver
        <5>1. \E t : DoneWith(t) /\ LeftBy(t)
          BY <1>2, <4>6, InlineLeft
        <5>2. Keeps
          BY <1>2, <2>2, <4>1, <5>1, DoneKeeps
        <5>3. AtEntry(e) /\ SetTop(Next1) /\ e \in FileEntries /\ stack # <<>>
          BY <4>6 DEF CopyInline, AtEntry
        <5>4. \A k : ~Follows(k, e, ch)
          BY <5>3, FileFollowsNone
        <5>5. StepOver
          BY <1>2, <2>4, <5>3, <5>4, NextOver
        <5>. QED BY <5>2, <5>3, <5>5
      <4>7. ASSUME NEW e \in Ids, EnterFolder(e)
            PROVE  Keeps /\ stack # <<>> /\ StepOver
        <5>1. stack # <<>>
          BY <4>7 DEF EnterFolder, Enters, AtEntry
        <5>. QED BY <1>2, <2>2, <2>4, <4>1, <4>7, <5>1, EnterOver
      <4>. QED BY <2>1, <3>2, <4>2, <4>3, <4>4, <4>5, <4>6, <4>7
    <3>. QED BY <3>1, <3>2
  <2>11. /\ LineOK(stack', folders', ch)
         /\ \E W : /\ CoverAt(W, Frames(stack'), folders', folderMap', done', ch)
                   /\ FilesAt(W, Frames(stack'), folders', folderMap', Work', indexes', items', ch)
    BY <1>2, <2>1, <2>4, <2>9, <2>10, CoverMoves
  <2>. QED BY <2>11 DEF CoverInv
<1>. QED BY <1>3, <1>4
-----------------------------------------------------------------------------
(* A run that has had no failure has left nothing out                      *)

\* Filled, of any folders and items.
HoldsAt(d, e, fs, its, ch) ==
  Cardinality({i \in DOMAIN its : its[i].live /\ its[i].folder = d /\ Index!Same(its[i].of, e)})
  >= Cardinality(Alike(Wanted(Source(fs[d].key), ch), e))
FilledAt(p, fs, its, ch) ==
  LET n == Len(p)
  IN  IF p[n] \in FolderEntries THEN StandAt(p, n, fs) # {}
      ELSE \E d \in StandAt(p, n - 1, fs) : HoldsAt(d, p[n], fs, its, ch)

LEMMA HoldsIs ==
  ASSUME NEW d, NEW e
  PROVE  /\ Holds(d, e) <=> HoldsAt(d, e, folders, items, scenario.children)
         /\ Holds(d, e)' <=> HoldsAt(d, e, folders', items', scenario'.children)
<1>1. /\ {i \in ItemsIn(d) : Index!Same(items[i].of, e)} =
           {i \in DOMAIN items : items[i].live /\ items[i].folder = d /\ Index!Same(items[i].of, e)}
      /\ {f \in ChildSet(Source(folders[d].key)) \intersect FileEntries : Index!Same(f, e)} =
           Alike(Wanted(Source(folders[d].key), scenario.children), e)
  BY DEF ItemsIn, ChildSet, Children, Among, Wanted, Alike
<1>2. /\ {i \in ItemsIn(d)' : Index!Same(items'[i].of, e)} =
           {i \in DOMAIN items' : items'[i].live /\ items'[i].folder = d /\ Index!Same(items'[i].of, e)}
      /\ {f \in ChildSet(Source(folders[d].key))' \intersect FileEntries : Index!Same(f, e)} =
           Alike(Wanted(Source(folders'[d].key), scenario'.children), e)
  BY DEF ItemsIn, ChildSet, Children, Among, Wanted, Alike
<1>. QED BY <1>1, <1>2 DEF Holds, HoldsAt

LEMMA FilledIs ==
  ASSUME NEW p
  PROVE  /\ Filled(p) <=> FilledAt(p, folders, items, scenario.children)
         /\ Filled(p)' <=> FilledAt(p, folders', items', scenario'.children)
BY HoldsIs, FoldersAtIs DEF Filled, FilledAt

\* Each folder on a way, but for those completed before, has been come to.
LEMMA WayCovered ==
  ASSUME NEW V, NEW fs, NEW map, NEW dn, NEW ch, CoverAt(V, {}, fs, map, dn, ch),
         NEW p, WayOK(p, ch), \A i \in 1..Len(p) : p[i] \notin dn
  PROVE  \A i \in 1..Len(p) : p[i] \in FolderEntries => p[i] \in V
<1>1. Len(p) \in Nat /\ p[1] = Root /\ Root \in V
  BY DEF WayOK, CoverAt
<1>2. \A e \in V : \A x : Follows(e, x, ch) => x \in V \/ x \in dn
  BY DEF CoverAt, DueIn
<1> DEFINE T == {m \in Nat : \A i \in 1..Len(p) : i <= m /\ p[i] \in FolderEntries => p[i] \in V}
<1>3. 0 \in T
  OBVIOUS
<1>4. ASSUME NEW m \in Nat, m \in T PROVE m + 1 \in T
  <2>1. SUFFICES ASSUME m + 1 \in 1..Len(p), p[m + 1] \in FolderEntries
                 PROVE  p[m + 1] \in V
    BY <1>4
  <2>2. CASE m = 0
    BY <1>1, <2>2
  <2>3. CASE m # 0
    <3>1. m \in 1..(Len(p) - 1) /\ m \in 1..Len(p)
      BY <1>1, <2>1, <2>3
    <3>2. p[m] \in FolderEntries /\ p[m] \in V
      BY <1>4, <3>1 DEF WayOK
    <3>3. Follows(p[m], p[m + 1], ch)
      BY <2>1, <3>1 DEF Follows
    <3>. QED BY <1>2, <2>1, <3>2, <3>3
  <2>. QED BY <2>2, <2>3
<1>5. Len(p) \in T
  <2> HIDE DEF T
  <2>. QED BY <1>1, <1>3, <1>4, Induct
<1>. QED BY <1>1, <1>5

\* A folder whose files have all been done with has copies of them.
LEMMA SettledHolds ==
  ASSUME Inv, NEW d \in DOMAIN folders, folders[d].key \in FolderEntries,
         NEW x \in Wanted(Source(folders[d].key), scenario.children),
         Settled(d, x, Wanted(Source(folders[d].key), scenario.children), {}, indexes, items)
  PROVE  HoldsAt(d, x, folders, items, scenario.children)
<1> DEFINE want == Wanted(Source(folders[d].key), scenario.children)
           none == {}
           I == {i \in DOMAIN items : items[i].live /\ items[i].folder = d
                                      /\ Index!Same(items[i].of, x)}
<1>1. Settled(d, x, want, none, indexes, items)
  OBVIOUS
<1>2. \A t : t \notin none
  OBVIOUS
<1>3. IsFiniteSet(want)
  BY EntryFacts, WantedFinite DEF Inv, RunInv
<1> HIDE DEF none, want
<1>4. PICK ix \in DOMAIN indexes : SettledBy(ix, d, x, want, none, indexes, items)
  BY <1>1 DEF Settled
<1>5. Past(none, ix, x, want) = Alike(want, x)
  BY <1>2 DEF Past
<1>6. Cardinality(Alike(want, x)) <= Cardinality(Used(d, x, indexes[ix].rest, items))
  BY <1>4, <1>5 DEF SettledBy
<1>7. IsFiniteSet(I)
  BY ItemsFinite, FS_Subset DEF Inv
<1>8. Used(d, x, indexes[ix].rest, items) \subseteq I
  BY DEF Used
<1>9. IsFiniteSet(Alike(want, x)) /\ Cardinality(Alike(want, x)) \in Nat
  BY <1>3, FS_Subset, FS_CardinalityType DEF Alike
<1> HIDE DEF I
<1>10. /\ Cardinality(Used(d, x, indexes[ix].rest, items)) <= Cardinality(I)
       /\ Cardinality(Used(d, x, indexes[ix].rest, items)) \in Nat /\ Cardinality(I) \in Nat
  BY <1>7, <1>8, NoMore
<1>11. Cardinality(I) >= Cardinality(Alike(want, x))
  BY <1>6, <1>9, <1>10
<1>. QED BY <1>11 DEF HoldsAt, I, want

LEMMA NothingLeft ==
  ASSUME Reached, CoverInv, SkipsTell, OneWayDown(scenario.children), Clean,
         stack = <<>>, jobs = {}
  PROVE  Missing = {}
<1> DEFINE ch == scenario.children
           F == Frames(stack)
<1>1. /\ Inv /\ MapsInv /\ MirrorInv /\ scenario \in Scenarios
      /\ TreeOK(folders) /\ MapOK(folderMap, droot, folders, ch)
  BY DEF Reached, Inv, RunInv, MapsInv
<1>2. SUFFICES ASSUME NEW p \in Missing PROVE FALSE
  OBVIOUS
<1>3. WayOK(p, ch) /\ ~FilledAt(p, folders, items, ch) /\ Len(p) \in Nat /\ Len(p) # 0
      /\ DOMAIN p = 1..Len(p)
  <2>1. WayOK(p, ch) /\ ~FilledAt(p, folders, items, ch)
    BY <1>1, WaysAre, FilledIs DEF Missing
  <2>. QED BY <2>1, LenProperties DEF WayOK
<1>4. \A i \in 1..Len(p) : p[i] \notin done
  <2>1. CompletedIsMirrored
    BY <1>1, NothingDoneMissing
  <2>2. done \subseteq Known
    BY DEF Known, Clean
  <2>. QED BY <1>3, <2>1, <2>2 DEF CompletedIsMirrored
<1>5. F = {}
  BY EmptySeq DEF Frames, Entries
<1>6. Work = {}
  BY <1>5, WorkIs DEF Loops
<1>7. PICK V : CoverAt(V, {}, folders, folderMap, done, ch)
               /\ FilesAt(V, {}, folders, folderMap, {}, indexes, items, ch)
  BY <1>5, <1>6 DEF CoverInv
<1>8. ASSUME NEW i \in 1..Len(p), p[i] \in FolderEntries
      PROVE  /\ p[i] \in V /\ folderMap[p[i]] \in StandAt(p, i, folders)
             /\ folderMap[p[i]] \in DOMAIN folders /\ folders[folderMap[p[i]]].key = p[i]
  <2>1. p[i] \in V
    BY <1>3, <1>4, <1>7, <1>8, WayCovered
  <2>2. folderMap[p[i]] # Nothing /\ folders[folderMap[p[i]]].live
    BY <1>7, <2>1 DEF CoverAt
  <2>3. folderMap[p[i]] \in StandAt(p, i, folders)
    BY <1>1, <1>3, <1>8, <2>2, WayMapped
  <2>. QED BY <1>1, <1>8, <2>1, <2>2, <2>3 DEF MapOK
<1>9. Len(p) \in 1..Len(p)
  BY <1>3
<1>10. CASE p[Len(p)] \in FolderEntries
  BY <1>3, <1>8, <1>9, <1>10 DEF FilledAt
<1>11. CASE p[Len(p)] \notin FolderEntries
  <2> DEFINE n == Len(p)
             e == p[n - 1]
             d == folderMap[e]
             want == Wanted(Source(e), ch)
  <2>1. n # 1
    BY <1>3, <1>11, EntryFacts DEF WayOK
  <2>2. n - 1 \in 1..n /\ n - 1 \in 1..(n - 1) /\ n - 1 + 1 = n
    BY <1>3, <2>1
  <2>3. e \in FolderEntries /\ p[n] \in Among(ch, Source(e))
    BY <1>3, <2>2 DEF WayOK
  <2>4. p[n] \in Wanted(Source(e), ch)
    <3>1. p[n] \in Ids
      BY <1>3, <1>9, ElementOfSeq DEF WayOK
    <3>2. p[n] \in FileEntries
      BY <1>11, <3>1, TargetAssumption DEF FolderEntries, FileEntries, Source, Ids
    <3>. QED BY <2>3, <3>2 DEF Wanted
  <2>5. e \in V /\ d \in StandAt(p, n - 1, folders) /\ d \in DOMAIN folders /\ folders[d].key = e
    BY <1>8, <2>2, <2>3
  <2>6. Settled(d, p[n], want, {}, indexes, items)
    BY <1>7, <2>4, <2>5 DEF FilesAt, EarlyIn
  <2>7. HoldsAt(d, p[n], folders, items, ch)
    <3> HIDE DEF d, e, n
    <3>1. folders[d].key \in FolderEntries
      BY <2>3, <2>5
    <3>. QED BY <1>1, <2>4, <2>5, <2>6, <3>1, SettledHolds
  <2>. QED BY <1>3, <1>11, <2>5, <2>7 DEF FilledAt
<1>. QED BY <1>10, <1>11

-----------------------------------------------------------------------------
(* A place that is filled stays filled                                     *)

LEMMA FilledStays ==
  ASSUME NEW ch, NEW p, WayOK(p, ch), NEW fs, NEW gs, Kept(fs, gs),
         \A d \in DOMAIN fs : fs[d].live => gs[d].live,
         NEW its, NEW jts, IsFiniteSet(DOMAIN its), IsFiniteSet(DOMAIN jts), KeptItems(its, jts),
         FilledAt(p, fs, its, ch), \A f \in Folders : IsFiniteSet(Wanted(f, ch))
  PROVE  FilledAt(p, gs, jts, ch)
<1>1. Len(p) \in Nat /\ Len(p) # 0 /\ p[1] = Root
  BY DEF WayOK
<1>2. CASE p[Len(p)] \in FolderEntries
  BY <1>1, <1>2, StandsGrow DEF FilledAt
<1>3. CASE p[Len(p)] \notin FolderEntries
  <2>1. Len(p) # 1
    BY <1>1, <1>3, EntryFacts
  <2>2. PICK n \in Nat : n = Len(p) - 1 /\ n # 0 /\ n \in 1..n /\ n \in 1..(Len(p) - 1)
    <3>1. \A l \in Nat : l # 0 /\ l # 1 => l - 1 \in Nat /\ l - 1 # 0 /\ l - 1 \in 1..(l - 1)
      OBVIOUS
    <3>. QED BY <1>1, <2>1, <3>1, Zenon
  <2>3. PICK d \in StandAt(p, n, fs) : HoldsAt(d, p[Len(p)], fs, its, ch)
    BY <1>3, <2>2 DEF FilledAt
  <2>4. d \in StandAt(p, n, gs)
    BY <2>2, <2>3, StandsGrow
  <2>5. d \in DOMAIN fs /\ fs[d].key = p[n] /\ p[n] \in FolderEntries
    <3>1. PICK at : StandAt(p, n, fs) = at[n] /\ AtOK(at, p, n, fs)
      BY <2>2, StandsAre
    <3>. QED BY <2>2, <2>3, <3>1 DEF AtOK, WayOK
  <2>6. gs[d].key = fs[d].key
    BY <2>5 DEF Kept
  <2> DEFINE e == p[Len(p)]
             I == {i \in DOMAIN its : its[i].live /\ its[i].folder = d /\ Index!Same(its[i].of, e)}
             J == {i \in DOMAIN jts : jts[i].live /\ jts[i].folder = d /\ Index!Same(jts[i].of, e)}
             A == Alike(Wanted(Source(fs[d].key), ch), e)
  <2>7. I \subseteq J
    BY DEF KeptItems
  <2>8. IsFiniteSet(J)
    BY FS_Subset
  <2>9. Cardinality(I) >= Cardinality(A)
    BY <2>3 DEF HoldsAt
  <2>10. Cardinality(A) \in Nat
    <3>1. IsFiniteSet(Wanted(Source(fs[d].key), ch))
      BY <2>5, EntryFacts
    <3>. QED BY <3>1, FS_Subset, FS_CardinalityType DEF Alike
  <2> HIDE DEF I, J, A
  <2>11. Cardinality(I) <= Cardinality(J) /\ Cardinality(I) \in Nat /\ Cardinality(J) \in Nat
    BY <2>7, <2>8, NoMore
  <2>12. Cardinality(J) >= Cardinality(A)
    BY <2>9, <2>10, <2>11
  <2>13. HoldsAt(d, e, gs, jts, ch)
    BY <2>6, <2>12 DEF HoldsAt, J, A
  <2>. QED BY <1>3, <2>2, <2>4, <2>13 DEF FilledAt
<1>. QED BY <1>2, <1>3

\* Nothing comes to be missing but by the user.
LEMMA MissingShrinks ==
  ASSUME Inv, Inv', ShapeInv, MapsInv, [Next]_vars, ~UserTrash, scenario' = scenario
  PROVE  Missing' \subseteq Missing
<1> DEFINE ch == scenario.children
<1>1. scenario \in Scenarios /\ ListInv /\ ListInv'
  BY DEF Inv, RunInv
<1>2. \A p \in Ways[scenario] : WayOK(p, ch)
  BY <1>1, WaysAre
<1>3. Kept(folders, folders') /\ \A d \in DOMAIN folders : folders[d].live => folders'[d].live
  BY FoldersStay
<1>4. KeptItems(items, items')
  BY ItemsStay
<1>5. IsFiniteSet(DOMAIN items) /\ IsFiniteSet(DOMAIN items')
  <2>1. IsFiniteSet(DOMAIN items)
    BY <1>1, ItemsFinite
  <2>2. DOMAIN items' = 1..Len(items') /\ Len(items') \in Nat
    BY <1>1, LenProperties DEF ListInv
  <2>. QED BY <2>1, <2>2, FS_Interval
<1>6. \A f \in Folders : IsFiniteSet(Wanted(f, ch))
  BY <1>1, WantedFinite
<1>7. ASSUME NEW p \in Ways[scenario], Filled(p) PROVE Filled(p)'
  <2>1. WayOK(p, ch) /\ FilledAt(p, folders, items, ch)
    BY <1>2, <1>7, FilledIs
  <2>2. FilledAt(p, folders', items', ch)
    BY <1>3, <1>4, <1>5, <1>6, <2>1, FilledStays
  <2>. QED BY <2>2, FilledIs
<1>8. Missing' = {p \in Ways[scenario] : ~Filled(p)'}
  BY DEF Missing, Ways
<1>. QED BY <1>7, <1>8 DEF Missing

\* Where only logs change, what is missing does not.
LEMMA MissingSame ==
  ASSUME Inv, Inv', scenario' = scenario, items' = items,
         DOMAIN folders' = DOMAIN folders,
         \A d \in DOMAIN folders : /\ folders'[d].key = folders[d].key
                                   /\ folders'[d].live = folders[d].live
                                   /\ folders'[d].parent = folders[d].parent
  PROVE  Missing' = Missing
<1> DEFINE ch == scenario.children
<1>1. scenario \in Scenarios /\ ListInv
  BY DEF Inv, RunInv
<1>2. \A p \in Ways[scenario] : WayOK(p, ch)
  BY <1>1, WaysAre
<1>3. /\ Kept(folders, folders') /\ \A d \in DOMAIN folders : folders[d].live => folders'[d].live
      /\ Kept(folders', folders) /\ \A d \in DOMAIN folders' : folders'[d].live => folders[d].live
  BY DEF Kept
<1>4. KeptItems(items, items') /\ KeptItems(items', items)
  BY DEF KeptItems
<1>5. IsFiniteSet(DOMAIN items) /\ IsFiniteSet(DOMAIN items')
  BY <1>1, ItemsFinite
<1>6. \A f \in Folders : IsFiniteSet(Wanted(f, ch))
  BY <1>1, WantedFinite
<1>7. ASSUME NEW p \in Ways[scenario] PROVE Filled(p)' <=> Filled(p)
  <2>1. WayOK(p, ch)
    BY <1>2
  <2>2. FilledAt(p, folders, items, ch) => FilledAt(p, folders', items', ch)
    BY <1>3, <1>4, <1>5, <1>6, <2>1, FilledStays
  <2>3. FilledAt(p, folders', items', ch) => FilledAt(p, folders, items, ch)
    BY <1>3, <1>4, <1>5, <1>6, <2>1, FilledStays
  <2>. QED BY <2>2, <2>3, FilledIs
<1>8. Missing' = {p \in Ways[scenario] : ~Filled(p)'}
  BY DEF Missing, Ways
<1>. QED BY <1>7, <1>8 DEF Missing

-----------------------------------------------------------------------------
(* Success leaves nothing out, and the whole is MirrorPromise              *)

\* A step starts a run, goes on in it, finishes it or ends it, or is the user's.
LEMMA PromiseSteps ==
  ASSUME Inv, [Next]_vars
  PROVE  \/ UNCHANGED vars
         \/ phase = "idle" /\ phase' = "open" /\ UNCHANGED <<scenario, driveVars>>
         \/ phase = "idle" /\ phase' = "idle"
         \/ phase \in {"open", "walk"} /\ phase' \in {"open", "walk"} /\ ~UserTrash
         \/ phase = "walk" /\ Finish
         \/ phase # "idle" /\ phase' = "idle" /\ ~UserTrash
<1> DEFINE Goes == phase \in {"open", "walk"} /\ phase' \in {"open", "walk"}
           Ends == phase # "idle" /\ phase' = "idle" /\ ~UserTrash
<1>1. ASSUME NEW o \in scenario.options, StartRun(o)
      PROVE  phase = "idle" /\ phase' = "open" /\ UNCHANGED <<scenario, driveVars>>
  BY <1>1 DEF StartRun
<1>2. CASE UserTrash \/ UserUpload
  BY <1>2 DEF UserTrash, UserUpload, runVars
<1>3. ASSUME Finalize \/ RootFails \/ Crash
      PROVE  Ends
  BY <1>3 DEF Finalize, RootFails, Crash, EndRun, UserTrash
<1>4. Finish => phase = "walk"
  BY DEF Finish
<1>5. OpenRoot => Goes
  BY DEF OpenRoot
<1>6. ListFolder \/ BuildIndex \/ BatchedList \/ Descend \/ LeaveLevel => Goes
  BY DEF ListFolder, BuildIndex, BatchedList, Descend, LeaveLevel, runVars
<1>7. ASSUME NEW e, NEW d, NEW ix, CopyFile(e, d, ix)
      PROVE  phase' = phase
  BY <1>7 DEF CopyFile, runVars
<1>8. RunJob => Goes
  <2>1. jobs # {} => phase = "walk"
    BY DEF Inv, WalkInv
  <2>. QED BY <1>7, <2>1 DEF RunJob
<1>9. DropJobs => Goes
  <2>1. jobs # {} => phase = "walk"
    BY DEF Inv, WalkInv
  <2>. QED BY <2>1 DEF DropJobs, runVars
<1>10. QuotaStops \/ Signal => Goes
  BY DEF QuotaStops, Signal
<1>11. ASSUME NEW e \in Ids, \/ SubmitFile(e) \/ CopyInline(e) \/ LoopSkipped(e)
                             \/ SkipComplete(e) \/ EnterFolder(e)
                             \/ ShortcutUnresolved(e) \/ CreateFails(e)
       PROVE  Goes
  <2>1. CASE CopyInline(e)
    BY <1>7, <2>1 DEF CopyInline, AtEntry
  <2>. QED BY <1>11, <2>1 DEF SubmitFile, LoopSkipped, SkipComplete, EnterFolder, Enters,
         ShortcutUnresolved, CreateFails, AtEntry, runVars
<1>12. Goes => ~UserTrash
  BY DEF UserTrash
<1> HIDE DEF Goes, Ends
<1>13. Main => Goes \/ Finish \/ Ends
  BY <1>3, <1>5, <1>6, <1>11 DEF Main
<1>14. Pool => Goes
  BY <1>8, <1>9 DEF Pool
<1>15. Environment => Goes \/ Ends \/ UserTrash \/ UserUpload
  BY <1>3, <1>10, <1>11 DEF Environment
<1>16. \/ UNCHANGED vars \/ (\E o \in scenario.options : StartRun(o))
       \/ Goes \/ Ends \/ (phase = "walk" /\ Finish) \/ UserTrash \/ UserUpload
  BY <1>4, <1>13, <1>14, <1>15 DEF Next
<1>. QED BY <1>1, <1>2, <1>12, <1>16 DEF Goes, Ends

\* A run that reports full success has had no failure and nothing left to do.
LEMMA SuccessNext ==
  ASSUME SkipsTell, OneWayDown(scenario.children), Reached, Reached', CoverInv,
         SuccessIsComplete, [Next]_vars, scenario' = scenario
  PROVE  /\ SuccessIsComplete'
         /\ Finish /\ FullyOk' => Missing = {}
<1>1. Inv /\ Inv' /\ ShapeInv /\ MapsInv
  BY DEF Reached
<1>2. ASSUME Finish, FullyOk' PROVE Missing = {}
  <2>1. phase = "walk" /\ ~stop /\ ~opt.dry /\ failed = {} /\ listErrs = {}
    BY <1>2 DEF Finish, FullyOk, failVars, treeVars
  <2>2. Clean /\ stack = <<>> /\ jobs = {}
    BY <1>2, <2>1 DEF Clean, Finish
  <2>. QED BY <2>2, NothingLeft
<1>3. ASSUME phase' = "finish", FullyOk' PROVE Missing' = {}
  <2>1. CASE UNCHANGED vars
    <3>1. phase = "finish" /\ FullyOk
      BY <1>3, <2>1 DEF vars, runVars, failVars, treeVars, FullyOk
    <3>2. Missing = {}
      BY <3>1 DEF SuccessIsComplete
    <3>3. folders' = folders /\ items' = items
      BY <2>1 DEF vars, driveVars
    <3>4. Missing' = Missing
      BY <1>1, <3>3, MissingSame
    <3>. QED BY <3>2, <3>4
  <2>2. CASE phase = "walk" /\ Finish
    <3>1. Missing = {}
      BY <1>2, <1>3, <2>2
    <3>2. ~UserTrash
      BY <2>2 DEF UserTrash
    <3>3. Missing' \subseteq Missing
      BY <1>1, <3>2, MissingShrinks
    <3>. QED BY <3>1, <3>3
  <2>. QED BY <1>1, <1>3, <2>1, <2>2, PromiseSteps
<1>. QED BY <1>2, <1>3 DEF SuccessIsComplete

\* Each step is one of MirrorPromise, or a stutter.
LEMMA PromiseNext ==
  ASSUME SkipsTell, OneWayDown(scenario.children), Reached, Reached', CoverInv,
         SuccessIsComplete, [Next]_vars, scenario' = scenario
  PROVE  [Promise!Next]_(Promise!vars)
<1> DEFINE done1 == phase = "finish" /\ FullyOk
<1>1. Inv /\ Inv' /\ ShapeInv /\ MapsInv
  BY DEF Reached
<1>2. ~UserTrash => Missing' \subseteq Missing
  BY <1>1, MissingShrinks
<1>3. folders' = folders /\ items' = items => Missing' = Missing
  BY <1>1, MissingSame
<1>4. CASE UNCHANGED vars
  <2>1. Missing' = Missing
    BY <1>3, <1>4 DEF vars, driveVars
  <2>2. phase' = phase /\ (FullyOk' <=> FullyOk)
    BY <1>4 DEF vars, runVars, failVars, treeVars, FullyOk
  <2>. QED BY <2>1, <2>2 DEF Promise!vars
<1>5. CASE phase = "idle" /\ phase' = "open" /\ UNCHANGED <<scenario, driveVars>>
  <2>1. Missing' = Missing
    BY <1>3, <1>5 DEF driveVars
  <2>. QED BY <1>5, <2>1 DEF Promise!Next, Promise!Begin
<1>6. CASE phase = "idle" /\ phase' = "idle"
  <2>1. Missing' \in SUBSET (UNION {Ways[s] : s \in Scenarios})
    <3>1. Missing' \subseteq Ways[scenario'] /\ scenario' \in Scenarios
      BY <1>1 DEF Missing, Ways, Inv, RunInv
    <3>. QED BY <3>1
  <2>. QED BY <1>6, <2>1 DEF Promise!Next, Promise!Disturb
<1>7. CASE phase \in {"open", "walk"} /\ phase' \in {"open", "walk"} /\ ~UserTrash
  BY <1>2, <1>7 DEF Promise!Next, Promise!Fill
<1>8. CASE phase = "walk" /\ Finish
  <2>1. phase' = "finish" /\ ~UserTrash
    BY <1>8 DEF Finish, UserTrash
  <2>2. CASE FullyOk'
    <3>1. Missing = {}
      BY <1>8, <2>2, SuccessNext
    <3>2. Missing' = Missing
      BY <1>2, <2>1, <3>1
    <3>. QED BY <1>8, <2>1, <2>2, <3>1, <3>2 DEF Promise!Next, Promise!Succeed
  <2>3. CASE ~FullyOk'
    BY <1>2, <1>8, <2>1, <2>3 DEF Promise!Next, Promise!Fill
  <2>. QED BY <2>2, <2>3
<1>9. CASE phase # "idle" /\ phase' = "idle" /\ ~UserTrash
  BY <1>2, <1>9 DEF Promise!Next, Promise!End
<1>. QED BY <1>1, <1>4, <1>5, <1>6, <1>7, <1>8, <1>9, PromiseSteps

\* What holds of every state besides.
LEMMA CoverInit == Init => CoverInv /\ SuccessIsComplete
BY DEF Init, CoverInv, Clean, SuccessIsComplete

LEMMA PromiseInit == Init => Promise!Init
<1> SUFFICES ASSUME Init PROVE Promise!Init
  OBVIOUS
<1>1. scenario \in Scenarios /\ phase = "idle"
  BY DEF Init
<1>2. Missing \in SUBSET (UNION {Ways[s] : s \in Scenarios})
  BY <1>1 DEF Missing
<1>. QED BY <1>1, <1>2 DEF Promise!Init

\* Full success is reported only when every place of the source tree, through
\* shortcuts too, is filled.
THEOREM SuccessLeavesNothingOut ==
  ASSUME ModesTell, TreesOneWayDown, SkipsTell, VerificationsTell
  PROVE  Spec => []SuccessIsComplete
<1>1. Init => Reached /\ CoverInv /\ SuccessIsComplete
  BY ReachedInit, CoverInit
<1>2. Reached /\ CoverInv /\ SuccessIsComplete /\ [Next]_vars
        => Reached' /\ CoverInv' /\ SuccessIsComplete'
  BY ReachedNext, ReachedUnmistaken, CoverNext, SuccessNext
<1>. QED BY <1>1, <1>2, PTL DEF Spec

\* A run only fills places, claims success only when none is left, and only the
\* user empties any, between runs.
THEOREM TraversalImplementsMirror ==
  ASSUME ModesTell, TreesOneWayDown, SkipsTell, VerificationsTell
  PROVE  Spec => ImplementsMirror
<1>1. Init => Reached /\ CoverInv /\ SuccessIsComplete
  BY ReachedInit, CoverInit
<1>2. Reached /\ CoverInv /\ SuccessIsComplete /\ [Next]_vars
        => Reached' /\ CoverInv' /\ SuccessIsComplete'
  BY ReachedNext, ReachedUnmistaken, CoverNext, SuccessNext
<1>3. Init => Promise!Init
  BY PromiseInit
<1>4. Reached /\ Reached' /\ CoverInv /\ SuccessIsComplete /\ [Next]_vars
        => [Promise!Next]_(Promise!vars)
  BY ReachedNext, PromiseNext
<1>. QED BY <1>1, <1>2, <1>3, <1>4, PTL DEF Spec, ImplementsMirror, Promise!Spec

=============================================================================
