----------------------- MODULE FolderTraversal_proofs -----------------------
(***************************************************************************)
(* Machine-checked proofs about FolderTraversal and the DestinationIndex   *)
(* in it, for any source tree, any options and any number of faults.       *)
(***************************************************************************)
EXTENDS FolderTraversal, SequenceTheorems, WellFoundedInduction, TLAPS

-----------------------------------------------------------------------------
(* DestinationIndex                                                        *)

\* First is the least of a set of items.
LEMMA FirstIsIn ==
  ASSUME NEW S \in SUBSET Nat, S # {}
  PROVE  Index!First(S) \in S /\ \A j \in S : Index!First(S) <= j
<1>1. PICK i \in S : \A j \in S : <<j, i>> \notin OpToRel(<, Nat)
  BY WFMin, NatLessThanWellFounded, Zenon
<1>2. \A j \in S : <<j, i>> \in Nat \X Nat
  OBVIOUS
<1>3. \A j \in S : ~(j < i)
  BY <1>1, <1>2, Zenon DEF OpToRel
<1>4. i \in Nat /\ \A j \in S : j \in Nat
  OBVIOUS
<1>5. \A j \in S : i <= j
  BY <1>3, <1>4
<1>. QED
  BY <1>5 DEF Index!First

\* Latest is in the set, when the set is bounded.
LEMMA LatestIsIn ==
  ASSUME NEW n \in Nat, NEW S \in SUBSET (1..n), S # {}
  PROVE  Index!Latest(S) \in S
<1> DEFINE R == {n - i : i \in S}
<1>1. R \in SUBSET Nat /\ R # {}
  <2>1. \A i \in S : i \in 1..n
    OBVIOUS
  <2>2. \A i \in 1..n : n - i \in Nat
    OBVIOUS
  <2>3. PICK i \in S : TRUE
    OBVIOUS
  <2>4. n - i \in R
    BY <2>3
  <2>. QED BY <2>1, <2>2, <2>4
<1>2. Index!First(R) \in R /\ \A j \in R : Index!First(R) <= j
  BY <1>1, FirstIsIn
<1>3. PICK i \in S : Index!First(R) = n - i
  BY <1>2
<1>4. \A j \in S : n - j \in R
  OBVIOUS
<1>5. \A j \in S : n - i <= n - j
  BY <1>2, <1>3, <1>4
<1>6. \A j \in S : j <= i
  BY <1>5
<1>. QED
  BY <1>6 DEF Index!Latest

\* The index of a level is well formed, whatever part of it was listed.
LEMMA BuildTyped ==
  ASSUME items \in Seq(Item), NEW listed \in SUBSET DOMAIN items
  PROVE  Index!Build(items, listed) \in Index!Indexes
<1>1. DOMAIN items = 1..Len(items) /\ Len(items) \in Nat
  BY LenProperties
<1>2. ASSUME NEW S \in SUBSET listed
      PROVE  Index!Latest(S) \in Nat
  <2>1. CASE S = {}
    BY <2>1 DEF Index!Latest
  <2>2. CASE S # {}
    <3>1. S \in SUBSET (1..Len(items))
      BY <1>1
    <3>2. Index!Latest(S) \in S
      BY <1>1, <2>2, <3>1, LatestIsIn
    <3>. QED BY <3>1, <3>2
  <2>. QED BY <2>1, <2>2
<1>3. \A e \in FileEntries :
        Index!Latest({i \in listed : items[i].tool /\ items[i].of = e}) \in Nat
  BY <1>2
<1>4. listed \in SUBSET Nat
  BY <1>1
<1>. QED
  BY <1>3, <1>4 DEF Index!Build, Index!Indexes

\* An index stays well formed when an item is taken out of it.
LEMMA PopTyped ==
  ASSUME NEW index \in Index!Indexes, NEW i
  PROVE  Index!Pop(index, i) \in Index!Indexes
BY DEF Index!Pop, Index!Indexes

\* s is a stack of levels of which none is inside itself; the folders that a
\* level has put off are not on the path to it, and a level that is in its loop
\* has one of the n indexes.
StackOK(s, n) ==
  /\ s \in Seq(Frame)
  /\ \A i \in DOMAIN s : s[i].stage = "loop" => s[i].index \in 1..n
  /\ \A i, j \in DOMAIN s : i # j => s[i].src # s[j].src
  /\ \A i \in DOMAIN s : \A k \in DOMAIN s[i].pending : \A j \in 1..i :
       s[j].src # s[i].pending[k].src

LEMMA EmptyStack ==
  ASSUME NEW n \in Nat
  PROVE  StackOK(<<>>, n)
BY EmptySeq DEF StackOK

\* A longer list of indexes does no harm.
LEMMA MoreIndexes ==
  ASSUME NEW s, NEW n \in Nat, NEW m \in Nat, n <= m, StackOK(s, n)
  PROVE  StackOK(s, m)
BY DEF StackOK

\* The last level changes but stays at its folder.
LEMMA TopChanges ==
  ASSUME NEW s, NEW n \in Nat, StackOK(s, n), s # <<>>, NEW f \in Frame,
         f.src = s[Len(s)].src, f.stage = "loop" => f.index \in 1..n,
         \A k \in DOMAIN f.pending : \A j \in DOMAIN s : s[j].src # f.pending[k].src
  PROVE  StackOK([s EXCEPT ![Len(s)] = f], n)
<1> DEFINE t == [s EXCEPT ![Len(s)] = f]
<1>1. /\ s \in Seq(Frame) /\ Len(s) \in Nat /\ DOMAIN s = 1..Len(s)
      /\ Len(s) \in 1..Len(s)
  BY LenProperties, EmptySeq DEF StackOK
<1>2. /\ t \in Seq(Frame) /\ Len(t) = Len(s)
      /\ \A j \in 1..Len(s) : t[j] = IF j = Len(s) THEN f ELSE s[j]
  BY <1>1, ExceptSeq
<1>3. DOMAIN t = DOMAIN s
  OBVIOUS
<1> HIDE DEF t
<1>4. \A j \in DOMAIN s : t[j].src = s[j].src
  BY <1>1, <1>2
<1>5. \A i \in DOMAIN t : t[i].stage = "loop" => t[i].index \in 1..n
  BY <1>1, <1>2, <1>3 DEF StackOK
<1>6. \A i, j \in DOMAIN t : i # j => t[i].src # t[j].src
  BY <1>3, <1>4 DEF StackOK
<1>7. ASSUME NEW i \in DOMAIN t, NEW k \in DOMAIN t[i].pending, NEW j \in 1..i
      PROVE  t[j].src # t[i].pending[k].src
  <2>1. j \in DOMAIN s
    BY <1>1, <1>3
  <2>2. CASE i = Len(s)
    BY <1>1, <1>2, <1>4, <2>1, <2>2
  <2>3. CASE i # Len(s)
    <3>1. i \in DOMAIN s /\ t[i] = s[i]
      BY <1>1, <1>2, <1>3, <2>3
    <3>2. s[j].src # s[i].pending[k].src
      BY <3>1 DEF StackOK
    <3>. QED BY <1>4, <2>1, <3>1, <3>2
  <2>. QED BY <2>2, <2>3
<1>. QED
  BY <1>2, <1>5, <1>6, <1>7 DEF StackOK, t

\* The last level returns.
LEMMA LevelReturns ==
  ASSUME NEW s, NEW n \in Nat, StackOK(s, n), s # <<>>
  PROVE  StackOK(SubSeq(s, 1, Len(s) - 1), n)
<1> DEFINE t == SubSeq(s, 1, Len(s) - 1)
<1>1. /\ s \in Seq(Frame) /\ Len(s) \in Nat /\ DOMAIN s = 1..Len(s)
      /\ Len(s) - 1 \in Nat
  BY LenProperties, EmptySeq DEF StackOK
<1>2. \A i \in 1..(Len(s) - 1) : s[i] \in Frame
  BY <1>1, ElementOfSeq
<1>3. /\ t \in Seq(Frame) /\ Len(t) = Len(s) - 1
      /\ \A i \in 1..(Len(s) - 1) : t[i] = s[i]
  <2>1. /\ t \in Seq(Frame)
        /\ Len(t) = IF 1 <= Len(s) - 1 THEN (Len(s) - 1) - 1 + 1 ELSE 0
        /\ \A i \in 1..((Len(s) - 1) - 1 + 1) : t[i] = s[1 + i - 1]
    BY <1>1, <1>2, SubSeqProperties
  <2>. QED BY <1>1, <2>1
<1>4. DOMAIN t = 1..(Len(s) - 1)
  BY <1>3, LenProperties
<1> HIDE DEF t
<1>5. \A i \in DOMAIN t : i \in DOMAIN s /\ t[i] = s[i] /\ 1..i \in SUBSET DOMAIN t
  BY <1>1, <1>3, <1>4
<1>6. /\ \A i \in DOMAIN t : t[i].stage = "loop" => t[i].index \in 1..n
      /\ \A i, j \in DOMAIN t : i # j => t[i].src # t[j].src
  BY <1>5 DEF StackOK
<1>7. \A i \in DOMAIN t : \A k \in DOMAIN t[i].pending : \A j \in 1..i :
        t[j].src # t[i].pending[k].src
  BY <1>5 DEF StackOK
<1>. QED
  BY <1>3, <1>6, <1>7 DEF StackOK, t

\* A folder is entered that is not on the path.
LEMMA LevelEntered ==
  ASSUME NEW s, NEW n \in Nat, StackOK(s, n), NEW g \in Frame,
         g.stage # "loop", g.pending = <<>>, \A j \in DOMAIN s : s[j].src # g.src
  PROVE  StackOK(Append(s, g), n)
<1> DEFINE t == Append(s, g)
<1>1. s \in Seq(Frame) /\ Len(s) \in Nat /\ DOMAIN s = 1..Len(s)
  BY LenProperties DEF StackOK
<1>2. /\ t \in Seq(Frame) /\ Len(t) = Len(s) + 1
      /\ \A i \in 1..Len(s) : t[i] = s[i]
      /\ t[Len(s) + 1] = g
  BY <1>1, AppendProperties
<1>3. DOMAIN t = 1..(Len(s) + 1)
  BY <1>2, LenProperties
<1> HIDE DEF t
<1>4. \A i \in DOMAIN t : (i \in DOMAIN s /\ t[i] = s[i]) \/ (i = Len(s) + 1 /\ t[i] = g)
  BY <1>1, <1>2, <1>3
<1>5. \A i \in DOMAIN t : t[i].stage = "loop" => t[i].index \in 1..n
  BY <1>4 DEF StackOK
<1>6. \A i, j \in DOMAIN t : i # j => t[i].src # t[j].src
  BY <1>4 DEF StackOK
<1>7. ASSUME NEW i \in DOMAIN t, NEW k \in DOMAIN t[i].pending, NEW j \in 1..i
      PROVE  t[j].src # t[i].pending[k].src
  <2>1. CASE i = Len(s) + 1
    <3>1. DOMAIN t[i].pending = {}
      BY <1>2, <2>1, EmptySeq
    <3>. QED BY <3>1
  <2>2. CASE i \in 1..Len(s)
    BY <1>1, <1>2, <2>2 DEF StackOK
  <2>. QED BY <1>1, <1>3, <2>1, <2>2
<1>. QED
  BY <1>2, <1>5, <1>6, <1>7 DEF StackOK, t

-----------------------------------------------------------------------------
(* The source and the folders of the destination                           *)

\* What the ids of the source are.
LEMMA EntryFacts ==
  /\ FolderEntries \subseteq Ids /\ FileEntries \subseteq Ids
  /\ Files \subseteq FileEntries /\ Root \in FolderEntries /\ Root \in Folders
  /\ \A e \in Ids : Source(e) \in Ids
  /\ \A e \in FolderEntries : Source(e) \in Folders
  /\ \A e \in Shortcuts : Target[e] \in Ids
  /\ None \notin FolderEntries
BY RootAssumption, IdAssumption, TargetAssumption
   DEF Ids, Source, FolderEntries, FileEntries

\* The children of a folder are ids.
LEMMA ChildrenTyped ==
  ASSUME scenario \in Scenarios, NEW f \in Folders
  PROVE  Children(f) \in Seq(Ids)
BY ScenarioAssumption DEF Scenario, Children

\* Destination folders whose logs name none that does not exist.
FoldersOK(fs) ==
  /\ fs \in Seq(DestFolder)
  /\ \A x \in DOMAIN fs : fs[x].log # None =>
       \A e \in FolderEntries : fs[x].log.map[e] <= Len(fs)

\* A log is written into, or taken out of, a folder.
LEMMA LogWritten ==
  ASSUME NEW fs, FoldersOK(fs), NEW n \in Nat, NEW l \in Log \union {None},
         l # None => \A e \in FolderEntries : l.map[e] <= Len(fs)
  PROVE  LET t == [fs EXCEPT ![n].log = l]
         IN  /\ FoldersOK(t) /\ Len(t) = Len(fs) /\ DOMAIN t = DOMAIN fs
             /\ \A x \in DOMAIN fs : /\ t[x].key = fs[x].key /\ t[x].live = fs[x].live
                                     /\ t[x].parent = fs[x].parent
<1> DEFINE t == [fs EXCEPT ![n].log = l]
<1>1. fs \in Seq(DestFolder) /\ Len(fs) \in Nat /\ DOMAIN fs = 1..Len(fs)
  BY LenProperties DEF FoldersOK
<1>2. CASE n \in DOMAIN fs
  <2> DEFINE g == [fs[n] EXCEPT !.log = l]
  <2>1. fs[n] \in DestFolder
    BY <1>1, <1>2, ElementOfSeq
  <2>2. /\ g \in DestFolder /\ g.key = fs[n].key /\ g.live = fs[n].live
        /\ g.parent = fs[n].parent /\ g.log = l
    BY <2>1 DEF DestFolder
  <2>3. t = [fs EXCEPT ![n] = g]
    OBVIOUS
  <2> HIDE DEF g
  <2>4. /\ t \in Seq(DestFolder) /\ Len(t) = Len(fs)
        /\ \A x \in 1..Len(fs) : t[x] = IF x = n THEN g ELSE fs[x]
    BY <1>1, <1>2, <2>2, <2>3, ExceptSeq
  <2>5. DOMAIN t = DOMAIN fs
    OBVIOUS
  <2> HIDE DEF t
  <2>6. \A x \in DOMAIN fs : /\ t[x].key = fs[x].key /\ t[x].live = fs[x].live
                             /\ t[x].parent = fs[x].parent
    BY <1>1, <2>2, <2>4
  <2>7. \A x \in DOMAIN t : t[x].log # None =>
          \A e \in FolderEntries : t[x].log.map[e] <= Len(t)
    BY <1>1, <2>2, <2>4, <2>5 DEF FoldersOK
  <2>. QED BY <2>4, <2>5, <2>6, <2>7 DEF FoldersOK, t
<1>3. CASE n \notin DOMAIN fs
  <2>1. t = fs
    BY <1>1, <1>3
  <2>. QED BY <2>1
<1>. QED BY <1>2, <1>3

\* A folder is created.
LEMMA FolderMade ==
  ASSUME NEW fs, FoldersOK(fs), NEW e \in FolderEntries, NEW parent \in Nat,
         NEW t, t = Created(fs, parent, e)
  PROVE  /\ FoldersOK(t) /\ Len(t) = Len(fs) + 1 /\ DOMAIN t = 1..(Len(fs) + 1)
         /\ \A x \in DOMAIN fs : t[x] = fs[x]
         /\ t[Len(fs) + 1] = [key |-> e, parent |-> parent, live |-> TRUE, log |-> None]
<1> DEFINE g == [key |-> e, parent |-> parent, live |-> TRUE, log |-> None]
<1>0. t = Append(fs, g)
  BY DEF Created
<1>1. fs \in Seq(DestFolder) /\ Len(fs) \in Nat /\ DOMAIN fs = 1..Len(fs)
  BY LenProperties DEF FoldersOK
<1>2. g \in DestFolder /\ g.key = e /\ g.parent = parent /\ g.live /\ g.log = None
  BY DEF DestFolder
<1> HIDE DEF g
<1>3. /\ t \in Seq(DestFolder) /\ Len(t) = Len(fs) + 1
      /\ \A x \in 1..Len(fs) : t[x] = fs[x]
      /\ t[Len(fs) + 1] = g
  BY <1>0, <1>1, <1>2, AppendProperties
<1>4. DOMAIN t = 1..(Len(fs) + 1)
  BY <1>3, LenProperties
<1>5. \A x \in DOMAIN t : t[x].log # None => x \in DOMAIN fs /\ t[x] = fs[x]
  BY <1>1, <1>2, <1>3, <1>4
<1>6. \A x \in DOMAIN fs : fs[x].log # None =>
        fs[x].log \in Log /\ \A y \in FolderEntries : fs[x].log.map[y] \in Nat
  <2>1. \A x \in DOMAIN fs : fs[x] \in DestFolder
    BY <1>1, ElementOfSeq
  <2>. QED BY <2>1 DEF DestFolder, Log
<1>7. \A x \in DOMAIN t : t[x].log # None =>
        \A y \in FolderEntries : t[x].log.map[y] <= Len(t)
  <2>1. SUFFICES ASSUME NEW x \in DOMAIN t, t[x].log # None, NEW y \in FolderEntries
                 PROVE  t[x].log.map[y] <= Len(t)
    OBVIOUS
  <2>2. x \in DOMAIN fs /\ t[x] = fs[x]
    BY <1>5, <2>1
  <2>3. fs[x].log.map[y] <= Len(fs) /\ fs[x].log.map[y] \in Nat
    BY <1>6, <2>1, <2>2 DEF FoldersOK
  <2>. QED BY <1>1, <1>3, <2>2, <2>3
<1>8. FoldersOK(t)
  BY <1>3, <1>7 DEF FoldersOK
<1>. QED BY <1>1, <1>3, <1>4, <1>8 DEF g

\* Folders with n more than before, all of them for entry e in parent.
Grows(fs, gs, parent, e, n) ==
  /\ FoldersOK(gs) /\ Len(gs) = Len(fs) + n /\ DOMAIN gs = 1..(Len(fs) + n)
  /\ \A x \in DOMAIN fs : x \in DOMAIN gs /\ gs[x] = fs[x]
  /\ \A x \in DOMAIN gs \ DOMAIN fs :
       gs[x].key = e /\ gs[x].parent = parent /\ gs[x].live /\ gs[x].log = None

LEMMA CreatedGrows ==
  ASSUME NEW fs, FoldersOK(fs), NEW e \in FolderEntries, NEW parent \in Nat
  PROVE  /\ Grows(fs, fs, parent, e, 0)
         /\ Grows(fs, Created(fs, parent, e), parent, e, 1)
         /\ Grows(fs, Created(Created(fs, parent, e), parent, e), parent, e, 2)
<1>0. PICK t, u : t = Created(fs, parent, e) /\ u = Created(t, parent, e)
  OBVIOUS
<1>1. Len(fs) \in Nat /\ DOMAIN fs = 1..Len(fs)
  BY LenProperties DEF FoldersOK
<1> DEFINE g == [key |-> e, parent |-> parent, live |-> TRUE, log |-> None]
<1>2. /\ FoldersOK(t) /\ Len(t) = Len(fs) + 1 /\ DOMAIN t = 1..(Len(fs) + 1)
      /\ \A x \in DOMAIN fs : t[x] = fs[x]
      /\ t[Len(fs) + 1] = g
  BY <1>0, FolderMade
<1>3. /\ FoldersOK(u) /\ Len(u) = Len(t) + 1 /\ DOMAIN u = 1..(Len(t) + 1)
      /\ \A x \in DOMAIN t : u[x] = t[x]
      /\ u[Len(t) + 1] = g
  BY <1>0, <1>2, FolderMade
<1>4. /\ \A x \in DOMAIN t : x \in DOMAIN fs \/ x = Len(fs) + 1
      /\ \A x \in DOMAIN fs : x \in DOMAIN t
      /\ \A x \in DOMAIN u : x \in DOMAIN t \/ x = Len(t) + 1
      /\ \A x \in DOMAIN t : x \in DOMAIN u
      /\ Len(u) = Len(fs) + 2 /\ DOMAIN u = 1..(Len(fs) + 2)
  BY <1>1, <1>2, <1>3
<1>5. Grows(fs, fs, parent, e, 0)
  BY <1>1 DEF Grows
<1>6. Grows(fs, t, parent, e, 1)
  BY <1>2, <1>4 DEF Grows
<1>7. Grows(fs, u, parent, e, 2)
  BY <1>2, <1>3, <1>4 DEF Grows
<1>. QED BY <1>0, <1>5, <1>6, <1>7

-----------------------------------------------------------------------------
(* The inductive invariant                                                 *)

\* The folders of the destination, and what the run and the logs call them.
DriveInv ==
  /\ FoldersOK(folders)
  /\ folderMap \in [FolderEntries -> Nat]
  /\ \A e \in FolderEntries : folderMap[e] <= Len(folders)
  /\ droot \in Nat

\* The run.
RunInv ==
  /\ scenario \in Scenarios
  /\ phase \in Phases /\ opt \in Options \union {None}
  /\ phase # "idle" => opt \in Options
  /\ stop \in BOOLEAN /\ completed \in BOOLEAN

\* The lists a run keeps, and those of the environment.
ListInv ==
  /\ items \in Seq(Item)
  /\ copied \subseteq FileEntries /\ done \subseteq Folders /\ dirty \in Nat
  /\ stateFailed \subseteq FailedItem /\ failed \subseteq FailedItem
  /\ prevFailed \subseteq FailedItem
  /\ recorded \subseteq Folders /\ listErrs \subseteq Folders
  /\ faults \in Nat /\ spoiled \subseteq FaultKinds

\* The traversal thread and the pool, which work in the walk phase only.
WalkInv ==
  /\ StackOK(stack, Len(indexes))
  /\ indexes \in Seq(Index!Indexes)
  /\ jobs \subseteq Job /\ \A j \in jobs : j.index \in 1..Len(indexes)
  /\ phase # "walk" => stack = <<>> /\ jobs = {}

Inv == DriveInv /\ RunInv /\ ListInv /\ WalkInv

\* What the properties of the runs ask for.
LEMMA InvImplies == Inv => TypeOK /\ NoFolderInsideItself
<1> SUFFICES ASSUME Inv PROVE TypeOK /\ NoFolderInsideItself
  OBVIOUS
<1>1. TypeOK
  BY DEF Inv, DriveInv, RunInv, ListInv, WalkInv, TypeOK, FoldersOK, StackOK
<1>2. NoFolderInsideItself
  BY DEF Inv, WalkInv, StackOK, NoFolderInsideItself
<1>. QED BY <1>1, <1>2

\* Everything starts empty.
LEMMA InvInit == Init => Inv /\ OneFolderPerPlace
<1> SUFFICES ASSUME Init PROVE Inv /\ OneFolderPerPlace
  OBVIOUS
<1>1. DriveInv
  <2> DEFINE g == [key |-> None, parent |-> Nothing, live |-> TRUE, log |-> None]
  <2>1. folders = <<g>> /\ g \in DestFolder /\ g.log = None
    BY DEF Init, DestFolder, Nothing
  <2> HIDE DEF g
  <2>2. folders \in Seq(DestFolder) /\ DOMAIN folders = {1} /\ folders[1] = g
    BY <2>1
  <2>3. FoldersOK(folders)
    BY <2>1, <2>2 DEF FoldersOK
  <2>4. folderMap = [e \in FolderEntries |-> 0] /\ Len(folders) = 1 /\ droot = 0
    BY <2>1 DEF Init, Nothing
  <2>. QED BY <2>3, <2>4 DEF DriveInv
<1>2. RunInv
  BY DEF Init, RunInv, Phases
<1>3. ListInv
  <2>1. items \in Seq(Item)
    BY EmptySeq DEF Init
  <2>2. faults \in Nat
    BY ScenarioAssumption DEF Init, Scenario
  <2>. QED BY <2>1, <2>2 DEF Init, ListInv
<1>4. WalkInv
  <2>1. stack = <<>> /\ indexes = <<>> /\ jobs = {}
    BY DEF Init
  <2>2. indexes \in Seq(Index!Indexes) /\ Len(indexes) = 0
    BY <2>1, EmptySeq
  <2>3. StackOK(stack, Len(indexes))
    BY <2>1, <2>2, EmptyStack
  <2>. QED BY <2>1, <2>2, <2>3 DEF WalkInv
<1>5. OneFolderPerPlace
  <2>1. DOMAIN folders = {1}
    BY DEF Init
  <2>. QED BY <2>1 DEF OneFolderPerPlace
<1>. QED BY <1>1, <1>2, <1>3, <1>4, <1>5 DEF Inv

-----------------------------------------------------------------------------
(* _get_or_create_folder                                                   *)

\* The folder it means to return: the one of the log, one that is found, none,
\* or the next one, this only if the log had none and the search found none,
\* unless that is what failed.
LEMMA DestForIs ==
  ASSUME DriveInv, NEW parent \in Nat, NEW e \in FolderEntries, NEW failing, NEW d,
         d = DestFor(parent, e, failing)
  PROVE  /\ d \in Nat
         /\ \/ d = Nothing /\ (parent = Nothing \/ opt.dry)
            \/ parent # Nothing /\ Cached(e) /\ d = folderMap[e] /\ failing # "verify"
            \/ /\ parent # Nothing /\ d \in Found(parent, e)
               /\ Cached(e) => failing = "verify"
            \/ /\ IsNew(d) /\ parent # Nothing /\ ~opt.dry
               /\ failing # "search" => Found(parent, e) = {}
               /\ Cached(e) => failing = "verify"
         /\ d <= Len(folders) \/ IsNew(d)
<1>1. Len(folders) \in Nat /\ DOMAIN folders = 1..Len(folders)
  BY LenProperties DEF DriveInv, FoldersOK
<1>2. folderMap[e] \in Nat /\ folderMap[e] <= Len(folders)
  BY DEF DriveInv
<1>3. Found(parent, e) \in SUBSET (1..Len(folders))
  BY <1>1 DEF Found
<1>4. Found(parent, e) # {} => Index!First(Found(parent, e)) \in Found(parent, e)
  <2>1. Found(parent, e) \in SUBSET Nat
    BY <1>1, <1>3
  <2>. QED BY <2>1, FirstIsIn
<1>5. \/ d = Nothing /\ (parent = Nothing \/ opt.dry)
      \/ parent # Nothing /\ Cached(e) /\ d = folderMap[e] /\ failing # "verify"
      \/ /\ parent # Nothing /\ d \in Found(parent, e)
         /\ Cached(e) => failing = "verify"
      \/ /\ IsNew(d) /\ parent # Nothing /\ ~opt.dry
         /\ failing # "search" => Found(parent, e) = {}
         /\ Cached(e) => failing = "verify"
  BY <1>4 DEF DestFor, NewFolder, IsNew
<1>6. d \in Nat /\ (d <= Len(folders) \/ IsNew(d))
  BY <1>1, <1>2, <1>3, <1>5 DEF Nothing, IsNew
<1>. QED BY <1>5, <1>6

\* Nobody spends a fault that is not there.
LEMMA FaultSpent ==
  ASSUME NEW kind, Fault(kind), ListInv
  PROVE  /\ faults' \in Nat /\ spoiled' \subseteq FaultKinds
         /\ spoiled \subseteq spoiled'
         /\ kind \in {"search", "resent"} => kind \in spoiled'
<1>1. /\ faults > 0 /\ faults' = faults - 1
      /\ spoiled' = spoiled \union ({kind} \intersect {"search", "resent", "index", "retried"})
      /\ faults \in Nat /\ spoiled \subseteq FaultKinds
  BY DEF Fault, ListInv
<1>2. faults' \in Nat
  BY <1>1
<1>3. {"search", "resent", "index", "retried"} \subseteq FaultKinds
  BY DEF FaultKinds
<1>4. /\ spoiled' \subseteq FaultKinds /\ spoiled \subseteq spoiled'
      /\ kind \in {"search", "resent"} => kind \in spoiled'
  BY <1>1, <1>3, Zenon
<1>. QED BY <1>2, <1>4

\* What it does to the destination, and what it returns: two folders are made if
\* the creation is resent, and a second one in a place only then or if the
\* search failed; what the log has is passed over if it could not be verified.
LEMMA ObtainIs ==
  ASSUME DriveInv, ListInv, NEW parent \in Nat, NEW e \in FolderEntries,
         NEW d \in Destinations(parent, e), Obtain(parent, e, d)
  PROVE  /\ d \in Nat /\ (d = Nothing \/ d \in DOMAIN folders')
         /\ \E n \in {0, 1, 2} :
              /\ Grows(folders, folders', parent, e, n)
              /\ n # 0 => parent # Nothing /\ ~opt.dry
              /\ {"search", "resent"} \intersect spoiled' = {} =>
                   n # 2 /\ (n = 1 => Found(parent, e) = {})
         /\ \/ d = Nothing /\ (parent = Nothing \/ opt.dry)
            \/ parent # Nothing /\ Cached(e) /\ d = folderMap[e]
            \/ parent # Nothing /\ d \in Found(parent, e)
            \/ parent # Nothing /\ ~opt.dry /\ d \in DOMAIN folders' \ DOMAIN folders
         /\ Cached(e) => d = Nothing \/ d = folderMap[e] \/ Fault("verify")
         /\ faults' \in Nat /\ spoiled' \subseteq FaultKinds
         /\ spoiled \subseteq spoiled'
<1>1. Len(folders) \in Nat /\ DOMAIN folders = 1..Len(folders) /\ FoldersOK(folders)
  BY LenProperties DEF DriveInv, FoldersOK
<1>0. PICK usual, two : /\ usual = DestFor(parent, e, "none")
                        /\ two = Created(Created(folders, parent, e), parent, e)
  OBVIOUS
<1>2. faults' \in Nat /\ spoiled' \subseteq FaultKinds /\ spoiled \subseteq spoiled'
  <2>1. CASE UNCHANGED envVars
    BY <2>1 DEF envVars, ListInv
  <2>2. ASSUME NEW kind, Fault(kind)
        PROVE  faults' \in Nat /\ spoiled' \subseteq FaultKinds /\ spoiled \subseteq spoiled'
    BY <2>2, FaultSpent
  <2>. QED BY <2>1, <2>2 DEF Obtain
<1>3. /\ usual \in Nat /\ (usual <= Len(folders) \/ IsNew(usual))
      /\ \/ usual = Nothing /\ (parent = Nothing \/ opt.dry)
         \/ parent # Nothing /\ Cached(e) /\ usual = folderMap[e]
         \/ parent # Nothing /\ usual \in Found(parent, e) /\ ~Cached(e)
         \/ /\ IsNew(usual) /\ parent # Nothing /\ ~opt.dry
            /\ Found(parent, e) = {} /\ ~Cached(e)
  <2>1. usual = DestFor(parent, e, "none") /\ "none" \notin {"verify", "search"}
    BY <1>0
  <2>. QED BY <2>1, DestForIs
<1>4. folderMap[e] \in Nat /\ folderMap[e] <= Len(folders)
  BY DEF DriveInv
<1>5. CASE /\ IsNew(usual) /\ d \in {usual, usual + 1} /\ Fault("resent")
           /\ folders' = two
  <2>1. Grows(folders, folders', parent, e, 2) /\ "resent" \in spoiled'
    BY <1>0, <1>1, <1>5, CreatedGrows, FaultSpent
  <2>2. usual = Len(folders) + 1 /\ d \in {Len(folders) + 1, Len(folders) + 2}
    BY <1>5 DEF IsNew
  <2>3. d \in Nat /\ d \in DOMAIN folders' /\ d \notin DOMAIN folders
    BY <1>1, <2>1, <2>2 DEF Grows
  <2>4. parent # Nothing /\ ~opt.dry /\ ~Cached(e)
    BY <1>1, <1>3, <1>4, <2>2 DEF Found, Cached, Nothing
  <2>. QED BY <1>2, <2>1, <2>3, <2>4
<1>6. ASSUME NEW call, d = DestFor(parent, e, call),
             call = "none" \/ (call \in {"verify", "search"} /\ Fault(call)),
             folders' = IF IsNew(d) THEN Created(folders, parent, e) ELSE folders
      PROVE  /\ d \in Nat /\ (d = Nothing \/ d \in DOMAIN folders')
             /\ \E n \in {0, 1, 2} :
                  /\ Grows(folders, folders', parent, e, n)
                  /\ n # 0 => parent # Nothing /\ ~opt.dry
                  /\ {"search", "resent"} \intersect spoiled' = {} =>
                       n # 2 /\ (n = 1 => Found(parent, e) = {})
             /\ \/ d = Nothing /\ (parent = Nothing \/ opt.dry)
                \/ parent # Nothing /\ Cached(e) /\ d = folderMap[e]
                \/ parent # Nothing /\ d \in Found(parent, e)
                \/ parent # Nothing /\ ~opt.dry /\ d \in DOMAIN folders' \ DOMAIN folders
             /\ Cached(e) => d = Nothing \/ d = folderMap[e] \/ Fault("verify")
  <2>1. /\ d \in Nat /\ (d <= Len(folders) \/ IsNew(d))
        /\ \/ d = Nothing /\ (parent = Nothing \/ opt.dry)
           \/ parent # Nothing /\ Cached(e) /\ d = folderMap[e]
           \/ parent # Nothing /\ d \in Found(parent, e) /\ (Cached(e) => call = "verify")
           \/ /\ IsNew(d) /\ parent # Nothing /\ ~opt.dry
              /\ call # "search" => Found(parent, e) = {}
              /\ Cached(e) => call = "verify"
    BY <1>6, DestForIs
  <2>2. call = "search" => "search" \in spoiled'
    BY <1>6, FaultSpent
  <2>3. call = "verify" => Fault("verify")
    BY <1>6
  <2>4. CASE IsNew(d)
    <3>1. Grows(folders, folders', parent, e, 1)
      BY <1>1, <1>6, <2>4, CreatedGrows
    <3>2. d \in DOMAIN folders' /\ d \notin DOMAIN folders /\ d # Nothing
      BY <1>1, <2>1, <2>4, <3>1 DEF Grows, IsNew, Nothing
    <3>3. ~(Cached(e) /\ d = folderMap[e]) /\ d \notin Found(parent, e)
      BY <1>1, <1>4, <3>2 DEF Cached, Found, Nothing
    <3>4. /\ parent # Nothing /\ ~opt.dry
          /\ call # "search" => Found(parent, e) = {}
          /\ Cached(e) => call = "verify"
      <4>1. Cached(e) => folderMap[e] \in DOMAIN folders
        BY <1>1, <1>4 DEF Cached, Nothing
      <4>. QED BY <2>1, <3>2, <3>3, <4>1
    <3>. QED BY <2>1, <2>2, <2>3, <3>1, <3>2, <3>4
  <2>5. CASE ~IsNew(d)
    <3>1. Grows(folders, folders', parent, e, 0)
      BY <1>1, <1>6, <2>5, CreatedGrows
    <3>2. d = Nothing \/ d \in DOMAIN folders'
      BY <1>1, <1>6, <2>1, <2>5 DEF Nothing
    <3>. QED BY <2>1, <2>3, <2>5, <3>1, <3>2
  <2>. QED BY <2>4, <2>5
<1>7. \/ /\ IsNew(usual) /\ d \in {usual, usual + 1} /\ Fault("resent")
         /\ folders' = two
      \/ \E call \in {"none", "verify", "search"} :
            /\ d = DestFor(parent, e, call)
            /\ call = "none" \/ (call \in {"verify", "search"} /\ Fault(call))
            /\ folders' = IF IsNew(d) THEN Created(folders, parent, e) ELSE folders
  <2>1. CASE /\ d = usual /\ UNCHANGED envVars
             /\ folders' = IF IsNew(d) THEN Created(folders, parent, e) ELSE folders
    BY <1>0, <2>1
  <2>2. ASSUME NEW call \in {"verify", "search"}, d = DestFor(parent, e, call), Fault(call),
               folders' = IF IsNew(d) THEN Created(folders, parent, e) ELSE folders
        PROVE  \E c \in {"none", "verify", "search"} :
                 /\ d = DestFor(parent, e, c)
                 /\ c = "none" \/ (c \in {"verify", "search"} /\ Fault(c))
                 /\ folders' = IF IsNew(d) THEN Created(folders, parent, e) ELSE folders
    BY <2>2
  <2>. QED BY <1>0, <2>1, <2>2 DEF Obtain
<1>. QED BY <1>2, <1>5, <1>6, <1>7

\* A creation that fails may have been carried out.
LEMMA CreationFailsIs ==
  ASSUME DriveInv, ListInv, NEW parent \in Nat, NEW e \in FolderEntries,
         CreationFails(parent, e)
  PROVE  /\ parent # Nothing /\ ~opt.dry /\ ~Cached(e) /\ Found(parent, e) = {}
         /\ \E n \in {0, 1} : Grows(folders, folders', parent, e, n)
         /\ Fault("create")
         /\ faults' \in Nat /\ spoiled' \subseteq FaultKinds
         /\ spoiled \subseteq spoiled'
<1>1. Len(folders) \in Nat /\ DOMAIN folders = 1..Len(folders) /\ FoldersOK(folders)
  BY LenProperties DEF DriveInv, FoldersOK
<1>2. PICK d : d = DestFor(parent, e, "none")
  OBVIOUS
<1>3. IsNew(d) /\ Fault("create")
      /\ (UNCHANGED folders \/ folders' = Created(folders, parent, e))
  BY <1>2 DEF CreationFails
<1>4. /\ d \notin DOMAIN folders /\ d # Nothing
      /\ folderMap[e] \in Nat /\ folderMap[e] <= Len(folders)
  BY <1>1, <1>3 DEF IsNew, Nothing, DriveInv
<1>5. ~(Cached(e) /\ d = folderMap[e]) /\ d \notin Found(parent, e)
  BY <1>1, <1>4 DEF Cached, Found, Nothing
<1>6. /\ \/ d = Nothing /\ (parent = Nothing \/ opt.dry)
         \/ parent # Nothing /\ Cached(e) /\ d = folderMap[e]
         \/ parent # Nothing /\ d \in Found(parent, e)
         \/ IsNew(d) /\ parent # Nothing /\ ~opt.dry /\ Found(parent, e) = {} /\ ~Cached(e)
  BY <1>2, DestForIs
<1>7. parent # Nothing /\ ~opt.dry /\ ~Cached(e) /\ Found(parent, e) = {}
  BY <1>4, <1>5, <1>6
<1>8. \E n \in {0, 1} : Grows(folders, folders', parent, e, n)
  BY <1>1, <1>3, CreatedGrows
<1>. QED BY <1>3, <1>7, <1>8, FaultSpent

\* One more folder where there was none leaves one in each place.
LEMMA GrowsPlaces ==
  ASSUME DriveInv, OneFolderPerPlace, spoiled \subseteq spoiled',
         NEW parent, NEW e, NEW n \in {0, 1, 2}, Grows(folders, folders', parent, e, n),
         {"search", "resent"} \intersect spoiled' = {} =>
           n # 2 /\ (n = 1 => Found(parent, e) = {})
  PROVE  OneFolderPerPlace'
<1> SUFFICES ASSUME {"search", "resent"} \intersect spoiled' = {}
             PROVE  OneFolderPerPlace'
  BY DEF OneFolderPerPlace
<1>1. Len(folders) \in Nat /\ DOMAIN folders = 1..Len(folders)
  BY LenProperties DEF DriveInv, FoldersOK
<1>2. {"search", "resent"} \intersect spoiled = {}
  OBVIOUS
<1>3. n = 0 \/ (n = 1 /\ Found(parent, e) = {})
  OBVIOUS
<1>4. \A x \in DOMAIN folders : folders'[x] = folders[x]
  BY DEF Grows
<1>5. CASE n = 0
  <2>1. DOMAIN folders' = DOMAIN folders
    BY <1>1, <1>5 DEF Grows
  <2>. QED BY <1>2, <1>4, <2>1 DEF OneFolderPerPlace
<1>6. CASE n = 1 /\ Found(parent, e) = {}
  <2>1. \A x \in DOMAIN folders : ~(/\ folders[x].live /\ folders[x].parent = parent
                                    /\ folders[x].key = e)
    BY <1>6 DEF Found
  <2>2. \A x \in DOMAIN folders' : x \in DOMAIN folders \/ x = Len(folders) + 1
    BY <1>1, <1>6 DEF Grows
  <2>3. /\ folders'[Len(folders) + 1].key = e
        /\ folders'[Len(folders) + 1].parent = parent
    BY <1>1, <1>6 DEF Grows
  <2>. QED BY <1>2, <1>4, <2>1, <2>2, <2>3 DEF OneFolderPerPlace
<1>. QED BY <1>3, <1>5, <1>6

\* The folders stay sound and where they are, and there is one in each place.
LEMMA ObtainKeeps ==
  ASSUME DriveInv, ListInv, OneFolderPerPlace, NEW parent \in Nat,
         NEW e \in FolderEntries, NEW d \in Destinations(parent, e), Obtain(parent, e, d)
  PROVE  /\ d \in Nat /\ d <= Len(folders')
         /\ FoldersOK(folders') /\ Len(folders) <= Len(folders')
         /\ Len(folders) \in Nat /\ Len(folders') \in Nat
         /\ faults' \in Nat /\ spoiled' \subseteq FaultKinds
         /\ spoiled \subseteq spoiled'
         /\ OneFolderPerPlace'
<1>1. Len(folders) \in Nat
  BY LenProperties DEF DriveInv, FoldersOK
<1>2. /\ d \in Nat /\ (d = Nothing \/ d \in DOMAIN folders')
      /\ faults' \in Nat /\ spoiled' \subseteq FaultKinds /\ spoiled \subseteq spoiled'
  BY ObtainIs
<1>3. PICK n \in {0, 1, 2} :
        /\ Grows(folders, folders', parent, e, n)
        /\ {"search", "resent"} \intersect spoiled' = {} =>
             n # 2 /\ (n = 1 => Found(parent, e) = {})
  BY ObtainIs
<1>4. OneFolderPerPlace'
  BY <1>2, <1>3, GrowsPlaces
<1>5. /\ FoldersOK(folders') /\ Len(folders') = Len(folders) + n
      /\ DOMAIN folders' = 1..(Len(folders) + n)
  BY <1>3 DEF Grows
<1>6. d <= Len(folders')
  BY <1>1, <1>2, <1>5 DEF Nothing
<1>. QED BY <1>1, <1>2, <1>4, <1>5, <1>6

LEMMA CreationKeeps ==
  ASSUME DriveInv, ListInv, OneFolderPerPlace, NEW parent \in Nat,
         NEW e \in FolderEntries, CreationFails(parent, e)
  PROVE  /\ FoldersOK(folders') /\ Len(folders) <= Len(folders')
         /\ Len(folders) \in Nat /\ Len(folders') \in Nat
         /\ faults' \in Nat /\ spoiled' \subseteq FaultKinds
         /\ spoiled \subseteq spoiled'
         /\ OneFolderPerPlace'
<1>1. Len(folders) \in Nat
  BY LenProperties DEF DriveInv, FoldersOK
<1>2. /\ faults' \in Nat /\ spoiled' \subseteq FaultKinds /\ spoiled \subseteq spoiled'
      /\ Found(parent, e) = {}
  BY CreationFailsIs
<1>3. PICK n \in {0, 1} : Grows(folders, folders', parent, e, n)
  BY CreationFailsIs
<1>4. OneFolderPerPlace'
  BY <1>2, <1>3, GrowsPlaces
<1>5. FoldersOK(folders') /\ Len(folders') = Len(folders) + n
  BY <1>3 DEF Grows
<1>. QED BY <1>1, <1>2, <1>4, <1>5

-----------------------------------------------------------------------------
(* The helpers of the actions                                              *)

\* Writing the log moves no folder.
LEMMA LogSaved ==
  ASSUME DriveInv, ListInv, NEW c \in SUBSET FileEntries, NEW dn \in SUBSET Folders,
         SaveLog(c, dn)
  PROVE  /\ FoldersOK(folders') /\ Len(folders') = Len(folders)
         /\ DOMAIN folders' = DOMAIN folders
         /\ \A x \in DOMAIN folders : /\ folders'[x].key = folders[x].key
                                      /\ folders'[x].live = folders[x].live
                                      /\ folders'[x].parent = folders[x].parent
<1> DEFINE l == [copied |-> c, map |-> folderMap, done |-> dn, failed |-> stateFailed]
           t == [folders EXCEPT ![droot].log = l]
<1>1. CASE UNCHANGED folders
  BY <1>1 DEF DriveInv
<1>2. CASE folders' = t
  <2>1. l \in Log \union {None}
    BY DEF Log, DriveInv, ListInv
  <2>2. \A e \in FolderEntries : l.map[e] <= Len(folders)
    BY DEF DriveInv
  <2>3. FoldersOK(folders) /\ droot \in Nat
    BY DEF DriveInv
  <2> HIDE DEF l
  <2>4. /\ FoldersOK(t) /\ Len(t) = Len(folders) /\ DOMAIN t = DOMAIN folders
        /\ \A x \in DOMAIN folders : /\ t[x].key = folders[x].key
                                     /\ t[x].live = folders[x].live
                                     /\ t[x].parent = folders[x].parent
    BY <2>1, <2>2, <2>3, LogWritten
  <2> HIDE DEF t
  <2>. QED BY <1>2, <2>4
<1>. QED BY <1>1, <1>2 DEF SaveLog

\* Folders that stay where they are, or go, keep their places apart.
LEMMA PlacesKept ==
  ASSUME OneFolderPerPlace, spoiled \subseteq spoiled',
         DOMAIN folders' = DOMAIN folders,
         \A x \in DOMAIN folders : /\ folders'[x].key = folders[x].key
                                   /\ folders'[x].live => folders[x].live
                                   /\ folders'[x].parent = folders[x].parent
  PROVE  OneFolderPerPlace'
BY DEF OneFolderPerPlace

\* The last level, while there is one.
LEMMA TopIs ==
  ASSUME WalkInv, stack # <<>>
  PROVE  /\ Top \in Frame /\ Len(stack) \in DOMAIN stack
         /\ DOMAIN stack = 1..Len(stack) /\ Len(stack) \in Nat
         /\ \A k \in DOMAIN Top.pending : \A j \in DOMAIN stack :
              stack[j].src # Top.pending[k].src
         /\ Top.stage = "loop" => Top.index \in 1..Len(indexes)
         /\ phase = "walk" /\ Len(indexes) \in Nat
<1>1. /\ stack \in Seq(Frame) /\ Len(stack) \in Nat /\ DOMAIN stack = 1..Len(stack)
      /\ Len(stack) \in 1..Len(stack)
  BY LenProperties, EmptySeq DEF WalkInv, StackOK
<1>2. Top \in Frame
  BY <1>1, ElementOfSeq DEF Top
<1>3. /\ \A k \in DOMAIN Top.pending : \A j \in DOMAIN stack :
           stack[j].src # Top.pending[k].src
      /\ Top.stage = "loop" => Top.index \in 1..Len(indexes)
  BY <1>1 DEF WalkInv, StackOK, Top
<1>4. Len(indexes) \in Nat
  BY LenProperties DEF WalkInv
<1>. QED BY <1>1, <1>2, <1>3, <1>4 DEF WalkInv

\* The loop goes on to the next entry.
LEMMA LoopGoesOn ==
  ASSUME WalkInv, stack # <<>>, Top.todo # <<>>, SetTop(Next1)
  PROVE  StackOK(stack', Len(indexes))
<1>1. Top \in Frame
  BY TopIs
<1>2. Tail(Top.todo) \in Seq(Ids)
  BY <1>1, HeadTailProperties DEF Frame
<1>3. /\ Next1 \in Frame /\ Next1.src = Top.src /\ Next1.stage = Top.stage
      /\ Next1.index = Top.index /\ Next1.pending = Top.pending
  BY <1>1, <1>2 DEF Next1, Frame
<1>4. PICK f \in Frame : f = Next1
  BY <1>3
<1>5. StackOK([stack EXCEPT ![Len(stack)] = f], Len(indexes))
  <2>1. /\ f.src = stack[Len(stack)].src
        /\ f.stage = "loop" => f.index \in 1..Len(indexes)
        /\ \A k \in DOMAIN f.pending : \A j \in DOMAIN stack :
             stack[j].src # f.pending[k].src
        /\ Len(indexes) \in Nat
    BY <1>3, <1>4, TopIs DEF Top
  <2>. QED BY <2>1, TopChanges DEF WalkInv
<1>. QED BY <1>4, <1>5 DEF SetTop

\* The entry the loop has come to.
LEMMA AtEntryIs ==
  ASSUME WalkInv, NEW e, AtEntry(e)
  PROVE  e \in Ids /\ stack # <<>> /\ Top.todo # <<>> /\ Top \in Frame /\ phase = "walk"
         /\ Top.stage = "loop" /\ Top.index \in 1..Len(indexes) /\ Top.dest \in Nat
<1>1. stack # <<>> /\ Top.todo # <<>> /\ e = Head(Top.todo) /\ Top.stage = "loop"
  BY DEF AtEntry
<1>2. Top \in Frame /\ Top.index \in 1..Len(indexes) /\ phase = "walk"
  BY <1>1, TopIs
<1>3. Top.todo \in Seq(Ids) /\ Top.dest \in Nat
  BY <1>2 DEF Frame
<1>. QED BY <1>1, <1>2, <1>3, HeadTailProperties

\* A failed item is a set of ids.
LEMMA FailedRecorded ==
  ASSUME ListInv, NEW keys \in SUBSET Ids, RecordFailed(keys)
  PROVE  /\ stateFailed' \subseteq FailedItem /\ failed' \subseteq FailedItem
         /\ prevFailed' \subseteq FailedItem
BY DEF ListInv, RecordFailed, FailedItem

\* A success takes failed items away.
LEMMA Reconciled ==
  ASSUME ListInv, NEW e, Reconcile(e)
  PROVE  /\ stateFailed' \subseteq FailedItem /\ failed' \subseteq FailedItem
         /\ prevFailed' \subseteq FailedItem
BY DEF ListInv, Reconcile, failVars

\* All that a dead process loses is lost.
LEMMA RunEnded ==
  ASSUME Inv, EndRun, FoldersOK(folders'),
         items' = items, faults' \in Nat, spoiled' \subseteq FaultKinds
  PROVE  Inv'
<1>1. Len(folders') \in Nat
  BY LenProperties DEF FoldersOK
<1>2. DriveInv'
  BY <1>1 DEF EndRun, FreshCopier, DriveInv, Nothing
<1>3. RunInv'
  BY DEF Inv, EndRun, FreshCopier, RunInv, Phases
<1>4. ListInv'
  BY DEF Inv, EndRun, FreshCopier, ListInv
<1>5. WalkInv'
  <2>1. stack' = <<>> /\ indexes' = <<>> /\ jobs' = {}
    BY DEF EndRun, FreshCopier
  <2>2. indexes' \in Seq(Index!Indexes) /\ Len(indexes') = 0
    BY <2>1, EmptySeq
  <2>3. StackOK(stack', Len(indexes'))
    BY <2>1, <2>2, EmptyStack
  <2>. QED BY <2>1, <2>2, <2>3 DEF WalkInv
<1>. QED BY <1>2, <1>3, <1>4, <1>5 DEF Inv

-----------------------------------------------------------------------------
(* _copy_file                                                              *)

\* The id is marked, and the log saved if that is due.
LEMMA Marked ==
  ASSUME DriveInv, ListInv, NEW e \in FileEntries, Mark(e)
  PROVE  /\ copied' \subseteq FileEntries /\ dirty' \in Nat
         /\ FoldersOK(folders') /\ Len(folders') = Len(folders)
         /\ DOMAIN folders' = DOMAIN folders
         /\ \A x \in DOMAIN folders : /\ folders'[x].key = folders[x].key
                                      /\ folders'[x].live = folders[x].live
                                      /\ folders'[x].parent = folders[x].parent
<1>1. copied' \subseteq FileEntries /\ dirty' \in Nat
  BY DEF Mark, ListInv
<1>2. CASE UNCHANGED folders
  BY <1>1, <1>2 DEF DriveInv
<1>3. CASE SaveLog(copied \union {e}, done)
  <2>1. copied \union {e} \in SUBSET FileEntries /\ done \in SUBSET Folders
    BY DEF ListInv
  <2>. QED BY <1>1, <1>3, <2>1, LogSaved
<1>. QED BY <1>1, <1>2, <1>3 DEF Mark

\* An item leaves an index.
LEMMA IndexPopped ==
  ASSUME indexes \in Seq(Index!Indexes), NEW ix \in 1..Len(indexes), NEW i,
         PopIndex(ix, i)
  PROVE  indexes' \in Seq(Index!Indexes) /\ Len(indexes') = Len(indexes)
<1>1. Index!Pop(indexes[ix], i) \in Index!Indexes
  BY ElementOfSeq, PopTyped
<1>2. indexes' = [indexes EXCEPT ![ix] = Index!Pop(indexes[ix], i)]
  BY DEF PopIndex
<1>. QED BY <1>1, <1>2, ExceptSeq

\* A copy lands.
LEMMA ItemLanded ==
  ASSUME NEW its \in Seq(Item), NEW e \in FileEntries, NEW d \in Nat
  PROVE  /\ Landed(its, e, d) \in Seq(Item)
         /\ Landed(Landed(its, e, d), e, d) \in Seq(Item)
<1> DEFINE item == [folder |-> d, of |-> e, tool |-> TRUE, live |-> TRUE]
<1>1. item \in Item
  BY DEF Item
<1> HIDE DEF item
<1>2. \A s \in Seq(Item) : Append(s, item) \in Seq(Item)
  BY <1>1, AppendProperties
<1>3. \A s : Landed(s, e, d) = Append(s, item)
  BY DEF Landed, item
<1>. QED BY <1>2, <1>3

\* What a file's copy may change.
LEMMA FileCopied ==
  ASSUME Inv, NEW e \in FileEntries, NEW d \in Nat, NEW ix \in 1..Len(indexes),
         CopyFile(e, d, ix)
  PROVE  /\ ListInv'
         /\ indexes' \in Seq(Index!Indexes) /\ Len(indexes') = Len(indexes)
         /\ FoldersOK(folders') /\ Len(folders') = Len(folders)
         /\ DOMAIN folders' = DOMAIN folders
         /\ \A x \in DOMAIN folders : /\ folders'[x].key = folders[x].key
                                      /\ folders'[x].live = folders[x].live
                                      /\ folders'[x].parent = folders[x].parent
         /\ spoiled \subseteq spoiled'
         /\ UNCHANGED <<scenario, runVars, folderMap>>
<1> USE DEF Inv
<1>1. indexes \in Seq(Index!Indexes)
  BY DEF WalkInv
<1>2. UNCHANGED <<scenario, runVars, folderMap, done, treeVars>>
  BY DEF CopyFile
<1>3. FoldersOK(folders) /\ e \in Ids /\ Source(e) \in Ids
  BY EntryFacts DEF DriveInv
<1>4. CASE SkipConfirmed(e, ix)
  <2>1. UNCHANGED <<driveVars, markVars, envVars>> /\ Reconcile(e)
    BY <1>4 DEF SkipConfirmed
  <2>2. ListInv'
    BY <1>2, <2>1, Reconciled DEF ListInv, driveVars, markVars, envVars, treeVars
  <2>3. indexes' \in Seq(Index!Indexes) /\ Len(indexes') = Len(indexes)
    BY <1>1, <1>4, IndexPopped DEF SkipConfirmed
  <2>. QED BY <1>2, <1>3, <2>1, <2>2, <2>3 DEF driveVars, envVars
<1>5. CASE RecordExisting(e, ix)
  <2>1. Mark(e) /\ Reconcile(e) /\ UNCHANGED <<items, envVars>>
    BY <1>5 DEF RecordExisting
  <2>2. ListInv'
    BY <1>2, <2>1, Marked, Reconciled DEF ListInv, envVars, treeVars
  <2>3. indexes' \in Seq(Index!Indexes) /\ Len(indexes') = Len(indexes)
    BY <1>1, <1>5, IndexPopped DEF RecordExisting
  <2>. QED BY <1>2, <2>1, <2>2, <2>3, Marked DEF envVars
<1>6. CASE CountDryRun(e, ix)
  <2>1. Distrust(e) /\ UNCHANGED <<driveVars, dirty, indexes, failVars, envVars>>
    BY <1>6 DEF CountDryRun
  <2>2. ListInv'
    BY <1>2, <2>1 DEF ListInv, Distrust, driveVars, failVars, envVars, treeVars
  <2>. QED BY <1>1, <1>2, <1>3, <2>1, <2>2 DEF driveVars, envVars
<1>7. CASE CopyLands(e, d, ix)
  <2>1. /\ \/ items' = Landed(items, e, d) /\ UNCHANGED envVars
           \/ items' = Landed(Landed(items, e, d), e, d) /\ Fault("retried")
        /\ Mark(e) /\ Reconcile(e) /\ UNCHANGED indexes
    BY <1>7 DEF CopyLands
  <2>2. items' \in Seq(Item)
    BY <2>1, ItemLanded DEF ListInv
  <2>3. faults' \in Nat /\ spoiled' \subseteq FaultKinds /\ spoiled \subseteq spoiled'
    BY <2>1, FaultSpent DEF ListInv, envVars
  <2>4. ListInv'
    BY <1>2, <2>1, <2>2, <2>3, Marked, Reconciled DEF ListInv, treeVars
  <2>. QED BY <1>1, <1>2, <2>1, <2>3, <2>4, Marked
<1>8. CASE CopyFails(e, d, ix)
  <2>1. /\ Fault("copy") /\ Distrust(e) /\ RecordFailed({e, Source(e)})
        /\ UNCHANGED <<folders, dirty, indexes>>
        /\ items' = items \/ items' = Landed(items, e, d)
    BY <1>8 DEF CopyFails
  <2>6. items' \in Seq(Item)
    BY <2>1, ItemLanded DEF ListInv
  <2>2. {e, Source(e)} \in SUBSET Ids
    BY <1>3
  <2>3. faults' \in Nat /\ spoiled' \subseteq FaultKinds /\ spoiled \subseteq spoiled'
    BY <2>1, FaultSpent
  <2>4. /\ stateFailed' \subseteq FailedItem /\ failed' \subseteq FailedItem
        /\ prevFailed' \subseteq FailedItem
    BY <2>1, <2>2, FailedRecorded
  <2>5. ListInv'
    BY <1>2, <2>1, <2>3, <2>4, <2>6 DEF ListInv, Distrust, treeVars
  <2>. QED BY <1>1, <1>2, <1>3, <2>1, <2>3, <2>5
<1>. QED BY <1>4, <1>5, <1>6, <1>7, <1>8 DEF CopyFile

\* Then the invariant follows from what becomes of the stack and the jobs.
LEMMA CopyFileStep ==
  ASSUME Inv, OneFolderPerPlace, NEW e \in FileEntries, NEW d \in Nat,
         NEW ix \in 1..Len(indexes), CopyFile(e, d, ix), phase = "walk",
         StackOK(stack', Len(indexes)), jobs' \subseteq jobs
  PROVE  Inv' /\ OneFolderPerPlace'
<1>1. ListInv' /\ spoiled \subseteq spoiled'
  BY FileCopied
<1>2. UNCHANGED <<scenario, runVars, folderMap>>
  BY FileCopied
<1>3. /\ FoldersOK(folders') /\ Len(folders') = Len(folders)
      /\ DOMAIN folders' = DOMAIN folders
      /\ \A x \in DOMAIN folders : /\ folders'[x].key = folders[x].key
                                   /\ folders'[x].live = folders[x].live
                                   /\ folders'[x].parent = folders[x].parent
  BY FileCopied
<1>4. indexes' \in Seq(Index!Indexes) /\ Len(indexes') = Len(indexes)
  BY FileCopied
<1>5. DriveInv'
  BY <1>2, <1>3 DEF Inv, DriveInv, runVars
<1>6. RunInv'
  BY <1>2 DEF Inv, RunInv, runVars
<1>7. WalkInv'
  <2>1. phase' = "walk"
    BY <1>2 DEF runVars
  <2>. QED BY <1>4, <2>1 DEF Inv, WalkInv
<1>8. OneFolderPerPlace'
  BY <1>1, <1>3, PlacesKept
<1>. QED BY <1>1, <1>5, <1>6, <1>7, <1>8 DEF Inv

-----------------------------------------------------------------------------
(* Every action preserves the invariant and keeps the places apart         *)

\* The folders are left alone.
LEMMA FoldersAlone ==
  ASSUME Inv, OneFolderPerPlace, UNCHANGED <<folders, folderMap, droot>>,
         spoiled \subseteq spoiled'
  PROVE  DriveInv' /\ OneFolderPerPlace'
<1>1. DriveInv'
  BY DEF Inv, DriveInv
<1>2. OneFolderPerPlace'
  BY DEF OneFolderPerPlace
<1>. QED BY <1>1, <1>2

LEMMA StepStartRun ==
  ASSUME Inv, OneFolderPerPlace, NEW o \in scenario.options, StartRun(o)
  PROVE  Inv' /\ OneFolderPerPlace'
<1>1. o \in Options
  BY ScenarioAssumption DEF Inv, RunInv, Scenario
<1> USE DEF StartRun, driveVars, walkVars, markVars, failVars, treeVars, envVars
<1>2. DriveInv' /\ OneFolderPerPlace'
  BY FoldersAlone
<1>3. RunInv'
  BY <1>1 DEF Inv, RunInv, Phases
<1>4. ListInv'
  BY DEF Inv, ListInv
<1>5. WalkInv'
  BY DEF Inv, WalkInv
<1>. QED BY <1>2, <1>3, <1>4, <1>5 DEF Inv

LEMMA StepOpenRoot ==
  ASSUME Inv, OneFolderPerPlace, OpenRoot
  PROVE  Inv' /\ OneFolderPerPlace'
<1>1. PICK d \in Destinations(DestParent, Root) :
        LET log == IF d \in DOMAIN folders THEN folders[d].log ELSE None
        IN  /\ Obtain(DestParent, Root, d)
            /\ folderMap' = [e \in FolderEntries |->
                               IF e = Root THEN d
                               ELSE IF log = None THEN Nothing ELSE log.map[e]]
            /\ copied' = IF log = None THEN {} ELSE log.copied
            /\ done' = IF log = None THEN {} ELSE log.done
            /\ prevFailed' = IF log = None THEN {} ELSE log.failed
            /\ droot' = d
            /\ stack' = <<NewFrame(Root, d, "list", <<>>)>>
  BY DEF OpenRoot
<1>2. PICK log : log = IF d \in DOMAIN folders THEN folders[d].log ELSE None
  OBVIOUS
<1>3. /\ Obtain(DestParent, Root, d)
      /\ folderMap' = [e \in FolderEntries |->
                         IF e = Root THEN d
                         ELSE IF log = None THEN Nothing ELSE log.map[e]]
      /\ copied' = IF log = None THEN {} ELSE log.copied
      /\ done' = IF log = None THEN {} ELSE log.done
      /\ prevFailed' = IF log = None THEN {} ELSE log.failed
      /\ droot' = d
      /\ stack' = <<NewFrame(Root, d, "list", <<>>)>>
  BY <1>1, <1>2
<1>4. /\ phase = "open" /\ phase' = "walk"
      /\ UNCHANGED <<scenario, items, opt, stop, completed, indexes, jobs, dirty,
                     stateFailed, failed, treeVars>>
  BY DEF OpenRoot
<1>5. DestParent \in Nat /\ Root \in FolderEntries /\ Root \in Folders
  BY EntryFacts DEF DestParent
<1>6. /\ d \in Nat /\ d <= Len(folders')
      /\ FoldersOK(folders') /\ Len(folders) <= Len(folders')
      /\ Len(folders) \in Nat /\ Len(folders') \in Nat
      /\ faults' \in Nat /\ spoiled' \subseteq FaultKinds /\ spoiled \subseteq spoiled'
      /\ OneFolderPerPlace'
  BY <1>3, <1>5, ObtainKeeps DEF Inv
<1>7. log # None => /\ log \in Log
                    /\ \A e \in FolderEntries : log.map[e] <= Len(folders)
  <2>1. SUFFICES ASSUME log # None
                 PROVE  /\ log \in Log
                        /\ \A e \in FolderEntries : log.map[e] <= Len(folders)
    OBVIOUS
  <2>2. d \in DOMAIN folders /\ log = folders[d].log
    BY <1>2, <2>1
  <2>3. folders[d] \in DestFolder
    BY <2>2, LenProperties, ElementOfSeq DEF Inv, DriveInv, FoldersOK
  <2>. QED BY <2>1, <2>2, <2>3 DEF DestFolder, Inv, DriveInv, FoldersOK
<1>8. DriveInv'
  <2>1. folderMap' \in [FolderEntries -> Nat]
    BY <1>3, <1>6, <1>7 DEF Log, Nothing
  <2>2. \A e \in FolderEntries : folderMap'[e] <= Len(folders')
    <3>1. SUFFICES ASSUME NEW e \in FolderEntries PROVE folderMap'[e] <= Len(folders')
      OBVIOUS
    <3>2. CASE e = Root
      BY <1>3, <1>6, <3>2
    <3>3. CASE e # Root /\ log = None
      BY <1>3, <1>6, <3>3 DEF Nothing
    <3>4. CASE e # Root /\ log # None
      <4>1. log.map[e] \in Nat /\ log.map[e] <= Len(folders)
        BY <1>7, <3>4 DEF Log
      <4>. QED BY <1>3, <1>6, <3>4, <4>1
    <3>. QED BY <3>2, <3>3, <3>4
  <2>. QED BY <1>3, <1>6, <2>1, <2>2 DEF DriveInv
<1>9. RunInv'
  BY <1>4 DEF Inv, RunInv, Phases
<1>10. ListInv'
  BY <1>3, <1>4, <1>6, <1>7 DEF Inv, ListInv, Log, treeVars
<1>11. WalkInv'
  <2> DEFINE g == NewFrame(Root, d, "list", <<>>)
  <2>1. g \in Frame /\ g.stage = "list" /\ g.pending = <<>>
    BY <1>5, <1>6 DEF NewFrame, Frame, Stages
  <2>2. Len(indexes) \in Nat /\ stack = <<>>
    BY <1>4, LenProperties DEF Inv, WalkInv
  <2>3. StackOK(<<>>, Len(indexes)) /\ DOMAIN <<>> = {}
    BY <2>2, EmptyStack
  <2>4. stack' = Append(<<>>, g)
    BY <1>3
  <2> HIDE DEF g
  <2>5. StackOK(Append(<<>>, g), Len(indexes))
    <3>1. \A j \in DOMAIN <<>> : <<>>[j].src # g.src
      BY <2>3
    <3>. QED BY <2>1, <2>2, <2>3, <3>1, LevelEntered
  <2>. QED BY <1>4, <2>4, <2>5 DEF Inv, WalkInv
<1>. QED BY <1>6, <1>8, <1>9, <1>10, <1>11 DEF Inv

LEMMA StepRootFails ==
  ASSUME Inv, OneFolderPerPlace, RootFails
  PROVE  Inv' /\ OneFolderPerPlace'
<1>1. EndRun /\ UNCHANGED items
  BY DEF RootFails
<1>2. DestParent \in Nat /\ Root \in FolderEntries
  BY EntryFacts DEF DestParent
<1>3. /\ FoldersOK(folders') /\ OneFolderPerPlace'
      /\ faults' \in Nat /\ spoiled' \subseteq FaultKinds
  <2>1. CASE Fault("quota") /\ UNCHANGED folders
    <3>1. /\ faults' \in Nat /\ spoiled' \subseteq FaultKinds
          /\ spoiled \subseteq spoiled'
      BY <2>1, FaultSpent DEF Inv
    <3>. QED BY <2>1, <3>1 DEF OneFolderPerPlace, Inv, DriveInv
  <2>2. CASE CreationFails(DestParent, Root)
    BY <1>2, <2>2, CreationKeeps DEF Inv
  <2>. QED BY <2>1, <2>2 DEF RootFails
<1>4. Inv'
  BY <1>1, <1>3, RunEnded
<1>. QED BY <1>3, <1>4

\* Steps that touch neither the folders nor the run.
LEMMA QuietStep ==
  ASSUME Inv, OneFolderPerPlace, UNCHANGED <<scenario, folders, runVars, folderMap>>,
         ListInv', WalkInv', spoiled \subseteq spoiled'
  PROVE  Inv' /\ OneFolderPerPlace'
<1>1. DriveInv' /\ OneFolderPerPlace'
  BY FoldersAlone DEF runVars
<1>2. RunInv'
  BY DEF Inv, RunInv, runVars
<1>. QED BY <1>1, <1>2 DEF Inv

\* Steps that touch none of the lists.
LEMMA ListsAlone ==
  ASSUME ListInv, UNCHANGED <<items, markVars, done, failVars, treeVars, envVars>>
  PROVE  ListInv' /\ spoiled \subseteq spoiled'
BY DEF ListInv, markVars, failVars, treeVars, envVars

\* Steps of the traversal thread that leave the indexes and the jobs.
LEMMA StackStep ==
  ASSUME WalkInv, stack # <<>>, StackOK(stack', Len(indexes)),
         UNCHANGED <<phase, indexes, jobs>>
  PROVE  WalkInv'
BY TopIs DEF WalkInv

\* The steps that only go on to the next entry.
LEMMA NextEntryStep ==
  ASSUME Inv, OneFolderPerPlace, NEW e, AtEntry(e), SetTop(Next1),
         UNCHANGED <<scenario, driveVars, runVars, indexes, jobs, folderMap>>,
         ListInv', spoiled \subseteq spoiled'
  PROVE  Inv' /\ OneFolderPerPlace'
<1>1. stack # <<>> /\ Top.todo # <<>>
  BY DEF AtEntry
<1>2. StackOK(stack', Len(indexes))
  BY <1>1, LoopGoesOn DEF Inv
<1>3. WalkInv'
  BY <1>1, <1>2, StackStep DEF Inv, runVars
<1>. QED BY <1>3, QuietStep DEF driveVars

LEMMA StepRunJob ==
  ASSUME Inv, OneFolderPerPlace, RunJob
  PROVE  Inv' /\ OneFolderPerPlace'
<1>1. PICK j \in jobs : /\ jobs' = jobs \ {j}
                        /\ CopyFile(j.entry, j.dest, j.index)
                        /\ UNCHANGED stack
  BY DEF RunJob
<1>2. /\ j.entry \in FileEntries /\ j.dest \in Nat /\ j.index \in 1..Len(indexes)
      /\ phase = "walk"
  BY EntryFacts DEF Inv, WalkInv, Job
<1>3. StackOK(stack', Len(indexes)) /\ jobs' \subseteq jobs
  BY <1>1 DEF Inv, WalkInv
<1>. QED BY <1>1, <1>2, <1>3, CopyFileStep

LEMMA StepDropJobs ==
  ASSUME Inv, OneFolderPerPlace, DropJobs
  PROVE  Inv' /\ OneFolderPerPlace'
<1> USE DEF DropJobs
<1>1. ListInv' /\ spoiled \subseteq spoiled'
  BY ListsAlone DEF Inv, driveVars
<1>2. WalkInv'
  BY DEF Inv, WalkInv, runVars
<1>. QED BY <1>1, <1>2, QuietStep DEF driveVars

\* The pages before the one that fails are children too.
LEMMA PrefixesTyped ==
  ASSUME NEW s \in Seq(Ids), NEW t \in Prefixes(s)
  PROVE  t \in Seq(Ids)
<1>1. PICK n \in 0..Len(s) : t = SubSeq(s, 1, n)
  BY DEF Prefixes
<1>2. Len(s) \in Nat /\ \A i \in 1..Len(s) : s[i] \in Ids
  BY LenProperties, ElementOfSeq
<1>3. \A i \in 1..n : s[i] \in Ids
  BY <1>2
<1>. QED BY <1>1, <1>3, SubSeqProperties

\* A folder that could not be listed is a failed item.
LEMMA ListingFailed ==
  ASSUME ListInv, NEW f \in Folders, ListingError(f)
  PROVE  /\ stateFailed' \subseteq FailedItem /\ failed' \subseteq FailedItem
         /\ prevFailed' \subseteq FailedItem /\ listErrs' \subseteq Folders
         /\ faults' \in Nat /\ spoiled' \subseteq FaultKinds /\ spoiled \subseteq spoiled'
<1>1. {f} \in SUBSET Ids
  BY DEF Ids
<1>2. /\ stateFailed' \subseteq FailedItem /\ failed' \subseteq FailedItem
      /\ prevFailed' \subseteq FailedItem
  BY <1>1, FailedRecorded DEF ListingError
<1>3. listErrs' \subseteq Folders
  BY DEF ListingError, ListInv
<1>. QED BY <1>2, <1>3, FaultSpent DEF ListingError

\* The level is processed, or there is nothing to do in it.
LEMMA LevelListed ==
  ASSUME WalkInv, stack # <<>>, NEW kids \in Seq(Ids), EnterLevel(kids)
  PROVE  StackOK(stack', Len(indexes))
<1> DEFINE f == [Top EXCEPT !.stage = "index", !.todo = kids]
<1>1. Top \in Frame /\ Len(indexes) \in Nat /\ StackOK(stack, Len(indexes))
  BY TopIs DEF WalkInv
<1>2. CASE SetTop(f)
  <2>1. f \in Frame /\ f.src = Top.src /\ f.stage = "index" /\ f.pending = Top.pending
    BY <1>1 DEF Frame, Stages
  <2> HIDE DEF f
  <2>2. StackOK([stack EXCEPT ![Len(stack)] = f], Len(indexes))
    <3>1. /\ f.src = stack[Len(stack)].src /\ f.stage # "loop"
          /\ \A k \in DOMAIN f.pending : \A j \in DOMAIN stack :
               stack[j].src # f.pending[k].src
      BY <2>1, TopIs DEF Top
    <3>. QED BY <1>1, <2>1, <3>1, TopChanges
  <2>. QED BY <1>2, <2>2 DEF SetTop
<1>3. CASE Return
  BY <1>1, <1>3, LevelReturns DEF Return
<1>. QED BY <1>2, <1>3 DEF EnterLevel

LEMMA StepListFolder ==
  ASSUME Inv, OneFolderPerPlace, ListFolder
  PROVE  Inv' /\ OneFolderPerPlace'
<1>1. /\ phase = "walk" /\ stack # <<>>
      /\ recorded' = IF opt.skip THEN recorded \union {Top.src} ELSE recorded
      /\ UNCHANGED <<scenario, driveVars, runVars, indexes, jobs, folderMap, markVars,
                     done>>
  BY DEF ListFolder
<1>2. Top.src \in Folders
  BY <1>1, TopIs DEF Inv, Frame
<1>3. Children(Top.src) \in Seq(Ids)
  BY <1>2, ChildrenTyped DEF Inv, RunInv
<1>4. recorded' \subseteq Folders
  BY <1>1, <1>2 DEF Inv, ListInv
<1>5. PICK kids \in Seq(Ids) : EnterLevel(kids)
  <2>1. CASE EnterLevel(Children(Top.src))
    BY <1>3, <2>1
  <2>2. CASE \E kids \in Prefixes(Children(Top.src)) : EnterLevel(kids)
    BY <1>3, <2>2, PrefixesTyped
  <2>. QED BY <2>1, <2>2 DEF ListFolder
<1>6. StackOK(stack', Len(indexes))
  BY <1>1, <1>5, LevelListed DEF Inv
<1>7. ListInv' /\ spoiled \subseteq spoiled'
  <2>1. CASE UNCHANGED <<failVars, listErrs, envVars>>
    BY <1>1, <1>4, <2>1 DEF Inv, ListInv, failVars, envVars, markVars, driveVars
  <2>2. CASE ListingError(Top.src)
    <3>1. /\ stateFailed' \subseteq FailedItem /\ failed' \subseteq FailedItem
          /\ prevFailed' \subseteq FailedItem /\ listErrs' \subseteq Folders
          /\ faults' \in Nat /\ spoiled' \subseteq FaultKinds
          /\ spoiled \subseteq spoiled'
      BY <1>2, <2>2, ListingFailed DEF Inv
    <3>. QED BY <1>1, <1>4, <3>1 DEF Inv, ListInv, markVars, driveVars
  <2>. QED BY <2>1, <2>2 DEF ListFolder
<1>8. WalkInv'
  BY <1>1, <1>6, StackStep DEF Inv, runVars
<1>. QED BY <1>1, <1>7, <1>8, QuietStep DEF driveVars

LEMMA StepBuildIndex ==
  ASSUME Inv, OneFolderPerPlace, BuildIndex
  PROVE  Inv' /\ OneFolderPerPlace'
<1>1. /\ stack # <<>> /\ Top.stage = "index"
      /\ SetTop([Top EXCEPT !.stage = "loop", !.index = Len(indexes) + 1])
      /\ UNCHANGED <<scenario, driveVars, runVars, jobs, folderMap, markVars, done,
                     failVars, treeVars>>
  BY DEF BuildIndex
<1>2. /\ Len(indexes) \in Nat /\ indexes \in Seq(Index!Indexes)
      /\ items \in Seq(Item)
  BY <1>1, TopIs DEF Inv, WalkInv, ListInv
<1>3. PICK index \in Index!Indexes : indexes' = Append(indexes, index)
  <2>1. PICK listed \in SUBSET DOMAIN items :
          indexes' = Append(indexes, Index!Build(items, listed))
    <3>1. \A d : ItemsIn(d) \in SUBSET DOMAIN items
      BY DEF ItemsIn
    <3>. QED BY <3>1 DEF BuildIndex
  <2>2. Index!Build(items, listed) \in Index!Indexes
    BY <1>2, BuildTyped
  <2>. QED BY <2>1, <2>2
<1>4. indexes' \in Seq(Index!Indexes) /\ Len(indexes') = Len(indexes) + 1
  BY <1>2, <1>3, AppendProperties
<1>5. PICK n \in Nat : n = Len(indexes) + 1
  BY <1>2
<1>6. StackOK(stack', n)
  <2> DEFINE f == [Top EXCEPT !.stage = "loop", !.index = Len(indexes) + 1]
  <2>1. Top \in Frame
    BY <1>1, TopIs DEF Inv
  <2>2. f \in Frame /\ f.src = Top.src /\ f.index = n /\ f.pending = Top.pending
    BY <1>5, <2>1 DEF Frame, Stages
  <2>3. stack' = [stack EXCEPT ![Len(stack)] = f]
    BY <1>1 DEF SetTop
  <2> HIDE DEF f
  <2>4. StackOK(stack, n)
    BY <1>2, <1>5, MoreIndexes DEF Inv, WalkInv
  <2>5. /\ f.src = stack[Len(stack)].src /\ f.index \in 1..n
        /\ \A k \in DOMAIN f.pending : \A j \in DOMAIN stack :
             stack[j].src # f.pending[k].src
    BY <1>1, <1>2, <1>5, <2>2, TopIs DEF Inv, Top
  <2>6. StackOK([stack EXCEPT ![Len(stack)] = f], n)
    BY <1>1, <2>2, <2>4, <2>5, TopChanges
  <2>. QED BY <2>3, <2>6
<1>7. WalkInv'
  <2>1. phase' = "walk" /\ jobs' = jobs
    BY <1>1, TopIs DEF Inv, runVars
  <2>. QED BY <1>2, <1>4, <1>5, <1>6, <2>1 DEF Inv, WalkInv
<1>8. ListInv' /\ spoiled \subseteq spoiled'
  <2>1. faults' \in Nat /\ spoiled' \subseteq FaultKinds /\ spoiled \subseteq spoiled'
    <3>1. CASE UNCHANGED envVars
      BY <3>1 DEF envVars, Inv, ListInv
    <3>2. CASE Fault("index")
      BY <3>2, FaultSpent DEF Inv
    <3>. QED BY <3>1, <3>2 DEF BuildIndex
  <2>. QED BY <1>1, <2>1 DEF Inv, ListInv, markVars, driveVars, failVars, treeVars
<1>. QED BY <1>1, <1>7, <1>8, QuietStep DEF driveVars

LEMMA StepSubmitFile ==
  ASSUME Inv, OneFolderPerPlace, NEW e \in Ids, SubmitFile(e)
  PROVE  Inv' /\ OneFolderPerPlace'
<1> USE DEF SubmitFile
<1>1. /\ stack # <<>> /\ Top.todo # <<>> /\ phase = "walk"
      /\ Top.dest \in Nat /\ Top.index \in 1..Len(indexes)
  BY AtEntryIs DEF Inv
<1>2. StackOK(stack', Len(indexes))
  BY <1>1, LoopGoesOn DEF Inv
<1>3. [entry |-> e, dest |-> Top.dest, index |-> Top.index] \in Job
  BY <1>1, LenProperties DEF Job, Inv, WalkInv
<1>4. WalkInv'
  BY <1>1, <1>2, <1>3 DEF Inv, WalkInv, runVars
<1>5. ListInv' /\ spoiled \subseteq spoiled'
  BY ListsAlone DEF Inv, driveVars
<1>. QED BY <1>4, <1>5, QuietStep DEF driveVars

LEMMA StepCopyInline ==
  ASSUME Inv, OneFolderPerPlace, NEW e \in Ids, CopyInline(e)
  PROVE  Inv' /\ OneFolderPerPlace'
<1>1. /\ AtEntry(e) /\ e \in FileEntries /\ CopyFile(e, Top.dest, Top.index)
      /\ SetTop(Next1) /\ jobs' = jobs
  BY DEF CopyInline
<1>2. /\ stack # <<>> /\ Top.todo # <<>> /\ phase = "walk"
      /\ Top.dest \in Nat /\ Top.index \in 1..Len(indexes)
  BY <1>1, AtEntryIs DEF Inv
<1>3. StackOK(stack', Len(indexes))
  BY <1>1, <1>2, LoopGoesOn DEF Inv
<1>4. PICK d \in Nat, ix \in 1..Len(indexes) : CopyFile(e, d, ix)
  BY <1>1, <1>2
<1>. QED BY <1>1, <1>2, <1>3, <1>4, CopyFileStep

\* A failure of an entry, after which the loop goes on.
LEMMA EntryFails ==
  ASSUME Inv, OneFolderPerPlace, NEW e \in Ids, AtEntry(e), NEW kind, Fault(kind),
         NEW keys \in SUBSET Ids, RecordFailed(keys), SetTop(Next1),
         UNCHANGED <<scenario, driveVars, runVars, indexes, jobs, folderMap, markVars,
                     done, treeVars>>
  PROVE  Inv' /\ OneFolderPerPlace'
<1>1. faults' \in Nat /\ spoiled' \subseteq FaultKinds /\ spoiled \subseteq spoiled'
  BY FaultSpent DEF Inv
<1>2. /\ stateFailed' \subseteq FailedItem /\ failed' \subseteq FailedItem
      /\ prevFailed' \subseteq FailedItem
  BY FailedRecorded DEF Inv
<1>3. ListInv'
  BY <1>1, <1>2 DEF Inv, ListInv, driveVars, markVars, treeVars
<1>. QED BY <1>1, <1>3, NextEntryStep

LEMMA StepShortcutUnresolved ==
  ASSUME Inv, OneFolderPerPlace, NEW e \in Ids, ShortcutUnresolved(e)
  PROVE  Inv' /\ OneFolderPerPlace'
<1>1. {e, Target[e]} \in SUBSET Ids
  BY EntryFacts DEF ShortcutUnresolved
<1>. QED BY <1>1, EntryFails DEF ShortcutUnresolved

LEMMA StepCreateFails ==
  ASSUME Inv, OneFolderPerPlace, NEW e \in Ids, CreateFails(e)
  PROVE  Inv' /\ OneFolderPerPlace'
<1>1. /\ Enters(e) /\ CreationFails(Top.dest, e) /\ RecordFailed({e, Source(e)})
      /\ SetTop(Next1)
      /\ UNCHANGED <<scenario, items, runVars, indexes, jobs, folderMap, markVars, done,
                     treeVars>>
  BY DEF CreateFails
<1>2. /\ AtEntry(e) /\ e \in FolderEntries /\ stack # <<>> /\ Top.todo # <<>>
      /\ Top.dest \in Nat
  BY <1>1, AtEntryIs DEF Enters, Inv
<1>3. PICK parent \in Nat : parent = Top.dest
  BY <1>2
<1>4. /\ FoldersOK(folders') /\ Len(folders) <= Len(folders')
      /\ Len(folders) \in Nat /\ Len(folders') \in Nat
      /\ faults' \in Nat /\ spoiled' \subseteq FaultKinds
      /\ OneFolderPerPlace'
  BY <1>1, <1>2, <1>3, CreationKeeps DEF Inv
<1>5. DriveInv'
  <2>1. folderMap' = folderMap /\ droot' = droot
    BY <1>1 DEF runVars
  <2>. QED BY <1>4, <2>1 DEF Inv, DriveInv
<1>6. RunInv'
  BY <1>1 DEF Inv, RunInv, runVars
<1>7. ListInv'
  <2>1. {e, Source(e)} \in SUBSET Ids
    BY EntryFacts
  <2>2. /\ stateFailed' \subseteq FailedItem /\ failed' \subseteq FailedItem
        /\ prevFailed' \subseteq FailedItem
    BY <1>1, <2>1, FailedRecorded DEF Inv
  <2>. QED BY <1>1, <1>4, <2>2 DEF Inv, ListInv, markVars, treeVars
<1>8. WalkInv'
  <2>1. StackOK(stack', Len(indexes))
    BY <1>1, <1>2, LoopGoesOn DEF Inv
  <2>. QED BY <1>1, <1>2, <2>1, StackStep DEF Inv, runVars
<1>. QED BY <1>4, <1>5, <1>6, <1>7, <1>8 DEF Inv

LEMMA StepLoopSkipped ==
  ASSUME Inv, OneFolderPerPlace, NEW e \in Ids, LoopSkipped(e)
  PROVE  Inv' /\ OneFolderPerPlace'
<1>1. ListInv' /\ spoiled \subseteq spoiled'
  BY ListsAlone DEF Inv, LoopSkipped, driveVars
<1>. QED BY <1>1, NextEntryStep DEF LoopSkipped

LEMMA StepSkipComplete ==
  ASSUME Inv, OneFolderPerPlace, NEW e \in Ids, SkipComplete(e)
  PROVE  Inv' /\ OneFolderPerPlace'
<1>1. ListInv' /\ spoiled \subseteq spoiled'
  BY ListsAlone DEF Inv, SkipComplete, driveVars
<1>. QED BY <1>1, NextEntryStep DEF SkipComplete

\* The stack when a folder is entered, or put off.
LEMMA FolderEntered ==
  ASSUME WalkInv, NEW e \in FolderEntries, Enters(e), NEW d \in Nat,
         \/ SetTop([Next1 EXCEPT !.pending =
              Append(@, [src |-> Source(e), dest |-> d, kids |-> <<>>])])
         \/ stack' = Append([stack EXCEPT ![Len(stack)] = Next1],
                            NewFrame(Source(e), d, "list", <<>>))
  PROVE  StackOK(stack', Len(indexes))
<1>1. /\ stack # <<>> /\ Top.todo # <<>> /\ Top \in Frame
      /\ \A j \in DOMAIN stack : stack[j].src # Source(e)
      /\ Source(e) \in Folders /\ Len(indexes) \in Nat /\ StackOK(stack, Len(indexes))
  BY AtEntryIs, TopIs, EntryFacts DEF Enters, Visited, WalkInv
<1>2. Tail(Top.todo) \in Seq(Ids) /\ Top.pending \in Seq(Pending)
  BY <1>1, HeadTailProperties DEF Frame
<1>3. PICK f \in Frame : f = Next1
  BY <1>1, <1>2 DEF Next1, Frame
<1>4. /\ f.src = Top.src /\ f.stage = Top.stage /\ f.index = Top.index
      /\ f.pending = Top.pending
  BY <1>1, <1>3 DEF Next1, Frame
<1>5. /\ f.stage = "loop" => f.index \in 1..Len(indexes)
      /\ \A k \in DOMAIN Top.pending : \A j \in DOMAIN stack :
           stack[j].src # Top.pending[k].src
      /\ DOMAIN stack = 1..Len(stack) /\ Top.src = stack[Len(stack)].src
  BY <1>1, <1>4, TopIs DEF Top
<1>6. CASE stack' = Append([stack EXCEPT ![Len(stack)] = Next1],
                           NewFrame(Source(e), d, "list", <<>>))
  <2> DEFINE s == [stack EXCEPT ![Len(stack)] = f]
             g == NewFrame(Source(e), d, "list", <<>>)
  <2>1. StackOK(s, Len(indexes))
    <3>1. /\ f.src = stack[Len(stack)].src
          /\ \A k \in DOMAIN f.pending : \A j \in DOMAIN stack :
               stack[j].src # f.pending[k].src
      BY <1>4, <1>5
    <3>. QED BY <1>1, <1>5, <3>1, TopChanges
  <2>2. \A j \in DOMAIN s : s[j].src # Source(e)
    BY <1>1, <1>4, <1>5
  <2>3. g \in Frame /\ g.stage # "loop" /\ g.pending = <<>> /\ g.src = Source(e)
    BY <1>1, EmptySeq DEF NewFrame, Frame, Stages
  <2>4. stack' = Append(s, g)
    BY <1>3, <1>6
  <2> HIDE DEF s, g
  <2>5. StackOK(Append(s, g), Len(indexes))
    BY <1>1, <2>1, <2>2, <2>3, LevelEntered
  <2>. QED BY <2>4, <2>5
<1>7. CASE SetTop([Next1 EXCEPT !.pending =
             Append(@, [src |-> Source(e), dest |-> d, kids |-> <<>>])])
  <2> DEFINE p == [src |-> Source(e), dest |-> d, kids |-> <<>>]
             h == [f EXCEPT !.pending = Append(@, p)]
  <2>1. p \in Pending /\ p.src = Source(e)
    BY <1>1, EmptySeq DEF Pending
  <2>2. stack' = [stack EXCEPT ![Len(stack)] = h]
    BY <1>3, <1>7 DEF SetTop
  <2> HIDE DEF p
  <2>3. PICK q \in Seq(Pending) : q = Append(Top.pending, p)
    BY <1>2, <2>1, AppendProperties
  <2>4. \A k \in DOMAIN q : q[k] = p \/ (k \in DOMAIN Top.pending /\ q[k] = Top.pending[k])
    BY <1>2, <2>1, <2>3, AppendProperties, LenProperties
  <2>5. /\ h \in Frame /\ h.src = f.src /\ h.stage = f.stage /\ h.index = f.index
        /\ h.pending = q
    BY <1>4, <2>3 DEF Frame
  <2> HIDE DEF h
  <2>6. \A k \in DOMAIN h.pending : \A j \in DOMAIN stack : stack[j].src # h.pending[k].src
    BY <1>1, <1>5, <2>1, <2>4, <2>5
  <2>7. StackOK([stack EXCEPT ![Len(stack)] = h], Len(indexes))
    BY <1>1, <1>4, <1>5, <2>5, <2>6, TopChanges
  <2>. QED BY <2>2, <2>7
<1>. QED BY <1>6, <1>7

LEMMA StepEnterFolder ==
  ASSUME Inv, OneFolderPerPlace, NEW e \in Ids, EnterFolder(e)
  PROVE  Inv' /\ OneFolderPerPlace'
<1>1. PICK d \in Destinations(Top.dest, e) :
        /\ Obtain(Top.dest, e, d)
        /\ folderMap' = IF d = Nothing THEN folderMap ELSE [folderMap EXCEPT ![e] = d]
        /\ \/ SetTop([Next1 EXCEPT !.pending =
                Append(@, [src |-> Source(e), dest |-> d, kids |-> <<>>])])
           \/ stack' = Append([stack EXCEPT ![Len(stack)] = Next1],
                              NewFrame(Source(e), d, "list", <<>>))
  BY DEF EnterFolder
<1>2. /\ Enters(e)
      /\ UNCHANGED <<scenario, items, runVars, indexes, jobs, markVars, done, failVars,
                     treeVars>>
  BY DEF EnterFolder
<1>3. /\ e \in FolderEntries /\ stack # <<>> /\ Top.dest \in Nat
  BY <1>2, AtEntryIs DEF Enters, Inv
<1>4. /\ d \in Nat /\ d <= Len(folders')
      /\ FoldersOK(folders') /\ Len(folders) <= Len(folders')
      /\ Len(folders) \in Nat /\ Len(folders') \in Nat
      /\ faults' \in Nat /\ spoiled' \subseteq FaultKinds /\ spoiled \subseteq spoiled'
      /\ OneFolderPerPlace'
  <2>1. PICK parent \in Nat : parent = Top.dest
    BY <1>3
  <2>2. d \in Destinations(parent, e) /\ Obtain(parent, e, d)
    BY <1>1, <2>1
  <2>. QED BY <1>3, <2>2, ObtainKeeps DEF Inv
<1>5. DriveInv'
  <2>1. folderMap' \in [FolderEntries -> Nat] /\ droot' \in Nat
    BY <1>1, <1>2, <1>4 DEF Inv, DriveInv, runVars
  <2>2. \A x \in FolderEntries : folderMap'[x] = folderMap[x] \/ folderMap'[x] = d
    BY <1>1 DEF Inv, DriveInv
  <2>3. \A x \in FolderEntries : folderMap[x] \in Nat /\ folderMap[x] <= Len(folders)
    BY DEF Inv, DriveInv
  <2>4. \A x \in FolderEntries : folderMap'[x] <= Len(folders')
    BY <1>4, <2>2, <2>3
  <2>. QED BY <1>4, <2>1, <2>4 DEF DriveInv
<1>6. RunInv'
  BY <1>2 DEF Inv, RunInv, runVars
<1>7. ListInv'
  BY <1>2, <1>4 DEF Inv, ListInv, markVars, failVars, treeVars
<1>8. WalkInv'
  <2>1. StackOK(stack', Len(indexes))
    BY <1>1, <1>2, <1>3, <1>4, FolderEntered DEF Inv
  <2>. QED BY <1>2, <1>3, <2>1, StackStep DEF Inv, runVars
<1>. QED BY <1>4, <1>5, <1>6, <1>7, <1>8 DEF Inv

LEMMA StepLeaveLevel ==
  ASSUME Inv, OneFolderPerPlace, LeaveLevel
  PROVE  Inv' /\ OneFolderPerPlace'
<1> USE DEF LeaveLevel
<1>1. StackOK(stack', Len(indexes))
  BY TopIs, LevelReturns DEF Inv, WalkInv, Return
<1>2. WalkInv'
  BY <1>1, StackStep DEF Inv, runVars
<1>3. ListInv' /\ spoiled \subseteq spoiled'
  BY ListsAlone DEF Inv, driveVars
<1>. QED BY <1>2, <1>3, QuietStep DEF driveVars

\* The folders that were put off get their children, and stay the same folders.
LEMMA KidsSet ==
  ASSUME WalkInv, stack # <<>>, NEW kids, SetKids(kids),
         \A f \in Batch : kids[f] \in Seq(Ids)
  PROVE  StackOK(stack', Len(indexes))
<1>1. /\ Top \in Frame /\ Len(indexes) \in Nat /\ StackOK(stack, Len(indexes))
      /\ Top.pending \in Seq(Pending)
  BY TopIs DEF WalkInv, Frame
<1> DEFINE q == [i \in DOMAIN Top.pending |->
                   [Top.pending[i] EXCEPT !.kids = kids[Top.pending[i].src]]]
           f == [Top EXCEPT !.stage = "descend", !.pending = q]
<1>2. Len(Top.pending) \in Nat /\ DOMAIN Top.pending = 1..Len(Top.pending)
  BY <1>1, LenProperties
<1>3. \A i \in DOMAIN Top.pending : Top.pending[i] \in Pending
  BY <1>1, <1>2, ElementOfSeq
<1>4. \A i \in DOMAIN Top.pending : kids[Top.pending[i].src] \in Seq(Ids)
  BY DEF Batch
<1>5. \A i \in DOMAIN q : q[i] \in Pending /\ q[i].src = Top.pending[i].src
  BY <1>3, <1>4 DEF Pending
<1>6. DOMAIN q = DOMAIN Top.pending
  OBVIOUS
<1>7. q \in [1..Len(Top.pending) -> Pending]
  BY <1>2, <1>5
<1> HIDE DEF q
<1>8. q \in Seq(Pending)
  BY <1>2, <1>7, SeqDef
<1>9. f \in Frame /\ f.src = Top.src /\ f.stage = "descend" /\ f.pending = q
  BY <1>1, <1>8 DEF Frame, Stages
<1>10. stack' = [stack EXCEPT ![Len(stack)] = f]
  BY DEF SetKids, SetTop, q
<1> HIDE DEF f
<1>11. /\ f.src = stack[Len(stack)].src /\ f.stage # "loop"
       /\ \A k \in DOMAIN f.pending : \A j \in DOMAIN stack :
            stack[j].src # f.pending[k].src
  BY <1>5, <1>6, <1>9, TopIs DEF Top
<1>12. StackOK([stack EXCEPT ![Len(stack)] = f], Len(indexes))
  BY <1>1, <1>9, <1>11, TopChanges
<1>. QED BY <1>10, <1>12

LEMMA StepBatchedList ==
  ASSUME Inv, OneFolderPerPlace, BatchedList
  PROVE  Inv' /\ OneFolderPerPlace'
<1>1. /\ stack # <<>>
      /\ UNCHANGED <<scenario, driveVars, runVars, indexes, jobs, folderMap, markVars,
                     done, recorded>>
  BY DEF BatchedList
<1>2. \A f \in Batch : f \in Folders
  <2>1. Top.pending \in Seq(Pending)
    BY <1>1, TopIs DEF Inv, Frame
  <2>2. \A i \in DOMAIN Top.pending : Top.pending[i] \in Pending
    BY <2>1, LenProperties, ElementOfSeq
  <2>. QED BY <2>2 DEF Batch, Pending
<1>3. \A f \in Batch : Children(f) \in Seq(Ids)
  BY <1>2, ChildrenTyped DEF Inv, RunInv
<1>4. \A lost \in SUBSET Batch : \A f \in Batch : Listing(lost)[f] \in Seq(Ids)
  BY <1>3, EmptySeq DEF Listing, Batched
<1>5. PICK lost \in SUBSET Batch :
        \/ SetKids(Listing(lost)) /\ UNCHANGED <<failVars, listErrs, envVars>>
        \/ \E f \in Batch :
             /\ \E kids \in Prefixes(Children(f)) :
                  SetKids([Listing(lost) EXCEPT ![f] = kids])
             /\ ListingError(f)
  BY DEF BatchedList
<1>6. CASE SetKids(Listing(lost)) /\ UNCHANGED <<failVars, listErrs, envVars>>
  <2>1. StackOK(stack', Len(indexes))
    BY <1>1, <1>4, <1>6, KidsSet DEF Inv
  <2>2. WalkInv'
    BY <1>1, <2>1, StackStep DEF Inv, runVars
  <2>3. ListInv' /\ spoiled \subseteq spoiled'
    BY <1>1, <1>6 DEF Inv, ListInv, failVars, envVars, markVars, driveVars
  <2>. QED BY <1>1, <2>2, <2>3, QuietStep DEF driveVars
<1>7. ASSUME NEW f \in Batch, NEW kids \in Prefixes(Children(f)),
             SetKids([Listing(lost) EXCEPT ![f] = kids]), ListingError(f)
      PROVE  Inv' /\ OneFolderPerPlace'
  <2>1. kids \in Seq(Ids)
    BY <1>3, PrefixesTyped
  <2>2. PICK all : all = [Listing(lost) EXCEPT ![f] = kids]
    OBVIOUS
  <2>3. \A x \in Batch : all[x] = kids \/ all[x] = Listing(lost)[x]
    BY <2>2 DEF Listing
  <2>4. \A x \in Batch : all[x] \in Seq(Ids)
    BY <1>4, <2>1, <2>3
  <2>5. StackOK(stack', Len(indexes))
    BY <1>1, <1>7, <2>2, <2>4, KidsSet DEF Inv
  <2>6. WalkInv'
    BY <1>1, <2>5, StackStep DEF Inv, runVars
  <2>7. /\ stateFailed' \subseteq FailedItem /\ failed' \subseteq FailedItem
        /\ prevFailed' \subseteq FailedItem /\ listErrs' \subseteq Folders
        /\ faults' \in Nat /\ spoiled' \subseteq FaultKinds /\ spoiled \subseteq spoiled'
    BY <1>2, <1>7, ListingFailed DEF Inv
  <2>8. ListInv'
    BY <1>1, <2>7 DEF Inv, ListInv, markVars, driveVars
  <2>. QED BY <1>1, <2>6, <2>7, <2>8, QuietStep DEF driveVars
<1>. QED BY <1>5, <1>6, <1>7

LEMMA StepDescend ==
  ASSUME Inv, OneFolderPerPlace, Descend
  PROVE  Inv' /\ OneFolderPerPlace'
<1>1. /\ stack # <<>> /\ Top.stage = "descend" /\ Top.pending # <<>>
      /\ UNCHANGED <<scenario, driveVars, runVars, indexes, jobs, folderMap, markVars,
                     done, failVars, treeVars, envVars>>
  BY DEF Descend
<1>2. /\ Top \in Frame /\ Len(indexes) \in Nat /\ StackOK(stack, Len(indexes))
      /\ Top.pending \in Seq(Pending) /\ DOMAIN stack = 1..Len(stack)
  BY <1>1, TopIs DEF Inv, WalkInv, Frame
<1> DEFINE f == [Top EXCEPT !.pending = Tail(@)]
           rest == [stack EXCEPT ![Len(stack)] = f]
           sub == Head(Top.pending)
           g == NewFrame(sub.src, sub.dest, "index", sub.kids)
<1>3. /\ sub \in Pending /\ Tail(Top.pending) \in Seq(Pending)
      /\ Len(Top.pending) \in Nat /\ Len(Tail(Top.pending)) = Len(Top.pending) - 1
  BY <1>1, <1>2, HeadTailProperties, LenProperties
<1>4. /\ Len(Top.pending) # 0 /\ DOMAIN Top.pending = 1..Len(Top.pending)
      /\ DOMAIN Tail(Top.pending) = 1..(Len(Top.pending) - 1)
  BY <1>1, <1>2, <1>3, EmptySeq, LenProperties
<1>5. \A k \in DOMAIN Tail(Top.pending) :
        k + 1 \in DOMAIN Top.pending /\ Tail(Top.pending)[k] = Top.pending[k + 1]
  BY <1>1, <1>2, <1>3, <1>4
<1>6. \A k \in DOMAIN Top.pending : \A j \in DOMAIN stack :
        stack[j].src # Top.pending[k].src
  BY <1>1, TopIs DEF Inv
<1>7. sub = Top.pending[1] /\ 1 \in DOMAIN Top.pending
  BY <1>1, <1>2, <1>3, <1>4
<1>8. /\ f \in Frame /\ f.src = Top.src /\ f.stage = "descend"
      /\ f.pending = Tail(Top.pending)
  BY <1>1, <1>2, <1>3 DEF Frame
<1> HIDE DEF f
<1>9. /\ f.src = stack[Len(stack)].src /\ f.stage # "loop"
      /\ \A k \in DOMAIN f.pending : \A j \in DOMAIN stack :
           stack[j].src # f.pending[k].src
  BY <1>5, <1>6, <1>8 DEF Top
<1>10. StackOK(rest, Len(indexes))
  BY <1>1, <1>2, <1>8, <1>9, TopChanges
<1>11. \A j \in DOMAIN rest : rest[j].src = stack[j].src
  BY <1>2, <1>9
<1>12. /\ g \in Frame /\ g.stage # "loop" /\ g.pending = <<>> /\ g.src = sub.src
       /\ \A j \in DOMAIN rest : rest[j].src # g.src
  <2>1. g \in Frame /\ g.stage # "loop" /\ g.pending = <<>> /\ g.src = sub.src
    BY <1>3, EmptySeq DEF NewFrame, Frame, Stages, Pending
  <2>2. DOMAIN rest = DOMAIN stack
    OBVIOUS
  <2> HIDE DEF g, rest, sub
  <2>. QED BY <1>6, <1>7, <1>11, <2>1, <2>2
<1>13. stack' = Append(rest, g) \/ stack' = rest
  BY DEF Descend, f
<1> HIDE DEF g, rest
<1>14. StackOK(Append(rest, g), Len(indexes))
  BY <1>2, <1>10, <1>12, LevelEntered
<1>15. WalkInv'
  BY <1>1, <1>10, <1>13, <1>14, StackStep DEF Inv, runVars
<1>16. ListInv' /\ spoiled \subseteq spoiled'
  BY <1>1, ListsAlone DEF Inv, driveVars
<1>. QED BY <1>1, <1>15, <1>16, QuietStep DEF driveVars

\* Steps that save the log, at most, among the folders.
LEMMA SavingStep ==
  ASSUME Inv, OneFolderPerPlace, NEW c \in SUBSET FileEntries, NEW dn \in SUBSET Folders,
         SaveLog(c, dn) \/ UNCHANGED folders, UNCHANGED <<folderMap, droot>>,
         RunInv', ListInv', WalkInv', spoiled \subseteq spoiled'
  PROVE  Inv' /\ OneFolderPerPlace'
<1>1. CASE UNCHANGED folders
  BY <1>1, FoldersAlone DEF Inv
<1>2. CASE SaveLog(c, dn)
  <2>1. /\ FoldersOK(folders') /\ Len(folders') = Len(folders)
        /\ DOMAIN folders' = DOMAIN folders
        /\ \A x \in DOMAIN folders : /\ folders'[x].key = folders[x].key
                                     /\ folders'[x].live = folders[x].live
                                     /\ folders'[x].parent = folders[x].parent
    BY <1>2, LogSaved DEF Inv
  <2>2. DriveInv'
    BY <2>1 DEF Inv, DriveInv
  <2>3. OneFolderPerPlace'
    BY <2>1, PlacesKept
  <2>. QED BY <2>2, <2>3 DEF Inv
<1>. QED BY <1>1, <1>2

\* Nothing is left of the stack.
LEMMA StackEmptied ==
  ASSUME WalkInv, phase = "walk", stack' = <<>>, UNCHANGED <<phase, indexes, jobs>>
  PROVE  WalkInv'
<1>1. Len(indexes) \in Nat
  BY LenProperties DEF WalkInv
<1>2. StackOK(stack', Len(indexes))
  BY <1>1, EmptyStack
<1>. QED BY <1>2 DEF WalkInv

LEMMA StepQuotaStops ==
  ASSUME Inv, OneFolderPerPlace, QuotaStops
  PROVE  Inv' /\ OneFolderPerPlace'
<1>1. /\ phase = "walk" /\ stop' = TRUE /\ stack' = <<>>
      /\ UNCHANGED <<scenario, items, phase, opt, droot, completed, indexes, jobs,
                     folderMap, copied, done, failVars, treeVars>>
      /\ dirty' \in {0, dirty}
      /\ SaveLog(copied, done) \/ UNCHANGED folders
  BY DEF QuotaStops
<1>2. faults' \in Nat /\ spoiled' \subseteq FaultKinds /\ spoiled \subseteq spoiled'
  BY FaultSpent DEF QuotaStops, Inv
<1>3. RunInv'
  BY <1>1 DEF Inv, RunInv
<1>4. ListInv'
  BY <1>1, <1>2 DEF Inv, ListInv, failVars, treeVars
<1>5. WalkInv'
  BY <1>1, StackEmptied DEF Inv
<1>6. copied \in SUBSET FileEntries /\ done \in SUBSET Folders
  BY DEF Inv, ListInv
<1>. QED BY <1>1, <1>2, <1>3, <1>4, <1>5, <1>6, SavingStep

LEMMA StepFinish ==
  ASSUME Inv, OneFolderPerPlace, Finish
  PROVE  Inv' /\ OneFolderPerPlace'
<1>1. /\ phase = "walk" /\ stack = <<>> /\ jobs = {} /\ phase' = "finish"
      /\ completed' = ~stop
      /\ done' = IF opt.skip THEN done \union Completed ELSE done
      /\ SaveLog(copied, done')
      /\ dirty' \in {0, dirty}
      /\ UNCHANGED <<scenario, items, opt, droot, stop, walkVars, folderMap, copied,
                     failVars, treeVars, envVars>>
  BY DEF Finish
<1>2. Completed \subseteq recorded
  BY DEF Completed
<1>3. done' \in SUBSET Folders
  BY <1>1, <1>2 DEF Inv, ListInv
<1>4. PICK dn \in SUBSET Folders : dn = done' /\ SaveLog(copied, dn)
  BY <1>1, <1>3
<1>5. RunInv'
  BY <1>1 DEF Inv, RunInv, Phases
<1>6. ListInv' /\ spoiled \subseteq spoiled'
  BY <1>1, <1>3 DEF Inv, ListInv, failVars, treeVars, envVars
<1>7. WalkInv'
  BY <1>1 DEF Inv, WalkInv, walkVars
<1>8. copied \in SUBSET FileEntries
  BY DEF Inv, ListInv
<1>. QED BY <1>1, <1>4, <1>5, <1>6, <1>7, <1>8, SavingStep

LEMMA StepFinalize ==
  ASSUME Inv, OneFolderPerPlace, Finalize
  PROVE  Inv' /\ OneFolderPerPlace'
<1> DEFINE t == [folders EXCEPT ![droot].log = None]
<1>1. /\ EndRun /\ UNCHANGED <<items, envVars>>
      /\ folders' = t \/ folders' = folders
  BY DEF Finalize
<1>2. FoldersOK(folders) /\ droot \in Nat
  BY DEF Inv, DriveInv
<1>3. /\ FoldersOK(t) /\ Len(t) = Len(folders) /\ DOMAIN t = DOMAIN folders
      /\ \A x \in DOMAIN folders : /\ t[x].key = folders[x].key
                                   /\ t[x].live = folders[x].live
                                   /\ t[x].parent = folders[x].parent
  BY <1>2, LogWritten
<1> HIDE DEF t
<1>4. /\ FoldersOK(folders') /\ Len(folders') = Len(folders)
      /\ DOMAIN folders' = DOMAIN folders
      /\ \A x \in DOMAIN folders : /\ folders'[x].key = folders[x].key
                                   /\ folders'[x].live = folders[x].live
                                   /\ folders'[x].parent = folders[x].parent
  BY <1>1, <1>2, <1>3
<1>5. faults' \in Nat /\ spoiled' \subseteq FaultKinds /\ spoiled \subseteq spoiled'
  BY <1>1 DEF Inv, ListInv, envVars
<1>6. Inv'
  BY <1>1, <1>4, <1>5, RunEnded
<1>7. OneFolderPerPlace'
  BY <1>4, <1>5, PlacesKept
<1>. QED BY <1>6, <1>7

LEMMA StepSignal ==
  ASSUME Inv, OneFolderPerPlace, Signal
  PROVE  Inv' /\ OneFolderPerPlace'
<1> USE DEF Signal
<1>1. faults' \in Nat /\ spoiled' \subseteq FaultKinds /\ spoiled \subseteq spoiled'
  BY FaultSpent DEF Inv
<1>2. DriveInv' /\ OneFolderPerPlace'
  BY <1>1, FoldersAlone DEF driveVars
<1>3. RunInv'
  BY DEF Inv, RunInv
<1>4. ListInv'
  BY <1>1 DEF Inv, ListInv, driveVars, markVars, failVars, treeVars
<1>5. WalkInv'
  BY DEF Inv, WalkInv, walkVars
<1>. QED BY <1>2, <1>3, <1>4, <1>5 DEF Inv

LEMMA StepCrash ==
  ASSUME Inv, OneFolderPerPlace, Crash
  PROVE  Inv' /\ OneFolderPerPlace'
<1>1. /\ EndRun /\ UNCHANGED driveVars
      /\ faults' \in Nat /\ spoiled' \subseteq FaultKinds /\ spoiled \subseteq spoiled'
  BY FaultSpent DEF Crash, Inv
<1>2. FoldersOK(folders') /\ Len(folders') = Len(folders) /\ items' = items
  BY <1>1 DEF Inv, DriveInv, driveVars
<1>3. Inv'
  BY <1>1, <1>2, RunEnded
<1>4. OneFolderPerPlace'
  BY <1>1 DEF OneFolderPerPlace, driveVars
<1>. QED BY <1>3, <1>4

LEMMA StepUserTrash ==
  ASSUME Inv, OneFolderPerPlace, UserTrash
  PROVE  Inv' /\ OneFolderPerPlace'
<1>1. UNCHANGED <<scenario, runVars, walkVars, folderMap, markVars, done, failVars,
                  treeVars>>
  BY DEF UserTrash
<1>2. faults' \in Nat /\ spoiled' \subseteq FaultKinds /\ spoiled \subseteq spoiled'
  BY FaultSpent DEF UserTrash, Inv
<1>3. RunInv' /\ WalkInv'
  BY <1>1 DEF Inv, RunInv, WalkInv, runVars, walkVars
<1>4. ASSUME NEW i \in DOMAIN items,
             items' = [items EXCEPT ![i].live = FALSE], UNCHANGED folders
      PROVE  Inv' /\ OneFolderPerPlace'
  <2> DEFINE item == [items[i] EXCEPT !.live = FALSE]
  <2>1. items \in Seq(Item) /\ i \in 1..Len(items)
    BY LenProperties DEF Inv, ListInv
  <2>2. item \in Item
    <3>1. items[i] \in Item
      BY <2>1, ElementOfSeq
    <3>. QED BY <3>1 DEF Item
  <2>3. items' = [items EXCEPT ![i] = item]
    BY <1>4
  <2> HIDE DEF item
  <2>4. items' \in Seq(Item)
    BY <2>1, <2>2, <2>3, ExceptSeq
  <2>5. ListInv'
    BY <1>1, <1>2, <2>4 DEF Inv, ListInv, markVars, failVars, treeVars
  <2>6. DriveInv' /\ OneFolderPerPlace'
    BY <1>1, <1>2, <1>4, FoldersAlone DEF runVars
  <2>. QED BY <1>3, <2>5, <2>6 DEF Inv
<1>5. ASSUME NEW d \in DOMAIN folders,
             folders' = [x \in DOMAIN folders |->
                           [folders[x] EXCEPT !.live = @ /\ x \notin Under(d)]],
             UNCHANGED items
      PROVE  Inv' /\ OneFolderPerPlace'
  <2>1. /\ folders \in Seq(DestFolder) /\ Len(folders) \in Nat
        /\ DOMAIN folders = 1..Len(folders)
    BY LenProperties DEF Inv, DriveInv, FoldersOK
  <2>2. DOMAIN folders' = DOMAIN folders
    BY <1>5
  <2>3. \A x \in DOMAIN folders : folders[x] \in DestFolder
    BY <2>1, ElementOfSeq
  <2>4. \A x \in DOMAIN folders :
          /\ folders'[x] \in DestFolder
          /\ folders'[x].key = folders[x].key /\ folders'[x].log = folders[x].log
          /\ folders'[x].parent = folders[x].parent
          /\ folders'[x].live => folders[x].live
    <3>1. \A x \in DOMAIN folders : \A b \in BOOLEAN :
            LET f == [folders[x] EXCEPT !.live = @ /\ b]
            IN  /\ f \in DestFolder /\ f.key = folders[x].key
                /\ f.log = folders[x].log /\ f.parent = folders[x].parent
                /\ f.live => folders[x].live
      BY <2>3 DEF DestFolder
    <3>. QED BY <1>5, <3>1
  <2>5. folders' \in [1..Len(folders) -> DestFolder]
    BY <1>5, <2>1, <2>4
  <2>6. folders' \in Seq(DestFolder)
    BY <2>1, <2>5, SeqDef
  <2>7. Len(folders') = Len(folders)
    BY <2>1, <2>2, <2>6, LenProperties
  <2>8. FoldersOK(folders')
    BY <2>2, <2>4, <2>6, <2>7 DEF Inv, DriveInv, FoldersOK
  <2>9. DriveInv'
    BY <1>1, <2>7, <2>8 DEF Inv, DriveInv, runVars
  <2>10. ListInv'
    BY <1>1, <1>2, <1>5 DEF Inv, ListInv, markVars, failVars, treeVars
  <2>11. OneFolderPerPlace'
    BY <1>2, <2>2, <2>4, PlacesKept
  <2>. QED BY <1>3, <2>9, <2>10, <2>11 DEF Inv
<1>. QED BY <1>4, <1>5 DEF UserTrash

LEMMA StepUserUpload ==
  ASSUME Inv, OneFolderPerPlace, UserUpload
  PROVE  Inv' /\ OneFolderPerPlace'
<1>1. UNCHANGED <<scenario, folders, runVars, walkVars, folderMap, markVars, done,
                  failVars, treeVars>>
  BY DEF UserUpload
<1>2. faults' \in Nat /\ spoiled' \subseteq FaultKinds /\ spoiled \subseteq spoiled'
  BY FaultSpent DEF UserUpload, Inv
<1>3. PICK d \in DOMAIN folders, e \in FileEntries :
        items' = Append(items, [folder |-> d, of |-> e, tool |-> FALSE, live |-> TRUE])
  BY DEF UserUpload
<1>4. d \in Nat
  BY LenProperties DEF Inv, DriveInv, FoldersOK
<1>5. items' \in Seq(Item)
  <2> DEFINE item == [folder |-> d, of |-> e, tool |-> FALSE, live |-> TRUE]
  <2>1. item \in Item
    BY <1>4 DEF Item
  <2>. QED BY <1>3, <2>1, AppendProperties DEF Inv, ListInv
<1>6. ListInv'
  BY <1>1, <1>2, <1>5 DEF Inv, ListInv, markVars, failVars, treeVars
<1>7. WalkInv'
  BY <1>1 DEF Inv, WalkInv, walkVars, runVars
<1>. QED BY <1>1, <1>2, <1>6, <1>7, QuietStep

-----------------------------------------------------------------------------
(* The theorems                                                            *)

\* Init and every step; the actions in the order of Next.
LEMMA InvNext ==
  ASSUME Inv, OneFolderPerPlace, [Next]_vars
  PROVE  Inv' /\ OneFolderPerPlace'
<1>1. CASE UNCHANGED vars
  <2> USE DEF vars, driveVars, runVars, walkVars, markVars, failVars, treeVars, envVars
  <2>1. OneFolderPerPlace' /\ DriveInv'
    BY <1>1, FoldersAlone
  <2>2. RunInv' /\ ListInv' /\ WalkInv'
    BY <1>1 DEF Inv, RunInv, ListInv, WalkInv
  <2>. QED BY <2>1, <2>2 DEF Inv
<1>2. ASSUME NEW o \in scenario.options, StartRun(o)
      PROVE  Inv' /\ OneFolderPerPlace'
  BY <1>2, StepStartRun
<1>3. CASE Main
  BY <1>3, StepOpenRoot, StepListFolder, StepBuildIndex, StepBatchedList, StepDescend,
     StepLeaveLevel, StepFinish, StepFinalize, StepSubmitFile, StepCopyInline,
     StepLoopSkipped, StepSkipComplete, StepEnterFolder DEF Main
<1>4. CASE Pool
  BY <1>4, StepRunJob, StepDropJobs DEF Pool
<1>5. CASE Environment
  BY <1>5, StepRootFails, StepQuotaStops, StepSignal, StepCrash, StepUserTrash,
     StepUserUpload, StepShortcutUnresolved, StepCreateFails DEF Environment
<1>. QED BY <1>1, <1>2, <1>3, <1>4, <1>5 DEF Next

\* The traversal's state is what it is declared to be, for every source tree.
THEOREM TypeCorrect == Spec => []TypeOK
<1>1. Init => Inv /\ OneFolderPerPlace
  BY InvInit
<1>2. Inv /\ OneFolderPerPlace /\ [Next]_vars => (Inv /\ OneFolderPerPlace)'
  BY InvNext
<1>3. Inv /\ OneFolderPerPlace => TypeOK
  BY InvImplies
<1>. QED BY <1>1, <1>2, <1>3, PTL DEF Spec

\* _process_level never recurses into a folder it is already in, through
\* shortcuts or not, so it is never deeper than there are source folders.
THEOREM NeverInsideItself == Spec => []NoFolderInsideItself
<1>1. Init => Inv /\ OneFolderPerPlace
  BY InvInit
<1>2. Inv /\ OneFolderPerPlace /\ [Next]_vars => (Inv /\ OneFolderPerPlace)'
  BY InvNext
<1>3. Inv /\ OneFolderPerPlace => NoFolderInsideItself
  BY InvImplies
<1>. QED BY <1>1, <1>2, <1>3, PTL DEF Spec

\* _get_or_create_folder never makes a second folder for an entry in the same
\* place, over any number of runs, crashes and lost logs, as long as no search
\* failed and no creation was resent.
THEOREM OneFolderInEachPlace == Spec => []OneFolderPerPlace
<1>1. Init => Inv /\ OneFolderPerPlace
  BY InvInit
<1>2. Inv /\ OneFolderPerPlace /\ [Next]_vars => (Inv /\ OneFolderPerPlace)'
  BY InvNext
<1>. QED BY <1>1, <1>2, PTL DEF Spec
=============================================================================
