-------------------- MODULE FolderTraversal_surplus_proofs --------------------
(***************************************************************************)
(* Machine-checked proofs that FolderTraversal makes no surplus copies, for *)
(* any source tree in which each folder is found in one way only, any      *)
(* number of runs and any interleaving of the pool.                        *)
(***************************************************************************)
EXTENDS FolderTraversal_proofs, FiniteSetTheorems

-----------------------------------------------------------------------------
(* Lists of entries                                                        *)

Entries(s)  == {s[i] : i \in DOMAIN s}
Distinct(s) == \A i, j \in DOMAIN s : i # j => s[i] # s[j]

\* Entries of folder f, none of them twice.
KidsOK(kids, f, ch) ==
  kids \in Seq(Ids) /\ Distinct(kids) /\ Entries(kids) \subseteq Among(ch, f)

\* The first entry is taken off.
LEMMA KidsTail ==
  ASSUME NEW s \in Seq(Ids), Distinct(s), s # <<>>
  PROVE  /\ Tail(s) \in Seq(Ids) /\ Distinct(Tail(s)) /\ Head(s) \in Entries(s)
         /\ Entries(Tail(s)) \subseteq Entries(s) \ {Head(s)}
<1> DEFINE t == Tail(s)
<1>1. /\ Len(s) \in Nat /\ DOMAIN s = 1..Len(s) /\ Len(s) # 0
      /\ t \in Seq(Ids) /\ Len(t) = Len(s) - 1 /\ Head(s) = s[1]
  BY HeadTailProperties, LenProperties, EmptySeq
<1>2. \A i \in 1..(Len(s) - 1) : t[i] = s[i + 1]
  BY <1>1, HeadTailProperties
<1>3. DOMAIN t = 1..(Len(s) - 1)
  BY <1>1, LenProperties
<1> HIDE DEF t
<1>4. \A i \in DOMAIN t : i + 1 \in DOMAIN s /\ i + 1 # 1 /\ t[i] = s[i + 1]
  BY <1>1, <1>2, <1>3
<1>5. 1 \in DOMAIN s
  BY <1>1
<1>6. Distinct(t)
  <2>1. \A i, j \in DOMAIN t : i # j => i + 1 # j + 1
    BY <1>1, <1>3
  <2>. QED BY <1>4, <2>1 DEF Distinct
<1>7. Entries(t) \subseteq Entries(s) \ {Head(s)}
  BY <1>1, <1>4, <1>5 DEF Distinct, Entries
<1>. QED BY <1>1, <1>5, <1>6, <1>7 DEF Entries, t

\* The pages before one that fails.
LEMMA KidsPrefix ==
  ASSUME NEW f, NEW ch, NEW s, KidsOK(s, f, ch), NEW t \in Prefixes(s)
  PROVE  KidsOK(t, f, ch)
<1>1. PICK n \in 0..Len(s) : t = SubSeq(s, 1, n)
  BY DEF Prefixes
<1>2. s \in Seq(Ids) /\ Len(s) \in Nat /\ DOMAIN s = 1..Len(s) /\ n \in Nat
  BY LenProperties DEF KidsOK
<1>3. t \in Seq(Ids)
  BY <1>2, PrefixesTyped
<1>4. \A i \in 1..n : s[i] \in Ids
  BY <1>2, ElementOfSeq
<1>5. /\ Len(t) = n
      /\ \A i \in 1..n : t[i] = s[i]
  <2>1. /\ Len(t) = IF 1 <= n THEN n - 1 + 1 ELSE 0
        /\ \A i \in 1..(n - 1 + 1) : t[i] = s[1 + i - 1]
    BY <1>1, <1>2, <1>4, SubSeqProperties
  <2>. QED BY <1>2, <2>1
<1>6. DOMAIN t = 1..n
  BY <1>3, <1>5, LenProperties
<1>7. \A i \in DOMAIN t : i \in DOMAIN s /\ t[i] = s[i]
  BY <1>2, <1>5, <1>6
<1>8. Distinct(t) /\ Entries(t) \subseteq Entries(s)
  BY <1>7 DEF KidsOK, Distinct, Entries
<1>. QED BY <1>3, <1>8 DEF KidsOK

\* All of a folder's children.
LEMMA KidsAll ==
  ASSUME scenario \in Scenarios, NEW f \in Folders
  PROVE  KidsOK(Children(f), f, scenario.children)
<1>1. Children(f) \in Seq(Ids)
  BY ChildrenTyped
<1>2. Distinct(Children(f))
  BY ChildrenAssumption DEF Distinct, Children
<1>3. Entries(Children(f)) = Among(scenario.children, f)
  BY DEF Entries, Among, Children
<1>. QED BY <1>1, <1>2, <1>3 DEF KidsOK

\* No children at all.
LEMMA KidsNone ==
  ASSUME NEW f, NEW ch
  PROVE  KidsOK(<<>>, f, ch)
BY EmptySeq DEF KidsOK, Distinct, Entries

-----------------------------------------------------------------------------
(* The levels as a set                                                     *)

Frames(s) == Entries(s)
Loops(F)  == {f \in F : f.stage = "loop"}

\* Levels are told apart by their folders.
LEMMA FramesDiffer ==
  ASSUME NEW s, NEW n, StackOK(s, n), NEW f \in Frames(s), NEW g \in Frames(s),
         f.src = g.src
  PROVE  f = g
BY DEF StackOK, Frames, Entries

\* The last level is replaced.
LEMMA TopReplaced ==
  ASSUME NEW s, NEW n, StackOK(s, n), s # <<>>, NEW f, f.src = s[Len(s)].src
  PROVE  LET t == [s EXCEPT ![Len(s)] = f]
         IN  /\ \A h \in Frames(t) : h = f \/ (h \in Frames(s) /\ h.src # f.src)
             /\ t[1].src = s[1].src /\ DOMAIN t = DOMAIN s
<1> DEFINE t == [s EXCEPT ![Len(s)] = f]
<1>1. /\ Len(s) \in Nat /\ DOMAIN s = 1..Len(s) /\ Len(s) \in 1..Len(s)
      /\ s \in Seq(Frame)
  BY LenProperties, EmptySeq DEF StackOK
<1>2. /\ DOMAIN t = DOMAIN s /\ t[Len(s)] = f
      /\ \A i \in DOMAIN s : i # Len(s) => t[i] = s[i]
  BY <1>1
<1> HIDE DEF t
<1>3. ASSUME NEW h \in Frames(t)
      PROVE  h = f \/ (h \in Frames(s) /\ h.src # f.src)
  <2>1. PICK i \in DOMAIN s : h = t[i]
    BY <1>2 DEF Frames, Entries
  <2>2. CASE i = Len(s)
    BY <1>2, <2>1, <2>2
  <2>3. CASE i # Len(s)
    BY <1>1, <1>2, <2>1, <2>3 DEF StackOK, Frames, Entries
  <2>. QED BY <2>2, <2>3
<1>4. t[1].src = s[1].src
  BY <1>1, <1>2
<1>. QED BY <1>2, <1>3, <1>4 DEF t

\* The last level is gone.
LEMMA TopGone ==
  ASSUME NEW s, NEW n, StackOK(s, n), s # <<>>
  PROVE  LET t == SubSeq(s, 1, Len(s) - 1)
         IN  Frames(t) \subseteq Frames(s) /\ (t # <<>> => t[1] = s[1])
<1> DEFINE t == SubSeq(s, 1, Len(s) - 1)
<1>1. /\ s \in Seq(Frame) /\ Len(s) \in Nat /\ DOMAIN s = 1..Len(s)
      /\ Len(s) - 1 \in Nat
  BY LenProperties, EmptySeq DEF StackOK
<1>2. \A i \in 1..(Len(s) - 1) : s[i] \in Frame
  BY <1>1, ElementOfSeq
<1>3. /\ t \in Seq(Frame) /\ Len(t) = Len(s) - 1
      /\ \A i \in 1..(Len(s) - 1) : t[i] = s[i]
  <2>1. /\ t \in Seq(Frame)
        /\ Len(t) = IF 1 <= Len(s) - 1 THEN (Len(s) - 1) - 1 + 1 ELSE 0
        /\ \A i \in 1..((Len(s) - 1) - 1 + 1) : t[i] = s[1 + i - 1]
    BY <1>1, <1>2, SubSeqProperties
  <2>. QED BY <1>1, <2>1
<1>4. DOMAIN t = 1..(Len(s) - 1)
  BY <1>3, LenProperties
<1> HIDE DEF t
<1>5. \A i \in DOMAIN t : i \in DOMAIN s /\ t[i] = s[i]
  BY <1>1, <1>3, <1>4
<1>6. Frames(t) \subseteq Frames(s)
  BY <1>5 DEF Frames, Entries
<1>7. t # <<>> => 1 \in DOMAIN t
  BY <1>1, <1>3, <1>4, EmptySeq
<1>. QED BY <1>5, <1>6, <1>7 DEF t

\* A level is entered.
LEMMA LevelAdded ==
  ASSUME NEW s, NEW n, StackOK(s, n), NEW g \in Frame
  PROVE  LET t == Append(s, g)
         IN  /\ \A h \in Frames(t) : h = g \/ h \in Frames(s)
             /\ 1 \in DOMAIN s => t[1] = s[1]
<1> DEFINE t == Append(s, g)
<1>1. s \in Seq(Frame) /\ Len(s) \in Nat /\ DOMAIN s = 1..Len(s)
  BY LenProperties DEF StackOK
<1>2. /\ t \in Seq(Frame) /\ Len(t) = Len(s) + 1
      /\ \A i \in 1..Len(s) : t[i] = s[i]
      /\ t[Len(s) + 1] = g
  BY <1>1, AppendProperties
<1>3. DOMAIN t = 1..(Len(s) + 1)
  BY <1>2, LenProperties
<1> HIDE DEF t
<1>4. \A i \in DOMAIN t : (i \in DOMAIN s /\ t[i] = s[i]) \/ t[i] = g
  BY <1>1, <1>2, <1>3
<1>. QED BY <1>1, <1>2, <1>4 DEF Frames, Entries, t

-----------------------------------------------------------------------------
(* What a step does to the levels                                          *)

\* The entry that a destination folder was made for.
Keys(d, fs) == IF d = Nothing THEN {} ELSE {fs[d].key}

DestOK(d, f, fs) ==
  d # Nothing => d \in DOMAIN fs /\ fs[d].key \in FolderEntries /\ Source(fs[d].key) = f

\* A level, and those it has put off, have destination folders of their own
\* folders, and entries of theirs to do.
FrameOK(f, fs, ch) ==
  /\ DestOK(f.dest, f.src, fs) /\ KidsOK(f.todo, f.src, ch)
  /\ \A k \in DOMAIN f.pending : /\ DestOK(f.pending[k].dest, f.pending[k].src, fs)
                                 /\ KidsOK(f.pending[k].kids, f.pending[k].src, ch)

\* The destination folders of a level and of what it has put off.
Spots(f) == {f.dest} \union {f.pending[k].dest : k \in DOMAIN f.pending}

\* The entries a level may still come to, those it stands for, and those it has
\* put off, each once.
Offers(f, ch) == IF f.stage = "list" THEN Among(ch, f.src) ELSE Entries(f.todo)
Here(f, fs)   == Keys(f.dest, fs)
Put(f, fs)    == UNION {Keys(f.pending[k].dest, fs) : k \in DOMAIN f.pending}
Apart(f, fs)  == \A k, l \in DOMAIN f.pending :
  k # l => Keys(f.pending[k].dest, fs) \intersect Keys(f.pending[l].dest, fs) = {}

\* Level f is level g, perhaps later and with less to do.
Tame(f, g, fs, ch) ==
  /\ f.src = g.src /\ f.dest = g.dest
  /\ Offers(f, ch) \subseteq Offers(g, ch)
  /\ f.stage = "loop" => g.stage = "loop" /\ f.index = g.index
  /\ f.stage \in {"list", "index"} => g.stage \in {"list", "index"}
  /\ Put(f, fs) \subseteq Put(g, fs) /\ Spots(f) \subseteq Spots(g)
  /\ Apart(g, fs) => Apart(f, fs)

FramesOK == \A f \in Frames(stack) : FrameOK(f, folders, scenario.children)

\* A step after which every level is one that was there before.
StackTamed ==
  \A f \in Frames(stack') :
    /\ FrameOK(f, folders, scenario.children)
    /\ \E g \in Frames(stack) : Tame(f, g, folders, scenario.children)

\* The outermost level stays.
RootKept == stack' # <<>> => stack # <<>> /\ stack'[1].src = stack[1].src

LEMMA TameItself ==
  ASSUME NEW f, NEW fs, NEW ch
  PROVE  Tame(f, f, fs, ch)
BY DEF Tame

\* Nothing happens to the stack.
LEMMA StackAlone ==
  ASSUME FramesOK, stack' = stack
  PROVE  StackTamed /\ RootKept
<1>1. StackTamed
  BY TameItself DEF FramesOK, StackTamed
<1>. QED BY <1>1 DEF RootKept

LEMMA StackGone ==
  ASSUME stack' = <<>>
  PROVE  StackTamed /\ RootKept
BY DEF StackTamed, RootKept, Frames, Entries

\* The top of the stack is one of its levels.
LEMMA TopInFrames ==
  ASSUME WalkInv, stack # <<>>
  PROVE  Top \in Frames(stack) /\ Top.src = stack[Len(stack)].src
BY TopIs DEF Frames, Entries, Top

\* Only the last level changes.
LEMMA TopTamed ==
  ASSUME WalkInv, stack # <<>>, FramesOK, NEW f, SetTop(f),
         FrameOK(f, folders, scenario.children),
         Tame(f, Top, folders, scenario.children)
  PROVE  StackTamed /\ RootKept
<1>1. f.src = stack[Len(stack)].src /\ Top \in Frames(stack)
  BY TopInFrames DEF Tame
<1>2. /\ \A h \in Frames(stack') : h = f \/ h \in Frames(stack)
      /\ stack'[1].src = stack[1].src
  BY <1>1, TopReplaced DEF WalkInv, SetTop
<1>3. StackTamed
  BY <1>1, <1>2, TameItself DEF StackTamed, FramesOK
<1>. QED BY <1>2, <1>3 DEF RootKept

\* The last level returns.
LEMMA TopLeft ==
  ASSUME WalkInv, stack # <<>>, FramesOK, Return
  PROVE  StackTamed /\ RootKept
<1>1. /\ Frames(stack') \subseteq Frames(stack)
      /\ stack' # <<>> => stack'[1] = stack[1]
  BY TopGone DEF WalkInv, Return
<1>2. StackTamed
  BY <1>1, TameItself DEF StackTamed, FramesOK
<1>. QED BY <1>1, <1>2 DEF RootKept

\* The loop goes on to the next entry.
LEMMA NextTamed ==
  ASSUME WalkInv, FramesOK, NEW e, AtEntry(e)
  PROVE  /\ Next1.src = Top.src /\ Next1.dest = Top.dest
         /\ Next1.index = Top.index /\ Next1.stage = "loop"
         /\ Next1.pending = Top.pending
         /\ e \in Entries(Top.todo) /\ Entries(Next1.todo) \subseteq Entries(Top.todo) \ {e}
         /\ FrameOK(Next1, folders, scenario.children)
         /\ Tame(Next1, Top, folders, scenario.children)
<1>1. /\ stack # <<>> /\ Top.todo # <<>> /\ e = Head(Top.todo)
      /\ Top.stage = "loop" /\ Top \in Frame
  BY AtEntryIs DEF AtEntry
<1>2. /\ Next1.src = Top.src /\ Next1.dest = Top.dest /\ Next1.index = Top.index
      /\ Next1.stage = Top.stage /\ Next1.pending = Top.pending
      /\ Next1.todo = Tail(Top.todo)
  BY <1>1 DEF Next1, Frame
<1>3. FrameOK(Top, folders, scenario.children)
  BY <1>1, TopInFrames DEF FramesOK
<1>4. /\ Tail(Top.todo) \in Seq(Ids) /\ Distinct(Tail(Top.todo))
      /\ Head(Top.todo) \in Entries(Top.todo)
      /\ Entries(Tail(Top.todo)) \subseteq Entries(Top.todo) \ {Head(Top.todo)}
  BY <1>1, <1>3, KidsTail DEF FrameOK, KidsOK
<1>5. FrameOK(Next1, folders, scenario.children)
  BY <1>2, <1>3, <1>4 DEF FrameOK, KidsOK
<1>6. Tame(Next1, Top, folders, scenario.children)
  <2>1. Offers(Next1, scenario.children) \subseteq Offers(Top, scenario.children)
    BY <1>1, <1>2, <1>4 DEF Offers
  <2>2. Put(Next1, folders) = Put(Top, folders) /\ Spots(Next1) = Spots(Top)
    BY <1>2 DEF Put, Spots
  <2>3. Apart(Next1, folders) <=> Apart(Top, folders)
    BY <1>2 DEF Apart
  <2>. QED BY <1>1, <1>2, <2>1, <2>2, <2>3 DEF Tame
<1>. QED BY <1>1, <1>2, <1>4, <1>5, <1>6

\* So nothing else happens when the loop only goes on.
LEMMA LoopTamed ==
  ASSUME WalkInv, FramesOK, NEW e, AtEntry(e), SetTop(Next1)
  PROVE  StackTamed /\ RootKept
BY NextTamed, TopTamed DEF AtEntry

\* The level is entered, or there is nothing to do in it.
LEMMA ListTamed ==
  ASSUME WalkInv, scenario \in Scenarios, FramesOK, ListFolder
  PROVE  StackTamed /\ RootKept
<1>1. stack # <<>> /\ Top.stage = "list" /\ Top \in Frame /\ Top \in Frames(stack)
  BY TopIs, TopInFrames DEF ListFolder
<1>2. KidsOK(Children(Top.src), Top.src, scenario.children)
  BY <1>1, KidsAll DEF Frame
<1>3. PICK kids : EnterLevel(kids) /\ KidsOK(kids, Top.src, scenario.children)
  <2>1. CASE EnterLevel(Children(Top.src))
    BY <1>2, <2>1
  <2>2. CASE \E kids \in Prefixes(Children(Top.src)) : EnterLevel(kids)
    BY <1>2, <2>2, KidsPrefix
  <2>. QED BY <2>1, <2>2 DEF ListFolder
<1>4. CASE Return
  BY <1>1, <1>4, TopLeft
<1>5. CASE SetTop([Top EXCEPT !.stage = "index", !.todo = kids])
  <2> DEFINE f == [Top EXCEPT !.stage = "index", !.todo = kids]
  <2>1. /\ f.src = Top.src /\ f.dest = Top.dest /\ f.stage = "index" /\ f.todo = kids
        /\ f.pending = Top.pending
    BY <1>1 DEF Frame
  <2>2. SetTop(f)
    BY <1>5
  <2> HIDE DEF f
  <2>3. FrameOK(f, folders, scenario.children)
    BY <1>1, <1>3, <2>1 DEF FramesOK, FrameOK
  <2>4. Tame(f, Top, folders, scenario.children)
    <3>1. Offers(f, scenario.children) \subseteq Offers(Top, scenario.children)
      BY <1>1, <1>3, <2>1 DEF Offers, KidsOK
    <3>2. /\ Put(f, folders) = Put(Top, folders) /\ Spots(f) = Spots(Top)
          /\ Apart(f, folders) <=> Apart(Top, folders)
      BY <2>1 DEF Put, Apart, Spots
    <3>. QED BY <1>1, <2>1, <3>1, <3>2 DEF Tame
  <2>. QED BY <1>1, <2>2, <2>3, <2>4, TopTamed
<1>. QED BY <1>3, <1>4, <1>5 DEF EnterLevel

\* The folders that were put off get entries of theirs.
LEMMA KidsTamed ==
  ASSUME WalkInv, stack # <<>>, Top.stage = "loop", FramesOK, NEW kids, SetKids(kids),
         \A f \in Batch : KidsOK(kids[f], f, scenario.children)
  PROVE  StackTamed /\ RootKept
<1> DEFINE q == [i \in DOMAIN Top.pending |->
                   [Top.pending[i] EXCEPT !.kids = kids[Top.pending[i].src]]]
           f == [Top EXCEPT !.stage = "descend", !.pending = q]
<1>1. Top \in Frame /\ Top \in Frames(stack) /\ Top.pending \in Seq(Pending)
  BY TopIs, TopInFrames DEF Frame
<1>2. \A i \in DOMAIN Top.pending : Top.pending[i] \in Pending
  BY <1>1, LenProperties, ElementOfSeq
<1>3. \A i \in DOMAIN Top.pending :
        KidsOK(kids[Top.pending[i].src], Top.pending[i].src, scenario.children)
  BY DEF Batch
<1>4. /\ DOMAIN q = DOMAIN Top.pending
      /\ \A i \in DOMAIN Top.pending :
           /\ q[i].src = Top.pending[i].src /\ q[i].dest = Top.pending[i].dest
           /\ q[i].kids = kids[Top.pending[i].src]
  BY <1>2 DEF Pending
<1> HIDE DEF q
<1>5. /\ f.src = Top.src /\ f.dest = Top.dest /\ f.stage = "descend"
      /\ f.todo = Top.todo /\ f.pending = q
  BY <1>1 DEF Frame
<1>6. SetTop(f)
  BY DEF SetKids, q
<1> HIDE DEF f
<1>7. FrameOK(f, folders, scenario.children)
  BY <1>1, <1>3, <1>4, <1>5 DEF FramesOK, FrameOK
<1>8. Tame(f, Top, folders, scenario.children)
  <2>1. Offers(f, scenario.children) = Offers(Top, scenario.children)
    BY <1>5 DEF Offers
  <2>2. Put(f, folders) = Put(Top, folders) /\ Spots(f) = Spots(Top)
    BY <1>4, <1>5 DEF Put, Spots
  <2>3. Apart(Top, folders) => Apart(f, folders)
    BY <1>4, <1>5 DEF Apart
  <2>. QED BY <1>5, <2>1, <2>2, <2>3 DEF Tame
<1>. QED BY <1>6, <1>7, <1>8, TopTamed

LEMMA BatchTamed ==
  ASSUME WalkInv, scenario \in Scenarios, FramesOK, BatchedList
  PROVE  StackTamed /\ RootKept
<1>1. stack # <<>> /\ Top.stage = "loop" /\ Top \in Frame
  BY TopIs DEF BatchedList
<1>2. \A f \in Batch : KidsOK(Children(f), f, scenario.children)
  <2>1. Top.pending \in Seq(Pending)
    BY <1>1 DEF Frame
  <2>2. \A i \in DOMAIN Top.pending : Top.pending[i] \in Pending
    BY <2>1, LenProperties, ElementOfSeq
  <2>3. \A f \in Batch : f \in Folders
    BY <2>2 DEF Batch, Pending
  <2>. QED BY <2>3, KidsAll
<1>3. \A lost \in SUBSET Batch : \A f \in Batch :
        KidsOK(Listing(lost)[f], f, scenario.children)
  BY <1>2, KidsNone DEF Listing, Batched
<1>4. PICK lost \in SUBSET Batch :
        \/ SetKids(Listing(lost))
        \/ \E f \in Batch : \E kids \in Prefixes(Children(f)) :
             SetKids([Listing(lost) EXCEPT ![f] = kids])
  BY DEF BatchedList
<1>5. CASE SetKids(Listing(lost))
  BY <1>1, <1>3, <1>5, KidsTamed
<1>6. ASSUME NEW f \in Batch, NEW kids \in Prefixes(Children(f)),
             SetKids([Listing(lost) EXCEPT ![f] = kids])
      PROVE  StackTamed /\ RootKept
  <2>1. KidsOK(kids, f, scenario.children)
    BY <1>2, KidsPrefix
  <2>2. PICK all : all = [Listing(lost) EXCEPT ![f] = kids]
    OBVIOUS
  <2>3. \A x \in Batch : all[x] = IF x = f THEN kids ELSE Listing(lost)[x]
    BY <2>2 DEF Listing
  <2>4. \A x \in Batch : KidsOK(all[x], x, scenario.children)
    BY <1>3, <2>1, <2>3
  <2>. QED BY <1>1, <1>6, <2>2, <2>4, KidsTamed
<1>. QED BY <1>4, <1>5, <1>6

-----------------------------------------------------------------------------
(* What a step does to the folders                                         *)

\* No folder goes or changes its entry, and a new one has an entry.
Grown(fs, gs) ==
  /\ \A d \in DOMAIN fs : d \in DOMAIN gs /\ gs[d].key = fs[d].key
  /\ \A d \in DOMAIN gs \ DOMAIN fs : gs[d].key \in FolderEntries

\* What is said of the folders of a level stays true.
LEMMA FrameKept ==
  ASSUME NEW fs, NEW gs, Grown(fs, gs), NEW ch, NEW f, FrameOK(f, fs, ch)
  PROVE  /\ FrameOK(f, gs, ch) /\ Here(f, gs) = Here(f, fs)
         /\ Put(f, gs) = Put(f, fs) /\ (Apart(f, gs) <=> Apart(f, fs))
<1>1. FrameOK(f, gs, ch) /\ Here(f, gs) = Here(f, fs)
  BY DEF Grown, FrameOK, DestOK, Here, Keys
<1>2. \A k \in DOMAIN f.pending :
        Keys(f.pending[k].dest, gs) = Keys(f.pending[k].dest, fs)
  BY DEF Grown, FrameOK, DestOK, Keys
<1>3. Put(f, gs) = Put(f, fs)
  BY <1>2 DEF Put
<1>4. Apart(f, gs) <=> Apart(f, fs)
  BY <1>2 DEF Apart
<1>. QED BY <1>1, <1>3, <1>4

\* The folders made for an entry.
LEMMA GrowsGrown ==
  ASSUME NEW gs, NEW e \in FolderEntries, NEW parent, NEW n, Grows(folders, gs, parent, e, n)
  PROVE  /\ Grown(folders, gs)
         /\ \A d \in DOMAIN gs \ DOMAIN folders : gs[d].key = e
BY DEF Grows, Grown

\* _get_or_create_folder returns a folder of the entry it was asked for, and
\* creates no other.
LEMMA ObtainedIs ==
  ASSUME DriveInv, ListInv, NEW parent \in Nat, NEW e \in FolderEntries,
         NEW d \in Destinations(parent, e), Obtain(parent, e, d)
  PROVE  /\ d \in Nat /\ DestOK(d, Source(e), folders')
         /\ d # Nothing => parent # Nothing /\ folders'[d].key = e
         /\ Grown(folders, folders')
<1>1. /\ d \in Nat /\ (d = Nothing \/ d \in DOMAIN folders')
      /\ \E n \in {0, 1, 2} : Grows(folders, folders', parent, e, n)
      /\ \/ d = Nothing /\ (parent = Nothing \/ opt.dry)
         \/ parent # Nothing /\ Cached(e) /\ d = folderMap[e]
         \/ parent # Nothing /\ d \in Found(parent, e)
         \/ parent # Nothing /\ ~opt.dry /\ d \in DOMAIN folders' \ DOMAIN folders
  BY ObtainIs
<1>2. PICK n \in {0, 1, 2} : Grows(folders, folders', parent, e, n)
  BY <1>1
<1>3. /\ Grown(folders, folders')
      /\ \A x \in DOMAIN folders' \ DOMAIN folders : folders'[x].key = e
  BY <1>2, GrowsGrown
<1>4. ASSUME Cached(e), d = folderMap[e] PROVE d \in DOMAIN folders /\ folders[d].key = e
  <2>1. d <= Len(folders) /\ d # 0 /\ folders[d].key = e
    BY <1>4 DEF DriveInv, Cached, Nothing
  <2>2. DOMAIN folders = 1..Len(folders)
    BY LenProperties DEF DriveInv, FoldersOK
  <2>. QED BY <1>1, <2>1, <2>2
<1>5. d \in Found(parent, e) => d \in DOMAIN folders /\ folders[d].key = e
  BY DEF Found
<1>6. d # Nothing => parent # Nothing /\ folders'[d].key = e
  BY <1>1, <1>3, <1>4, <1>5 DEF Grown
<1>. QED BY <1>1, <1>3, <1>6 DEF DestOK

\* A creation that fails leaves a folder of the entry at most.
LEMMA UnmadeGrows ==
  ASSUME DriveInv, ListInv, NEW parent \in Nat, NEW e \in FolderEntries,
         CreationFails(parent, e)
  PROVE  Grown(folders, folders')
<1>1. PICK n \in {0, 1} : Grows(folders, folders', parent, e, n)
  BY CreationFailsIs
<1>. QED BY <1>1, GrowsGrown

\* The folders stay as they are, but for logs and trash.
LEMMA SameGrown ==
  ASSUME DOMAIN folders' = DOMAIN folders,
         \A x \in DOMAIN folders : folders'[x].key = folders[x].key
  PROVE  Grown(folders, folders')
BY DEF Grown

\* A file's copy writes the log at most.
LEMMA CopyGrows ==
  ASSUME Inv, NEW e \in FileEntries, NEW d \in Nat, NEW ix \in 1..Len(indexes),
         CopyFile(e, d, ix)
  PROVE  Grown(folders, folders') /\ scenario' = scenario
BY FileCopied, SameGrown

\* A step makes a folder by _get_or_create_folder only, and the scenario stays.
LEMMA StepGrows ==
  ASSUME Inv, [Next]_vars
  PROVE  Grown(folders, folders') /\ scenario' = scenario
<1> DEFINE G == Grown(folders, folders') /\ scenario' = scenario
<1>1. ASSUME UNCHANGED <<scenario, folders>> PROVE G
  BY <1>1, SameGrown
<1>2. ASSUME NEW c \in SUBSET FileEntries, NEW dn \in SUBSET Folders, SaveLog(c, dn)
      PROVE  Grown(folders, folders')
  BY <1>2, LogSaved, SameGrown DEF Inv
<1>3. copied \in SUBSET FileEntries /\ done \in SUBSET Folders
  BY DEF Inv, ListInv
<1>4. CASE UNCHANGED vars
  BY <1>1, <1>4 DEF vars, driveVars
<1>5. ASSUME NEW o \in scenario.options, StartRun(o) PROVE G
  BY <1>1, <1>5 DEF StartRun, driveVars
<1>6. CASE OpenRoot
  <2>1. PICK d \in Destinations(DestParent, Root) : Obtain(DestParent, Root, d)
    BY <1>6 DEF OpenRoot
  <2>2. Grown(folders, folders')
    BY <2>1, ObtainedIs, EntryFacts DEF DestParent, Inv
  <2>. QED BY <1>6, <2>2 DEF OpenRoot
<1>7. CASE ListFolder \/ BuildIndex \/ BatchedList \/ Descend \/ LeaveLevel
  BY <1>1, <1>7 DEF ListFolder, BuildIndex, BatchedList, Descend, LeaveLevel, driveVars
<1>8. CASE Finish
  <2>1. done' \in SUBSET Folders
    BY <1>8 DEF Finish, Completed, Inv, ListInv
  <2>2. PICK dn \in SUBSET Folders : SaveLog(copied, dn)
    BY <1>8, <2>1 DEF Finish
  <2>. QED BY <1>2, <1>3, <1>8, <2>2 DEF Finish
<1>9. CASE Finalize
  <2>1. LET t == [folders EXCEPT ![droot].log = None]
        IN  DOMAIN t = DOMAIN folders /\ \A x \in DOMAIN folders : t[x].key = folders[x].key
    BY LogWritten DEF Inv, DriveInv
  <2>2. /\ DOMAIN folders' = DOMAIN folders
        /\ \A x \in DOMAIN folders : folders'[x].key = folders[x].key
    BY <1>9, <2>1 DEF Finalize
  <2>. QED BY <1>9, <2>2, SameGrown DEF Finalize, EndRun
<1>10. ASSUME NEW e \in Ids, CopyInline(e) PROVE G
  <2>1. /\ e \in FileEntries /\ CopyFile(e, Top.dest, Top.index)
        /\ Top.dest \in Nat /\ Top.index \in 1..Len(indexes)
    BY <1>10, AtEntryIs DEF CopyInline, Inv
  <2>. QED BY <2>1, CopyGrows
<1>11. ASSUME NEW e \in Ids, EnterFolder(e) PROVE G
  <2>1. PICK d \in Destinations(Top.dest, e) : Obtain(Top.dest, e, d)
    BY <1>11 DEF EnterFolder
  <2>2. e \in FolderEntries /\ Top.dest \in Nat
    BY <1>11, AtEntryIs DEF EnterFolder, Enters, Inv
  <2>3. Grown(folders, folders')
    BY <2>1, <2>2, ObtainedIs DEF Inv
  <2>. QED BY <1>11, <2>3 DEF EnterFolder
<1>12. ASSUME NEW e \in Ids, SubmitFile(e) \/ LoopSkipped(e) \/ SkipComplete(e)
                             \/ ShortcutUnresolved(e)
       PROVE  G
  BY <1>1, <1>12 DEF SubmitFile, LoopSkipped, SkipComplete, ShortcutUnresolved,
     driveVars
<1>18. ASSUME NEW e \in Ids, CreateFails(e) PROVE G
  <2>1. e \in FolderEntries /\ Top.dest \in Nat /\ CreationFails(Top.dest, e)
    BY <1>18, AtEntryIs DEF CreateFails, Enters, Inv
  <2>2. Grown(folders, folders')
    BY <2>1, UnmadeGrows DEF Inv
  <2>. QED BY <1>18, <2>2 DEF CreateFails
<1>19. CASE RootFails
  <2>1. DestParent \in Nat /\ Root \in FolderEntries
    BY EntryFacts, RootAssumption, IdAssumption DEF DestParent
  <2>2. CASE UNCHANGED folders
    BY <1>19, <2>2, SameGrown DEF RootFails, EndRun
  <2>3. CASE CreationFails(DestParent, Root)
    <3>1. Grown(folders, folders')
      BY <2>1, <2>3, UnmadeGrows DEF Inv
    <3>. QED BY <1>19, <3>1 DEF RootFails, EndRun
  <2>. QED BY <1>19, <2>2, <2>3 DEF RootFails
<1>13. CASE RunJob
  <2>1. PICK j \in jobs : CopyFile(j.entry, j.dest, j.index)
    BY <1>13 DEF RunJob
  <2>2. j.entry \in FileEntries /\ j.dest \in Nat /\ j.index \in 1..Len(indexes)
    BY EntryFacts DEF Inv, WalkInv, Job
  <2>. QED BY <2>1, <2>2, CopyGrows
<1>14. CASE DropJobs \/ Signal \/ Crash
  BY <1>1, <1>14 DEF DropJobs, Signal, Crash, EndRun, driveVars
<1>15. CASE QuotaStops
  <2>1. SaveLog(copied, done) \/ UNCHANGED folders
    BY <1>15 DEF QuotaStops
  <2>. QED BY <1>1, <1>2, <1>3, <1>15, <2>1 DEF QuotaStops
<1>16. CASE UserTrash
  <2>1. ASSUME NEW d, folders' = [x \in DOMAIN folders |->
                        [folders[x] EXCEPT !.live = @ /\ x \notin Under(d)]]
        PROVE  Grown(folders, folders')
    <3>1. \A x \in DOMAIN folders : folders[x] \in DestFolder
      BY LenProperties, ElementOfSeq DEF Inv, DriveInv, FoldersOK
    <3>2. \A x \in DOMAIN folders : \A b \in BOOLEAN :
            [folders[x] EXCEPT !.live = b].key = folders[x].key
      BY <3>1 DEF DestFolder
    <3>3. \A x \in DOMAIN folders : folders'[x].key = folders[x].key
      BY <2>1, <3>2
    <3>. QED BY <2>1, <3>3, SameGrown
  <2>. QED BY <1>1, <1>16, <2>1 DEF UserTrash
<1>17. CASE UserUpload
  BY <1>1, <1>17 DEF UserUpload
<1>. QED
  BY <1>4, <1>5, <1>6, <1>7, <1>8, <1>9, <1>10, <1>11, <1>12, <1>13, <1>14, <1>15,
     <1>16, <1>17, <1>18, <1>19 DEF Next, Main, Pool, Environment

-----------------------------------------------------------------------------
(* The levels and the jobs                                                 *)

\* Two levels do not share an index, and the jobs that a level has submitted are
\* not in what it has left to do.
UseOK(F, js) ==
  /\ \A f, g \in Loops(F) : f.index = g.index => f.src = g.src
  /\ \A j \in js, f \in Loops(F) :
       j.index = f.index => j.dest = f.dest /\ j.entry \notin Entries(f.todo)

\* Jobs with the same index have the same destination, and are entries of its
\* source.
JobsOK(js, fs, ch) ==
  /\ \A j, k \in js : j.index = k.index => j.dest = k.dest
  /\ \A j \in js : j.dest # Nothing =>
       /\ j.dest \in DOMAIN fs /\ fs[j.dest].key \in FolderEntries
       /\ j.entry \in Among(ch, Source(fs[j.dest].key))

ShapeInv ==
  /\ FramesOK
  /\ UseOK(Frames(stack), jobs)
  /\ JobsOK(jobs, folders, scenario.children)

\* What is in Work.
LEMMA WorkIs ==
  /\ \A t : t \in Work <=> \/ t \in jobs
                           \/ \E f \in Loops(Frames(stack)) : t \in LevelWork(f)
  /\ \A t : t \in Work' <=> \/ t \in jobs'
                            \/ \E f \in Loops(Frames(stack')) : t \in LevelWork(f)
BY DEF Work, Loops, Frames, Entries

LEMMA LevelWorkIs ==
  ASSUME NEW f, NEW t
  PROVE  t \in LevelWork(f) <=> \E e \in Entries(f.todo) :
           t = [entry |-> e, dest |-> f.dest, index |-> f.index]
BY DEF LevelWork, Entries

\* What the invariant says of the files and entries to be done.
LEMMA WorkFacts ==
  ASSUME ShapeInv, Inv
  PROVE  /\ \A t \in Work : t.index \in 1..Len(indexes) /\ t.dest \in Nat
         /\ \A t, u \in Work : t.index = u.index => t.dest = u.dest
         /\ \A t \in Work : t.dest # Nothing =>
              /\ t.dest \in DOMAIN folders /\ folders[t.dest].key \in FolderEntries
              /\ t.entry \in Among(scenario.children, Source(folders[t.dest].key))
<1>1. \A f \in Frames(stack) : f \in Frame /\ FrameOK(f, folders, scenario.children)
  <2>1. \A f \in Frames(stack) : f \in Frame
    BY LenProperties, ElementOfSeq DEF Inv, WalkInv, StackOK, Frames, Entries
  <2>. QED BY <2>1 DEF ShapeInv, FramesOK
<1>2. \A f \in Loops(Frames(stack)) : f.index \in 1..Len(indexes) /\ f.dest \in Nat
  BY <1>1 DEF Inv, WalkInv, StackOK, Frames, Entries, Loops, Frame
<1>3. \A j \in jobs : j.index \in 1..Len(indexes) /\ j.dest \in Nat
  BY DEF Inv, WalkInv, Job
<1>4. \A t \in Work : t \in jobs \/ \E f \in Loops(Frames(stack)) : \E e \in Entries(f.todo) :
                                      t = [entry |-> e, dest |-> f.dest, index |-> f.index]
  BY WorkIs, LevelWorkIs
<1>5. \A t \in Work : t.index \in 1..Len(indexes) /\ t.dest \in Nat
  BY <1>2, <1>3, <1>4
<1>6. \A f, g \in Loops(Frames(stack)) : f.index = g.index => f.dest = g.dest
  <2>1. \A f, g \in Loops(Frames(stack)) : f.index = g.index => f = g
    BY FramesDiffer DEF ShapeInv, UseOK, Loops, Inv, WalkInv
  <2>. QED BY <2>1
<1>7. \A t, u \in Work : t.index = u.index => t.dest = u.dest
  BY <1>4, <1>6 DEF ShapeInv, UseOK, JobsOK
<1>8. \A f \in Loops(Frames(stack)) : \A e \in Entries(f.todo) : f.dest # Nothing =>
        /\ f.dest \in DOMAIN folders /\ folders[f.dest].key \in FolderEntries
        /\ e \in Among(scenario.children, Source(folders[f.dest].key))
  BY <1>1 DEF Loops, FrameOK, DestOK, KidsOK
<1>9. \A t \in Work : t.dest # Nothing =>
        /\ t.dest \in DOMAIN folders /\ folders[t.dest].key \in FolderEntries
        /\ t.entry \in Among(scenario.children, Source(folders[t.dest].key))
  BY <1>4, <1>8 DEF ShapeInv, JobsOK
<1>. QED BY <1>5, <1>7, <1>9

\* Level f has only its folder in common with a level before, or was in its loop
\* already, with the same index and no less to do.
Older(f) ==
  f.stage = "loop" =>
    \E g \in Loops(Frames(stack)) :
      /\ f.src = g.src /\ f.dest = g.dest /\ f.index = g.index
      /\ Entries(f.todo) \subseteq Entries(g.todo)

\* The invariant is kept when no level begins its loop and no file is submitted.
LEMMA ShapeKept ==
  ASSUME ShapeInv, Grown(folders, folders'), scenario' = scenario, jobs' \subseteq jobs,
         \A f \in Frames(stack') : FrameOK(f, folders', scenario.children) /\ Older(f)
  PROVE  ShapeInv' /\ Work' \subseteq Work
<1>1. FramesOK'
  BY DEF FramesOK
<1>2. \A f \in Loops(Frames(stack')) : \E g \in Loops(Frames(stack)) :
        /\ f.src = g.src /\ f.dest = g.dest /\ f.index = g.index
        /\ Entries(f.todo) \subseteq Entries(g.todo)
  BY DEF Loops, Older
<1>3. UseOK(Frames(stack'), jobs')
  BY <1>2 DEF ShapeInv, UseOK
<1>4. JobsOK(jobs', folders', scenario.children)
  BY DEF ShapeInv, JobsOK, Grown
<1>5. ASSUME NEW t \in Work'
      PROVE  t \in Work
  <2>1. CASE t \in jobs'
    BY <2>1, WorkIs
  <2>2. ASSUME NEW f \in Loops(Frames(stack')), t \in LevelWork(f)
        PROVE  t \in Work
    <3>1. PICK e \in Entries(f.todo) : t = [entry |-> e, dest |-> f.dest, index |-> f.index]
      BY <2>2, LevelWorkIs
    <3>2. PICK g \in Loops(Frames(stack)) : /\ f.dest = g.dest /\ f.index = g.index
                                            /\ e \in Entries(g.todo)
      BY <1>2
    <3>3. t \in LevelWork(g)
      BY <3>1, <3>2, LevelWorkIs
    <3>. QED BY <3>2, <3>3, WorkIs
  <2>. QED BY <2>1, <2>2, WorkIs
<1>. QED BY <1>1, <1>3, <1>4, <1>5 DEF ShapeInv

\* The same, from what is said of the steps.
LEMMA TameShape ==
  ASSUME ShapeInv, Grown(folders, folders'), scenario' = scenario, jobs' \subseteq jobs,
         StackTamed
  PROVE  ShapeInv' /\ Work' \subseteq Work
<1>1. ASSUME NEW f \in Frames(stack')
      PROVE  FrameOK(f, folders', scenario.children) /\ Older(f)
  <2>1. PICK g \in Frames(stack) : Tame(f, g, folders, scenario.children)
    BY DEF StackTamed
  <2>2. FrameOK(f, folders', scenario.children)
    BY FrameKept DEF StackTamed
  <2>3. Older(f)
    BY <2>1 DEF Tame, Older, Loops, Offers
  <2>. QED BY <2>2, <2>3
<1>. QED BY <1>1, ShapeKept

-----------------------------------------------------------------------------
(* The steps that put new levels on the stack                              *)

\* A folder is entered, or put off.
EnteredAs(e, d, f) ==
  /\ e \in FolderEntries /\ Source(e) \notin Visited /\ stack # <<>>
  /\ Top.stage = "loop"
  /\ d \in Nat /\ DestOK(d, Source(e), folders')
  /\ d # Nothing => Top.dest # Nothing /\ folders'[d].key = e
  /\ f.src = Top.src /\ f.dest = Top.dest /\ f.stage = "loop" /\ f.index = Top.index
  /\ e \in Entries(Top.todo) /\ Entries(f.todo) \subseteq Entries(Top.todo) \ {e}
  /\ FrameOK(f, folders', scenario.children)
  /\ \/ /\ f.pending = Top.pending
        /\ \A h \in Frames(stack') :
             \/ h = f \/ h = NewFrame(Source(e), d, "list", <<>>)
             \/ (h \in Frames(stack) /\ h.src # Top.src)
     \/ /\ f.pending = Append(Top.pending,
                              [src |-> Source(e), dest |-> d, kids |-> <<>>])
        /\ \A h \in Frames(stack') : h = f \/ (h \in Frames(stack) /\ h.src # Top.src)

\* The destination folder it gets, which the map remembers.
ObtainedAs(e, d) ==
  /\ d \in Destinations(Top.dest, e) /\ Obtain(Top.dest, e, d)
  /\ folderMap' = IF d = Nothing THEN folderMap ELSE [folderMap EXCEPT ![e] = d]

LEMMA EnterIs ==
  ASSUME Inv, FramesOK, NEW e \in Ids, EnterFolder(e)
  PROVE  RootKept /\ \E d, f : EnteredAs(e, d, f) /\ ObtainedAs(e, d)
<1>1. /\ AtEntry(e) /\ e \in FolderEntries /\ Source(e) \notin Visited
      /\ stack # <<>> /\ Top \in Frame /\ Top.stage = "loop" /\ Top.dest \in Nat
      /\ Top.todo # <<>>
  BY AtEntryIs DEF EnterFolder, Enters, Inv
<1>2. /\ Next1.src = Top.src /\ Next1.dest = Top.dest
      /\ Next1.index = Top.index /\ Next1.stage = "loop"
      /\ Next1.pending = Top.pending
      /\ e \in Entries(Top.todo) /\ Entries(Next1.todo) \subseteq Entries(Top.todo) \ {e}
      /\ FrameOK(Next1, folders, scenario.children)
  BY <1>1, NextTamed DEF Inv
<1>3. PICK d \in Destinations(Top.dest, e) :
        /\ Obtain(Top.dest, e, d) /\ ObtainedAs(e, d)
        /\ \/ SetTop([Next1 EXCEPT !.pending =
                Append(@, [src |-> Source(e), dest |-> d, kids |-> <<>>])])
           \/ stack' = Append([stack EXCEPT ![Len(stack)] = Next1],
                              NewFrame(Source(e), d, "list", <<>>))
  BY DEF EnterFolder, ObtainedAs
<1>4. PICK parent \in Nat : parent = Top.dest
  BY <1>1
<1>5. /\ d \in Nat /\ DestOK(d, Source(e), folders')
      /\ d # Nothing => Top.dest # Nothing /\ folders'[d].key = e
      /\ Grown(folders, folders')
  BY <1>1, <1>3, <1>4, ObtainedIs DEF Inv
<1>6. FrameOK(Next1, folders', scenario.children)
  BY <1>2, <1>5, FrameKept
<1>7. /\ StackOK(stack, Len(indexes)) /\ Top.src = stack[Len(stack)].src
      /\ Len(indexes) \in Nat /\ Source(e) \in Folders
      /\ 1 \in DOMAIN stack
  BY <1>1, TopIs, TopInFrames, EntryFacts DEF Inv, WalkInv
<1>8. Top.pending \in Seq(Pending) /\ Next1 \in Frame
  <2>1. Tail(Top.todo) \in Seq(Ids)
    BY <1>1, HeadTailProperties DEF Frame
  <2>. QED BY <1>1, <2>1 DEF Next1, Frame
<1>9. CASE stack' = Append([stack EXCEPT ![Len(stack)] = Next1],
                           NewFrame(Source(e), d, "list", <<>>))
  <2> DEFINE s == [stack EXCEPT ![Len(stack)] = Next1]
             g == NewFrame(Source(e), d, "list", <<>>)
  <2>1. /\ \A h \in Frames(s) : h = Next1 \/ (h \in Frames(stack) /\ h.src # Next1.src)
        /\ s[1].src = stack[1].src /\ DOMAIN s = DOMAIN stack
    BY <1>1, <1>2, <1>7, TopReplaced
  <2>2. StackOK(s, Len(indexes))
    <3>1. /\ Next1.src = stack[Len(stack)].src
          /\ Next1.stage = "loop" => Next1.index \in 1..Len(indexes)
          /\ \A k \in DOMAIN Next1.pending : \A j \in DOMAIN stack :
               stack[j].src # Next1.pending[k].src
      BY <1>1, <1>2, <1>7, TopIs DEF Inv
    <3>2. PICK f \in Frame : f = Next1
      BY <1>8
    <3>. QED BY <1>1, <1>7, <3>1, <3>2, TopChanges
  <2>3. g \in Frame
    BY <1>5, <1>7, EmptySeq DEF NewFrame, Frame, Stages
  <2>4. stack' = Append(s, g)
    BY <1>9
  <2> HIDE DEF s, g
  <2>5. /\ \A h \in Frames(stack') : h = g \/ h \in Frames(s)
        /\ stack'[1] = s[1]
    BY <1>7, <2>1, <2>2, <2>3, <2>4, LevelAdded
  <2>6. RootKept
    BY <1>1, <2>1, <2>5 DEF RootKept
  <2>7. \A h \in Frames(stack') :
          h = Next1 \/ h = g \/ (h \in Frames(stack) /\ h.src # Top.src)
    BY <1>2, <2>1, <2>5
  <2>8. EnteredAs(e, d, Next1)
    BY <1>1, <1>2, <1>5, <1>6, <2>7 DEF EnteredAs, g
  <2>. QED BY <1>3, <2>6, <2>8
<1>10. CASE SetTop([Next1 EXCEPT !.pending =
              Append(@, [src |-> Source(e), dest |-> d, kids |-> <<>>])])
  <2> DEFINE p == [src |-> Source(e), dest |-> d, kids |-> <<>>]
             f == [Next1 EXCEPT !.pending = Append(@, p)]
  <2>1. p \in Pending /\ p.src = Source(e) /\ p.dest = d /\ p.kids = <<>>
    BY <1>5, <1>7, EmptySeq DEF Pending
  <2>2. stack' = [stack EXCEPT ![Len(stack)] = f]
    BY <1>10 DEF SetTop
  <2>3. /\ f.src = Next1.src /\ f.dest = Next1.dest /\ f.stage = Next1.stage
        /\ f.index = Next1.index /\ f.todo = Next1.todo
        /\ f.pending = Append(Top.pending, p)
    BY <1>2, <1>8 DEF Frame
  <2> HIDE DEF f, p
  <2>4. \A k \in DOMAIN f.pending :
          f.pending[k] = p \/ (k \in DOMAIN Top.pending /\ f.pending[k] = Top.pending[k])
    BY <1>8, <2>1, <2>3, AppendProperties, LenProperties
  <2>5. DestOK(p.dest, p.src, folders') /\ KidsOK(p.kids, p.src, scenario.children)
    BY <1>5, <2>1, KidsNone
  <2>6. FrameOK(f, folders', scenario.children)
    <3>1. \A k \in DOMAIN Top.pending :
            /\ DestOK(Top.pending[k].dest, Top.pending[k].src, folders')
            /\ KidsOK(Top.pending[k].kids, Top.pending[k].src, scenario.children)
      BY <1>2, <1>6 DEF FrameOK
    <3>2. \A k \in DOMAIN f.pending :
            /\ DestOK(f.pending[k].dest, f.pending[k].src, folders')
            /\ KidsOK(f.pending[k].kids, f.pending[k].src, scenario.children)
      BY <2>4, <2>5, <3>1
    <3>3. /\ DestOK(f.dest, f.src, folders') /\ KidsOK(f.todo, f.src, scenario.children)
      BY <1>6, <2>3 DEF FrameOK
    <3>. QED BY <3>2, <3>3 DEF FrameOK
  <2>7. /\ \A h \in Frames(stack') : h = f \/ (h \in Frames(stack) /\ h.src # f.src)
        /\ stack'[1].src = stack[1].src
    <3>1. f.src = stack[Len(stack)].src
      BY <1>2, <1>7, <2>3
    <3>. QED BY <1>1, <1>7, <2>2, <3>1, TopReplaced
  <2>8. RootKept
    BY <1>1, <2>7 DEF RootKept
  <2>9. EnteredAs(e, d, f)
    BY <1>1, <1>2, <1>5, <2>3, <2>6, <2>7 DEF EnteredAs, p
  <2>. QED BY <1>3, <2>8, <2>9
<1>. QED BY <1>3, <1>9, <1>10

\* The first folder that was put off is entered, if there is something in it.
DescendedAs(f) ==
  LET sub == Head(Top.pending)
  IN  /\ stack # <<>> /\ Top.stage = "descend"
      /\ f.src = Top.src /\ f.dest = Top.dest /\ f.stage = "descend"
      /\ f.todo = Top.todo
      /\ FrameOK(f, folders, scenario.children)
      /\ Spots(f) \subseteq Spots(Top) /\ sub.dest \in Spots(Top)
      /\ Put(f, folders) \subseteq Put(Top, folders)
      /\ Apart(Top, folders) =>
           Apart(f, folders) /\ Keys(sub.dest, folders) \intersect Put(f, folders) = {}
      /\ Keys(sub.dest, folders) \subseteq Put(Top, folders)
      /\ DestOK(sub.dest, sub.src, folders)
      /\ KidsOK(sub.kids, sub.src, scenario.children)
      /\ \A h \in Frames(stack') :
           \/ h = f \/ h = NewFrame(sub.src, sub.dest, "index", sub.kids)
           \/ (h \in Frames(stack) /\ h.src # Top.src)

LEMMA DescendIs ==
  ASSUME Inv, FramesOK, Descend
  PROVE  RootKept /\ \E f : DescendedAs(f)
<1>1. stack # <<>> /\ Top.stage = "descend" /\ Top.pending # <<>>
  BY DEF Descend
<1>2. /\ Top \in Frame /\ Len(indexes) \in Nat /\ StackOK(stack, Len(indexes))
      /\ Top.pending \in Seq(Pending) /\ DOMAIN stack = 1..Len(stack)
      /\ FrameOK(Top, folders, scenario.children) /\ Top.src = stack[Len(stack)].src
      /\ 1 \in DOMAIN stack
  BY <1>1, TopIs, TopInFrames DEF Inv, WalkInv, Frame, FramesOK
<1> DEFINE f == [Top EXCEPT !.pending = Tail(@)]
           rest == [stack EXCEPT ![Len(stack)] = f]
           sub == Head(Top.pending)
           g == NewFrame(sub.src, sub.dest, "index", sub.kids)
<1>3. /\ sub \in Pending /\ Tail(Top.pending) \in Seq(Pending)
      /\ Len(Top.pending) \in Nat /\ Len(Tail(Top.pending)) = Len(Top.pending) - 1
  BY <1>1, <1>2, HeadTailProperties, LenProperties
<1>4. /\ Len(Top.pending) # 0 /\ DOMAIN Top.pending = 1..Len(Top.pending)
      /\ DOMAIN Tail(Top.pending) = 1..(Len(Top.pending) - 1)
  BY <1>1, <1>2, <1>3, EmptySeq, LenProperties
<1>5. \A k \in DOMAIN Tail(Top.pending) :
        /\ k + 1 \in DOMAIN Top.pending /\ k + 1 # 1
        /\ Tail(Top.pending)[k] = Top.pending[k + 1]
  BY <1>1, <1>2, <1>3, <1>4
<1>6. sub = Top.pending[1] /\ 1 \in DOMAIN Top.pending
  BY <1>1, <1>2, <1>3, <1>4
<1>7. /\ f \in Frame /\ f.src = Top.src /\ f.dest = Top.dest /\ f.stage = "descend"
      /\ f.todo = Top.todo /\ f.pending = Tail(Top.pending)
  BY <1>1, <1>2, <1>3 DEF Frame
<1> HIDE DEF f
<1>8. /\ \A h \in Frames(rest) : h = f \/ (h \in Frames(stack) /\ h.src # f.src)
      /\ rest[1].src = stack[1].src /\ DOMAIN rest = DOMAIN stack
  <2>1. f.src = stack[Len(stack)].src
    BY <1>2, <1>7
  <2>. QED BY <1>1, <1>2, <2>1, TopReplaced
<1>9. StackOK(rest, Len(indexes))
  <2>1. \A k \in DOMAIN Top.pending : \A j \in DOMAIN stack :
          stack[j].src # Top.pending[k].src
    BY <1>1, TopIs DEF Inv
  <2>2. \A k \in DOMAIN f.pending : \A j \in DOMAIN stack :
          stack[j].src # f.pending[k].src
    BY <1>5, <1>7, <2>1
  <2>. QED BY <1>1, <1>2, <1>7, <2>2, TopChanges
<1>10. g \in Frame
  BY <1>3, EmptySeq DEF NewFrame, Frame, Stages, Pending
<1>11. stack' = Append(rest, g) \/ stack' = rest
  BY DEF Descend, f
<1> HIDE DEF g, rest, sub
<1>12. /\ \A h \in Frames(Append(rest, g)) : h = g \/ h \in Frames(rest)
       /\ Append(rest, g)[1] = rest[1]
  BY <1>2, <1>8, <1>9, <1>10, LevelAdded
<1>13. RootKept
  BY <1>1, <1>8, <1>11, <1>12 DEF RootKept
<1>14. \A h \in Frames(stack') : h = f \/ h = g \/ (h \in Frames(stack) /\ h.src # Top.src)
  BY <1>7, <1>8, <1>11, <1>12
<1> DEFINE kept == Tail(Top.pending)
<1> HIDE DEF kept
<1>15. /\ \A k \in DOMAIN kept : /\ k + 1 \in DOMAIN Top.pending /\ k + 1 # 1
                                 /\ kept[k] = Top.pending[k + 1]
       /\ f.pending = kept
       /\ \A k, l \in DOMAIN kept : k # l => k + 1 # l + 1
  BY <1>3, <1>4, <1>5, <1>7 DEF kept
<1>16. FrameOK(f, folders, scenario.children)
  BY <1>2, <1>7, <1>15 DEF FrameOK
<1>17. Put(f, folders) \subseteq Put(Top, folders)
  BY <1>15 DEF Put
<1>18. Apart(Top, folders) => Apart(f, folders)
  BY <1>15 DEF Apart
<1>19. Apart(Top, folders) => Keys(sub.dest, folders) \intersect Put(f, folders) = {}
  BY <1>6, <1>15 DEF Apart, Put
<1>20. /\ Keys(sub.dest, folders) \subseteq Put(Top, folders)
       /\ DestOK(sub.dest, sub.src, folders)
       /\ KidsOK(sub.kids, sub.src, scenario.children)
  BY <1>2, <1>6 DEF Put, FrameOK
<1>21. Spots(f) \subseteq Spots(Top) /\ sub.dest \in Spots(Top)
  BY <1>6, <1>7, <1>15 DEF Spots
<1>22. DescendedAs(f)
  BY <1>1, <1>7, <1>14, <1>16, <1>17, <1>18, <1>19, <1>20, <1>21
     DEF DescendedAs, sub, g
<1>. QED BY <1>13, <1>22

\* A level begins its loop with the newest index.
BegunAs(f) ==
  /\ stack # <<>> /\ Top.stage = "index"
  /\ f.src = Top.src /\ f.dest = Top.dest /\ f.stage = "loop" /\ f.todo = Top.todo
  /\ f.index = Len(indexes) + 1 /\ f.pending = Top.pending
  /\ FrameOK(f, folders, scenario.children)
  /\ \A h \in Frames(stack') : h = f \/ (h \in Frames(stack) /\ h.src # Top.src)

LEMMA BuildIs ==
  ASSUME Inv, FramesOK, BuildIndex
  PROVE  RootKept /\ \E f : BegunAs(f)
<1>1. /\ stack # <<>> /\ Top.stage = "index"
      /\ SetTop([Top EXCEPT !.stage = "loop", !.index = Len(indexes) + 1])
  BY DEF BuildIndex
<1>2. /\ Top \in Frame /\ StackOK(stack, Len(indexes))
      /\ FrameOK(Top, folders, scenario.children) /\ Top.src = stack[Len(stack)].src
  BY <1>1, TopIs, TopInFrames DEF Inv, WalkInv, FramesOK
<1> DEFINE f == [Top EXCEPT !.stage = "loop", !.index = Len(indexes) + 1]
<1>3. /\ f.src = Top.src /\ f.dest = Top.dest /\ f.stage = "loop" /\ f.todo = Top.todo
      /\ f.index = Len(indexes) + 1 /\ f.pending = Top.pending
  BY <1>2 DEF Frame
<1>4. stack' = [stack EXCEPT ![Len(stack)] = f]
  BY <1>1 DEF SetTop
<1> HIDE DEF f
<1>5. /\ \A h \in Frames(stack') : h = f \/ (h \in Frames(stack) /\ h.src # f.src)
      /\ stack'[1].src = stack[1].src
  <2>1. f.src = stack[Len(stack)].src
    BY <1>2, <1>3
  <2>. QED BY <1>1, <1>2, <1>4, <2>1, TopReplaced
<1>6. FrameOK(f, folders, scenario.children)
  BY <1>2, <1>3 DEF FrameOK
<1>7. BegunAs(f)
  BY <1>1, <1>3, <1>5, <1>6 DEF BegunAs
<1>8. RootKept
  BY <1>1, <1>5 DEF RootKept
<1>. QED BY <1>7, <1>8

\* A run begins at the root.
OpenedAs(d) ==
  /\ jobs' = {} /\ d \in Nat /\ DestOK(d, Root, folders')
  /\ d # Nothing => folders'[d].key = Root
  /\ stack' = <<NewFrame(Root, d, "list", <<>>)>>

LEMMA OpenIs ==
  ASSUME Inv, OpenRoot
  PROVE  \E d : OpenedAs(d)
<1>1. PICK d \in Destinations(DestParent, Root) :
        /\ Obtain(DestParent, Root, d)
        /\ stack' = <<NewFrame(Root, d, "list", <<>>)>>
  BY DEF OpenRoot
<1>2. DestParent \in Nat /\ Root \in FolderEntries /\ Source(Root) = Root
  BY EntryFacts, RootAssumption, IdAssumption DEF DestParent, Source
<1>3. /\ d \in Nat /\ DestOK(d, Source(Root), folders')
      /\ d # Nothing => folders'[d].key = Root
  BY <1>1, <1>2, ObtainedIs DEF Inv
<1>4. jobs' = {}
  BY DEF OpenRoot, Inv, WalkInv
<1>. QED BY <1>1, <1>2, <1>3, <1>4 DEF OpenedAs

-----------------------------------------------------------------------------
(* The invariant of the levels and jobs                                    *)

\* The steps that put no level on the stack, begin no loop and submit no file.
Calm == StackTamed /\ RootKept /\ jobs' \subseteq jobs

LEMMA CalmSteps ==
  ASSUME Inv, FramesOK, [Next]_vars
  PROVE  \/ Calm
         \/ OpenRoot \/ BuildIndex \/ Descend
         \/ \E e \in Ids : EnterFolder(e) \/ SubmitFile(e)
<1> USE DEF Calm
<1>1. ASSUME stack' = stack, jobs' \subseteq jobs PROVE Calm
  BY <1>1, StackAlone
<1>2. CASE UNCHANGED vars
  BY <1>1, <1>2 DEF vars, walkVars
<1>3. ASSUME NEW o \in scenario.options, StartRun(o) PROVE Calm
  BY <1>1, <1>3 DEF StartRun, walkVars
<1>4. CASE ListFolder
  BY <1>4, ListTamed DEF ListFolder, Inv, RunInv
<1>5. CASE BatchedList
  BY <1>5, BatchTamed DEF BatchedList, Inv, RunInv
<1>6. CASE LeaveLevel
  BY <1>6, TopLeft DEF LeaveLevel, Inv
<1>7. CASE Finish \/ Signal
  BY <1>1, <1>7 DEF Finish, Signal, walkVars
<1>8. CASE Finalize \/ RootFails \/ Crash
  BY <1>8, StackGone DEF Finalize, RootFails, Crash, EndRun, FreshCopier
<1>9. CASE QuotaStops
  BY <1>9, StackGone DEF QuotaStops
<1>10. ASSUME NEW e \in Ids, \/ CopyInline(e) \/ LoopSkipped(e) \/ SkipComplete(e)
                             \/ ShortcutUnresolved(e) \/ CreateFails(e)
       PROVE  Calm
  <2>1. AtEntry(e) /\ SetTop(Next1) /\ jobs' = jobs
    BY <1>10 DEF CopyInline, LoopSkipped, SkipComplete, ShortcutUnresolved, CreateFails,
       Enters
  <2>. QED BY <2>1, LoopTamed DEF Inv
<1>11. CASE Pool
  BY <1>1, <1>11 DEF Pool, RunJob, DropJobs
<1>12. CASE UserTrash \/ UserUpload
  BY <1>1, <1>12 DEF UserTrash, UserUpload, walkVars
<1>. QED
  BY <1>2, <1>3, <1>4, <1>5, <1>6, <1>7, <1>8, <1>9, <1>10, <1>11, <1>12
     DEF Next, Main, Environment

\* A loop begins.
LEMMA ShapeBuild ==
  ASSUME Inv, ShapeInv, BuildIndex, NEW f, BegunAs(f), Grown(folders, folders')
  PROVE  ShapeInv' /\ Work' \subseteq Work \union LevelWork(f)
<1>1. scenario' = scenario /\ jobs' = jobs
  BY DEF BuildIndex
<1>2. FramesOK'
  <2>1. \A h \in Frames(stack') : FrameOK(h, folders, scenario.children)
    BY DEF BegunAs, ShapeInv, FramesOK
  <2>. QED BY <1>1, <2>1, FrameKept DEF FramesOK
<1>3. /\ Len(indexes) \in Nat
      /\ \A h \in Loops(Frames(stack)) : h.index \in 1..Len(indexes)
      /\ \A j \in jobs : j.index \in 1..Len(indexes)
  BY LenProperties DEF Inv, WalkInv, StackOK, Loops, Frames, Entries
<1>4. \A h \in Loops(Frames(stack')) : h = f \/ h \in Loops(Frames(stack))
  BY DEF BegunAs, Loops
<1>5. /\ \A h \in Loops(Frames(stack)) : h.index # f.index
      /\ \A j \in jobs : j.index # f.index
  BY <1>3 DEF BegunAs
<1>6. UseOK(Frames(stack'), jobs)
  BY <1>4, <1>5 DEF ShapeInv, UseOK
<1>7. JobsOK(jobs, folders', scenario.children)
  BY DEF ShapeInv, JobsOK, Grown
<1>8. Work' \subseteq Work \union LevelWork(f)
  BY <1>1, <1>4, WorkIs
<1>. QED BY <1>1, <1>2, <1>6, <1>7, <1>8 DEF ShapeInv

\* A file goes from a loop to the pool.
LEMMA ShapeSubmit ==
  ASSUME Inv, ShapeInv, NEW e \in Ids, SubmitFile(e)
  PROVE  ShapeInv' /\ Work' \subseteq Work /\ StackTamed /\ RootKept
<1> DEFINE jn == [entry |-> e, dest |-> Top.dest, index |-> Top.index]
<1>1. /\ AtEntry(e) /\ SetTop(Next1) /\ jobs' = jobs \union {jn}
      /\ UNCHANGED <<scenario, folders>>
  BY DEF SubmitFile, driveVars
<1>2. stack # <<>> /\ Top.stage = "loop" /\ Top \in Frames(stack) /\ Top.dest \in Nat
  BY <1>1, AtEntryIs, TopInFrames DEF Inv
<1>3. /\ Next1.src = Top.src /\ Next1.dest = Top.dest
      /\ Next1.index = Top.index /\ Next1.stage = "loop"
      /\ e \in Entries(Top.todo) /\ Entries(Next1.todo) \subseteq Entries(Top.todo) \ {e}
  BY <1>1, NextTamed DEF Inv, ShapeInv
<1>4. StackTamed /\ RootKept
  BY <1>1, LoopTamed DEF Inv, ShapeInv
<1>5. \A h \in Frames(stack') : h = Next1 \/ (h \in Frames(stack) /\ h.src # Top.src)
  <2>1. Next1.src = stack[Len(stack)].src
    BY <1>2, <1>3, TopInFrames DEF Inv
  <2>2. StackOK(stack, Len(indexes)) /\ stack' = [stack EXCEPT ![Len(stack)] = Next1]
    BY <1>1 DEF Inv, WalkInv, SetTop
  <2>3. \A h \in Frames(stack') : h = Next1 \/ (h \in Frames(stack) /\ h.src # Next1.src)
    BY <1>2, <2>1, <2>2, TopReplaced
  <2>. QED BY <1>3, <2>3
<1>6. FramesOK'
  <2>1. \A h \in Frames(stack') : FrameOK(h, folders, scenario.children)
    BY <1>4 DEF StackTamed
  <2>. QED BY <1>1, <2>1 DEF FramesOK
<1>7. Top \in Loops(Frames(stack))
  BY <1>2 DEF Loops
<1>8. \A h \in Loops(Frames(stack')) :
        h = Next1 \/ (h \in Loops(Frames(stack)) /\ h.src # Top.src)
  BY <1>5 DEF Loops
<1>9. UseOK(Frames(stack'), jobs')
  <2>1. \A f, g \in Loops(Frames(stack')) : f.index = g.index => f.src = g.src
    BY <1>3, <1>7, <1>8 DEF ShapeInv, UseOK
  <2>2. \A j \in jobs, f \in Loops(Frames(stack')) :
          j.index = f.index => j.dest = f.dest /\ j.entry \notin Entries(f.todo)
    BY <1>3, <1>7, <1>8 DEF ShapeInv, UseOK
  <2>3. \A f \in Loops(Frames(stack')) :
          jn.index = f.index => jn.dest = f.dest /\ jn.entry \notin Entries(f.todo)
    BY <1>3, <1>7, <1>8 DEF ShapeInv, UseOK
  <2>. QED BY <1>1, <2>1, <2>2, <2>3 DEF UseOK
<1>10. JobsOK(jobs', folders, scenario.children)
  <2>1. FrameOK(Top, folders, scenario.children)
    BY <1>2 DEF ShapeInv, FramesOK
  <2>2. jn.dest # Nothing =>
          /\ jn.dest \in DOMAIN folders /\ folders[jn.dest].key \in FolderEntries
          /\ jn.entry \in Among(scenario.children, Source(folders[jn.dest].key))
    BY <1>3, <2>1 DEF FrameOK, DestOK, KidsOK
  <2>3. \A j \in jobs : j.index = jn.index => j.dest = jn.dest
    BY <1>7 DEF ShapeInv, UseOK
  <2> HIDE DEF jn
  <2>. QED BY <1>1, <2>2, <2>3 DEF ShapeInv, JobsOK
<1>11. Work' \subseteq Work
  <2>1. jn \in LevelWork(Top)
    BY <1>3, LevelWorkIs
  <2>2. \A t \in LevelWork(Next1) : t \in LevelWork(Top)
    BY <1>3, LevelWorkIs
  <2> HIDE DEF jn
  <2>. QED BY <1>1, <1>7, <1>8, <2>1, <2>2, WorkIs
<1>. QED BY <1>1, <1>4, <1>6, <1>9, <1>10, <1>11 DEF ShapeInv

\* Every step keeps the invariant, and only a new loop brings new work.
LEMMA ShapeNext ==
  ASSUME Inv, ShapeInv, [Next]_vars
  PROVE  /\ ShapeInv'
         /\ Work' \subseteq Work \/ BuildIndex
<1>1. Grown(folders, folders') /\ scenario' = scenario
  BY StepGrows
<1>2. FramesOK
  BY DEF ShapeInv
<1>3. CASE Calm
  BY <1>1, <1>3, TameShape DEF Calm
<1>4. CASE OpenRoot
  <2>1. PICK d : OpenedAs(d)
    BY <1>4, OpenIs
  <2> DEFINE g == NewFrame(Root, d, "list", <<>>)
  <2>2. /\ g.stage = "list" /\ g.src = Root /\ g.dest = d /\ g.todo = <<>>
        /\ g.pending = <<>>
    BY DEF NewFrame
  <2>3. FrameOK(g, folders', scenario.children)
    BY <2>1, <2>2, KidsNone DEF FrameOK, OpenedAs
  <2>4. Older(g)
    BY <2>2 DEF Older
  <2>5. \A h \in Frames(stack') : h = g
    BY <2>1 DEF OpenedAs, Frames, Entries
  <2> HIDE DEF g
  <2>. QED BY <1>1, <2>1, <2>3, <2>4, <2>5, ShapeKept DEF OpenedAs
<1>5. CASE BuildIndex
  BY <1>1, <1>2, <1>5, BuildIs, ShapeBuild
<1>6. CASE Descend
  <2>1. PICK f : DescendedAs(f)
    BY <1>2, <1>6, DescendIs
  <2> DEFINE sub == Head(Top.pending)
             g == NewFrame(sub.src, sub.dest, "index", sub.kids)
  <2>2. /\ g.stage = "index" /\ g.src = sub.src /\ g.dest = sub.dest
        /\ g.todo = sub.kids /\ g.pending = <<>>
    BY DEF NewFrame
  <2>3. FrameOK(g, folders, scenario.children)
    <3>1. DestOK(sub.dest, sub.src, folders) /\ KidsOK(sub.kids, sub.src, scenario.children)
      BY <2>1 DEF DescendedAs
    <3>2. DOMAIN g.pending = {}
      BY <2>2, EmptySeq
    <3> HIDE DEF sub, g
    <3>. QED BY <2>2, <3>1, <3>2 DEF FrameOK
  <2>4. \A h \in Frames(stack') : h = f \/ h = g \/ h \in Frames(stack)
    BY <2>1 DEF DescendedAs
  <2> HIDE DEF g
  <2>5. ASSUME NEW h \in Frames(stack')
        PROVE  FrameOK(h, folders', scenario.children) /\ Older(h)
    <3>1. FrameOK(h, folders, scenario.children)
      BY <1>2, <2>1, <2>3, <2>4 DEF FramesOK, DescendedAs
    <3>2. Older(h)
      BY <2>1, <2>2, <2>4 DEF Older, Loops, DescendedAs
    <3>. QED BY <1>1, <3>1, <3>2, FrameKept
  <2>6. jobs' \subseteq jobs
    BY <1>6 DEF Descend
  <2>. QED BY <1>1, <2>5, <2>6, ShapeKept
<1>7. ASSUME NEW e \in Ids, EnterFolder(e)
      PROVE  ShapeInv' /\ Work' \subseteq Work
  <2>1. PICK d, f : EnteredAs(e, d, f)
    BY <1>2, <1>7, EnterIs
  <2> DEFINE g == NewFrame(Source(e), d, "list", <<>>)
  <2>2. /\ g.stage = "list" /\ g.src = Source(e) /\ g.dest = d
        /\ g.todo = <<>> /\ g.pending = <<>>
    BY DEF NewFrame
  <2>3. FrameOK(g, folders', scenario.children)
    BY <2>1, <2>2, KidsNone DEF FrameOK, EnteredAs
  <2>4. \A h \in Frames(stack') : h = f \/ h = g \/ h \in Frames(stack)
    BY <2>1 DEF EnteredAs
  <2> HIDE DEF g
  <2>5. Top \in Loops(Frames(stack))
    BY <2>1, TopInFrames DEF EnteredAs, Loops, Inv
  <2>6. ASSUME NEW h \in Frames(stack')
        PROVE  FrameOK(h, folders', scenario.children) /\ Older(h)
    <3>1. FrameOK(f, folders', scenario.children) /\ Older(f)
      BY <2>1, <2>5 DEF EnteredAs, Older
    <3>2. FrameOK(g, folders', scenario.children) /\ Older(g)
      BY <2>2, <2>3 DEF Older
    <3>3. CASE h \in Frames(stack)
      <4>1. FrameOK(h, folders', scenario.children)
        BY <1>1, <1>2, <3>3, FrameKept DEF FramesOK
      <4>2. Older(h)
        BY <3>3 DEF Older, Loops
      <4>. QED BY <4>1, <4>2
    <3>. QED BY <2>4, <3>1, <3>2, <3>3
  <2>7. jobs' \subseteq jobs
    BY <1>7 DEF EnterFolder
  <2>. QED BY <1>1, <2>6, <2>7, ShapeKept
<1>8. ASSUME NEW e \in Ids, SubmitFile(e)
      PROVE  ShapeInv' /\ Work' \subseteq Work
  BY <1>8, ShapeSubmit
<1>. QED BY <1>2, <1>3, <1>4, <1>5, <1>6, <1>7, <1>8, CalmSteps

-----------------------------------------------------------------------------
(* Counting                                                                *)

\* A subset has no more elements.
LEMMA NoMore ==
  ASSUME NEW S, IsFiniteSet(S), NEW T, T \subseteq S
  PROVE  /\ IsFiniteSet(T) /\ Cardinality(T) <= Cardinality(S)
         /\ Cardinality(T) \in Nat /\ Cardinality(S) \in Nat
<1>1. IsFiniteSet(T) /\ Cardinality(T) <= Cardinality(S)
  BY FS_Subset
<1>2. Cardinality(T) \in Nat /\ Cardinality(S) \in Nat
  BY <1>1, FS_CardinalityType
<1>. QED BY <1>1, <1>2

\* One more on the left, and one more on the right.
LEMMA OneMoreEach ==
  ASSUME NEW A, IsFiniteSet(A), NEW B, Cardinality(A) <= Cardinality(B),
         NEW a, NEW A2, A2 \subseteq A \union {a},
         NEW b, b \notin B, NEW B2, IsFiniteSet(B2), B \union {b} \subseteq B2
  PROVE  Cardinality(A2) <= Cardinality(B2)
<1>1. IsFiniteSet(B)
  BY FS_Subset
<1>2. /\ IsFiniteSet(A \union {a})
      /\ Cardinality(A \union {a}) = IF a \in A THEN Cardinality(A) ELSE Cardinality(A) + 1
  BY FS_AddElement
<1>3. Cardinality(B \union {b}) = Cardinality(B) + 1
  BY <1>1, FS_AddElement
<1>4. Cardinality(A2) <= Cardinality(A \union {a}) /\ Cardinality(A2) \in Nat
  BY <1>2, NoMore
<1>5. Cardinality(B \union {b}) <= Cardinality(B2) /\ Cardinality(B2) \in Nat
  BY NoMore
<1>6. Cardinality(A) \in Nat /\ Cardinality(B) \in Nat
  BY <1>1, FS_CardinalityType
<1>. QED BY <1>2, <1>3, <1>4, <1>5, <1>6

\* The files of a folder, by their entries.
Wanted(f, ch) == Among(ch, f) \intersect FileEntries

LEMMA WantedFinite ==
  ASSUME scenario \in Scenarios, NEW f \in Folders
  PROVE  IsFiniteSet(Wanted(f, scenario.children))
<1> DEFINE s == Children(f)
           S == Among(scenario.children, f)
<1>1. s \in Seq(Ids) /\ Len(s) \in Nat /\ DOMAIN s = 1..Len(s)
  BY ChildrenTyped, LenProperties
<1>2. s \in [1..Len(s) -> S]
  BY <1>1 DEF Among, Children
<1>3. s \in Surjection(1..Len(s), S)
  BY <1>1, <1>2 DEF Surjection, Among, Children
<1>4. IsFiniteSet(S)
  BY <1>1, <1>3, FS_NatSurjection DEF ExistsSurjection
<1>. QED BY <1>4, FS_Subset DEF Wanted

LEMMA ItemsFinite ==
  ASSUME ListInv
  PROVE  /\ IsFiniteSet(DOMAIN items) /\ DOMAIN items = 1..Len(items)
         /\ Len(items) \in Nat
<1>1. DOMAIN items = 1..Len(items) /\ Len(items) \in Nat
  BY LenProperties DEF ListInv
<1>2. IsFiniteSet(1..Len(items))
  BY <1>1, FS_Interval
<1>. QED BY <1>1, <1>2

\* Equal contents.
LEMMA SameFacts ==
  /\ \A e : Index!Same(e, e)
  /\ \A e, f, g : Index!Same(e, f) /\ Index!Same(e, g) => Index!Same(f, g)
  /\ \A e, f, g : Index!Same(e, f) /\ Index!Same(g, f) => Index!Same(e, g)
BY DEF Index!Same

-----------------------------------------------------------------------------
(* The account of a destination folder                                     *)

\* The folders have entries, the items are in folders, and a run has one of the
\* options there are.
PlaceInv ==
  /\ \A d \in DOMAIN folders \ {DestParent} : folders[d].key \in FolderEntries
  /\ \A i \in DOMAIN items : items[i].folder \in DOMAIN folders \union {Nothing}
  /\ phase # "idle" => opt \in scenario.options

\* An index lists items, under their own ids.
IndexesOK(ixs, its) ==
  \A x \in DOMAIN ixs :
    /\ ixs[x].rest \subseteq DOMAIN its
    /\ \A e \in FileEntries : ixs[x].prop[e] # 0 =>
         ixs[x].prop[e] \in DOMAIN its /\ its[ixs[x].prop[e]].of = e

\* A document without a checksum that is still to be done, and of which there is
\* a copy, can be found by its id.
NativeOK(w, ixs, its) ==
  \A t \in w :
    /\ t.entry \in FileEntries /\ Md5[t.entry] = None
    /\ \E i \in ixs[t.index].rest : its[i].tool /\ its[i].of = t.entry
    => ixs[t.index].prop[t.entry] # 0

\* The copies of e in folder d, those of them that an index does not offer, and
\* the entries like e that are done with an index.
Held(d, e, its) ==
  {i \in DOMAIN its : /\ its[i].live /\ its[i].folder = d
                      /\ its[i].tool /\ Index!Same(its[i].of, e)}
Taken(d, e, rest, its) == Held(d, e, its) \ rest
Alike(want, e) == {g \in want : Index!Same(g, e)}
Past(w, x, e, want) == {g \in Alike(want, e) : \A t \in w : t.index = x => t.entry # g}

\* What an index does not offer has been done with.
LedgerOK(w, ixs, its, fs, ch) ==
  \A t \in w : t.dest # Nothing =>
    LET want == Wanted(Source(fs[t.dest].key), ch)
    IN  \A e \in want : Cardinality(Taken(t.dest, e, ixs[t.index].rest, its))
                        <= Cardinality(Past(w, t.index, e, want))

SurplusOK(its, fs, ch) ==
  \A d \in DOMAIN fs \ {DestParent} :
    LET want == Wanted(Source(fs[d].key), ch)
    IN  \A e \in want : Cardinality(Held(d, e, its)) <= Cardinality(Alike(want, e))

\* Neither was a part of the destination missed, nor a copy resent.
Counted == {"index", "retried"} \intersect spoiled = {}

LedgerInv ==
  /\ PlaceInv
  /\ IndexesOK(indexes, items)
  /\ NativeOK(Work, indexes, items)
  /\ Counted => /\ LedgerOK(Work, indexes, items, folders, scenario.children)
                /\ SurplusOK(items, folders, scenario.children)

LEMMA LedgerGivesNoSurplus == LedgerInv => NoSurplus
<1>1. \A d, e : {i \in ItemsIn(d) : items[i].tool /\ Index!Same(items[i].of, e)}
                = Held(d, e, items)
  BY DEF ItemsIn, Held
<1>2. \A d : ChildSet(Source(folders[d].key)) \intersect FileEntries
             = Wanted(Source(folders[d].key), scenario.children)
  BY DEF ChildSet, Children, Wanted, Among
<1>. QED BY <1>1, <1>2 DEF LedgerInv, NoSurplus, SurplusOK, Alike, Counted

\* The account is kept when work is only dropped.
LEMMA LedgerLess ==
  ASSUME Inv, ShapeInv, NEW its, NEW w \in SUBSET Work, NEW fs, Grown(folders, fs),
         LedgerOK(Work, indexes, items, folders, scenario.children),
         \A t \in w : \A e : Taken(t.dest, e, indexes[t.index].rest, its)
                             \subseteq Taken(t.dest, e, indexes[t.index].rest, items)
  PROVE  LedgerOK(w, indexes, its, fs, scenario.children)
<1> SUFFICES ASSUME NEW t \in w, t.dest # Nothing,
                    NEW e \in Wanted(Source(fs[t.dest].key), scenario.children)
             PROVE  Cardinality(Taken(t.dest, e, indexes[t.index].rest, its))
                    <= Cardinality(Past(w, t.index, e,
                         Wanted(Source(fs[t.dest].key), scenario.children)))
  BY DEF LedgerOK
<1>1. /\ t \in Work /\ t.dest \in DOMAIN folders
      /\ folders[t.dest].key \in FolderEntries /\ fs[t.dest].key = folders[t.dest].key
  BY WorkFacts DEF Grown
<1> DEFINE want == Wanted(Source(folders[t.dest].key), scenario.children)
           A == Taken(t.dest, e, indexes[t.index].rest, items)
           B == Past(Work, t.index, e, want)
           A2 == Taken(t.dest, e, indexes[t.index].rest, its)
           B2 == Past(w, t.index, e, want)
<1>2. IsFiniteSet(want)
  BY <1>1, WantedFinite, EntryFacts DEF Inv, RunInv
<1>3. IsFiniteSet(A)
  BY ItemsFinite, FS_Subset DEF Inv, Taken, Held
<1>4. IsFiniteSet(B2)
  BY <1>2, FS_Subset DEF Past, Alike
<1>5. B \subseteq B2 /\ A2 \subseteq A
  BY <1>1 DEF Past
<1>6. Cardinality(A) <= Cardinality(B)
  BY <1>1 DEF LedgerOK
<1> HIDE DEF A, B, A2, B2
<1>7. Cardinality(A2) <= Cardinality(A) /\ Cardinality(A2) \in Nat /\ Cardinality(A) \in Nat
  BY <1>3, <1>5, NoMore
<1>8. Cardinality(B) <= Cardinality(B2) /\ Cardinality(B) \in Nat /\ Cardinality(B2) \in Nat
  BY <1>4, <1>5, NoMore
<1>9. Cardinality(A2) <= Cardinality(B2)
  BY <1>6, <1>7, <1>8
<1>. QED BY <1>1, <1>9 DEF A2, B2

\* There is no surplus in a new folder, nor when there are no more items.
LEMMA SurplusLess ==
  ASSUME Inv, PlaceInv, NEW its, NEW fs, Grown(folders, fs), 0 \notin DOMAIN fs,
         SurplusOK(items, folders, scenario.children),
         \A d, e : Held(d, e, its) \subseteq Held(d, e, items)
  PROVE  SurplusOK(its, fs, scenario.children)
<1> SUFFICES ASSUME NEW d \in DOMAIN fs \ {DestParent},
                    NEW e \in Wanted(Source(fs[d].key), scenario.children)
             PROVE  Cardinality(Held(d, e, its)) <=
                    Cardinality(Alike(Wanted(Source(fs[d].key), scenario.children), e))
  BY DEF SurplusOK
<1> DEFINE B == Alike(Wanted(Source(fs[d].key), scenario.children), e)
<1>1. fs[d].key \in FolderEntries
  BY DEF Grown, PlaceInv
<1>2. Cardinality(B) \in Nat
  <2>1. IsFiniteSet(Wanted(Source(fs[d].key), scenario.children))
    BY <1>1, WantedFinite, EntryFacts DEF Inv, RunInv
  <2>2. IsFiniteSet(B)
    BY <2>1, FS_Subset DEF Alike
  <2>. QED BY <2>2, FS_CardinalityType
<1>3. CASE d \in DOMAIN folders
  <2>1. fs[d].key = folders[d].key
    BY <1>3 DEF Grown
  <2>2. Cardinality(Held(d, e, items)) <= Cardinality(B)
    BY <1>3, <2>1 DEF SurplusOK
  <2>3. IsFiniteSet(Held(d, e, items))
    BY ItemsFinite, FS_Subset DEF Inv, Held
  <2>4. /\ Cardinality(Held(d, e, its)) <= Cardinality(Held(d, e, items))
        /\ Cardinality(Held(d, e, its)) \in Nat /\ Cardinality(Held(d, e, items)) \in Nat
    BY <2>3, NoMore
  <2> HIDE DEF B
  <2>5. Cardinality(Held(d, e, its)) <= Cardinality(B)
    BY <1>2, <2>2, <2>4
  <2>. QED BY <2>5 DEF B
<1>4. CASE d \notin DOMAIN folders
  <2>1. Held(d, e, items) = {}
    BY <1>4 DEF PlaceInv, Held, Nothing
  <2>2. Cardinality(Held(d, e, its)) = 0
    <3>1. Held(d, e, its) = {}
      BY <2>1
    <3>. QED BY <3>1, FS_EmptySet
  <2> HIDE DEF B
  <2>3. Cardinality(Held(d, e, its)) <= Cardinality(B)
    BY <1>2, <2>2
  <2>. QED BY <2>3 DEF B
<1>. QED BY <1>3, <1>4

-----------------------------------------------------------------------------
(* The account of a file's copy                                            *)

\* An item that is taken from an index for an entry is like it.
LEMMA PoppedAlike ==
  ASSUME Inv, IndexesOK(indexes, items), ModesTell, opt \in scenario.options,
         NEW e \in FileEntries, NEW ix \in 1..Len(indexes), NEW i, i # 0,
         \/ i = Index!ByAppProp(indexes[ix], e)
         \/ i = Matched(e, ix)
  PROVE  i \in DOMAIN items /\ Index!Same(items[i].of, e)
<1>1. /\ DOMAIN indexes = 1..Len(indexes) /\ items \in Seq(Item)
      /\ DOMAIN items = 1..Len(items) /\ Len(items) \in Nat
  BY LenProperties, ItemsFinite DEF Inv, WalkInv, ListInv
<1>2. /\ indexes[ix].rest \subseteq DOMAIN items
      /\ indexes[ix].prop[e] # 0 =>
           indexes[ix].prop[e] \in DOMAIN items /\ items[indexes[ix].prop[e]].of = e
  BY <1>1 DEF IndexesOK
<1>3. CASE i = indexes[ix].prop[e]
  BY <1>2, <1>3, SameFacts
<1>4. CASE i # indexes[ix].prop[e]
  <2> DEFINE C == Index!Candidates(items, indexes[ix], e, opt.mode)
  <2>1. i = Index!First(C)
    BY <1>4 DEF Matched, Index!Match, Index!ByAppProp
  <2>2. opt \in Options /\ opt.mode \in Index!Modes /\ scenario \in Scenarios
    <3>1. opt \in Options /\ scenario \in Scenarios
      BY ScenarioAssumption DEF Inv, RunInv, Scenario
    <3>. QED BY <3>1 DEF Options
  <2>3. C \subseteq indexes[ix].rest
    BY <2>2 DEF Index!Candidates, Index!Modes
  <2>4. C \in SUBSET Nat
    BY <1>1, <1>2, <2>3
  <2>5. C # {}
    BY <2>1 DEF Index!First
  <2>6. i \in C
    BY <2>1, <2>4, <2>5, FirstIsIn
  <2>7. i \in DOMAIN items /\ items[i] \in Item
    BY <1>1, <1>2, <2>3, <2>6, ElementOfSeq
  <2>8. PICK x \in FileEntries : x = items[i].of
    BY <2>7 DEF Item
  <2>9. /\ Name[x] = Name[e]
        /\ \/ Md5[e] # None /\ Md5[x] = Md5[e]
           \/ opt.mode = "name_size" /\ Size[e] # None /\ Size[x] = Size[e]
           \/ opt.mode = "name_only"
    BY <2>2, <2>6, <2>8 DEF Index!Candidates, Index!Modes
  <2>10. Index!Same(x, e)
    <3>1. CASE Md5[e] # None /\ Md5[x] = Md5[e]
      BY <2>9, <3>1 DEF Index!Same
    <3>2. CASE \/ opt.mode = "name_size" /\ Size[e] # None /\ Size[x] = Size[e]
               \/ opt.mode = "name_only"
      BY <2>2, <2>9, <3>2 DEF ModesTell
    <3>. QED BY <2>9, <3>1, <3>2
  <2>. QED BY <2>7, <2>8, <2>10
<1>. QED BY <1>3, <1>4

\* If none is taken, the index offers no copy of the entry.
LEMMA UnmatchedHasNone ==
  ASSUME Inv, IndexesOK(indexes, items), opt \in scenario.options, NEW t \in Work,
         NativeOK(Work, indexes, items),
         t.entry \in FileEntries, t.index \in 1..Len(indexes),
         Matched(t.entry, t.index) = 0,
         NEW i \in indexes[t.index].rest, items[i].tool
  PROVE  ~Index!Same(items[i].of, t.entry)
<1> DEFINE e == t.entry
           ix == t.index
<1>1. /\ DOMAIN indexes = 1..Len(indexes)
      /\ DOMAIN items = 1..Len(items) /\ Len(items) \in Nat
  BY LenProperties, ItemsFinite DEF Inv, WalkInv
<1>2. indexes[ix].rest \subseteq DOMAIN items
  BY <1>1 DEF IndexesOK
<1>3. indexes[ix].prop[e] = 0
  BY DEF Matched, Index!Match, Index!ByAppProp
<1> DEFINE C == Index!Candidates(items, indexes[ix], e, opt.mode)
<1>4. Index!First(C) = 0
  BY <1>3 DEF Matched, Index!Match, Index!ByAppProp
<1>5. opt.mode \in Index!Modes
  <2>1. opt \in Options
    BY ScenarioAssumption DEF Inv, RunInv, Scenario
  <2>. QED BY <2>1 DEF Options
<1>6. C = {}
  <2>1. C \subseteq indexes[ix].rest
    BY <1>5 DEF Index!Candidates, Index!Modes
  <2>2. C \in SUBSET Nat /\ 0 \notin C
    BY <1>1, <1>2, <2>1
  <2> HIDE DEF C
  <2>. QED BY <1>4, <2>2, FirstIsIn
<1>7. CASE Md5[e] = None
  <2>1. ~(items[i].of = e)
    BY <1>3, <1>7 DEF NativeOK
  <2>. QED BY <1>7, <2>1 DEF Index!Same
<1>8. CASE Md5[e] # None
  <2>1. SUFFICES ASSUME Name[items[i].of] = Name[e], Md5[items[i].of] = Md5[e]
                 PROVE  FALSE
    BY <1>8 DEF Index!Same
  <2>2. i \in C
    BY <1>5, <1>6, <1>8, <2>1 DEF Index!Candidates, Index!Modes
  <2>. QED BY <1>6, <2>2
<1>. QED BY <1>7, <1>8

\* What a file's copy does to the items and the index of its level.
LEMMA CopyOutcome ==
  ASSUME Inv, IndexesOK(indexes, items), ModesTell, opt \in scenario.options,
         NEW t \in Work, t.entry \in FileEntries, t.index \in 1..Len(indexes),
         CopyFile(t.entry, t.dest, t.index)
  PROVE  \/ UNCHANGED <<items, indexes>>
         \/ /\ items' = items
            /\ \E i \in DOMAIN items :
                 /\ Index!Same(items[i].of, t.entry)
                 /\ indexes' = [indexes EXCEPT ![t.index] = Index!Pop(@, i)]
         \/ /\ indexes' = indexes /\ Matched(t.entry, t.index) = 0
            /\ items' = Landed(items, t.entry, t.dest)
         \/ /\ indexes' = indexes /\ Fault("retried")
            /\ items' = Landed(Landed(items, t.entry, t.dest), t.entry, t.dest)
<1>1. CASE SkipConfirmed(t.entry, t.index)
  <2>1. PICK i : i = Index!ByAppProp(indexes[t.index], t.entry)
    OBVIOUS
  <2>2. i # 0 /\ items' = items /\ indexes' = [indexes EXCEPT ![t.index] = Index!Pop(@, i)]
    BY <1>1, <2>1 DEF SkipConfirmed, Confirmed, PopIndex, driveVars
  <2>3. i \in DOMAIN items /\ Index!Same(items[i].of, t.entry)
    BY <2>1, <2>2, PoppedAlike
  <2>. QED BY <2>2, <2>3
<1>2. CASE RecordExisting(t.entry, t.index)
  <2>1. PICK i : i = Matched(t.entry, t.index)
    OBVIOUS
  <2>2. i # 0 /\ items' = items /\ indexes' = [indexes EXCEPT ![t.index] = Index!Pop(@, i)]
    BY <1>2, <2>1 DEF RecordExisting, PopIndex
  <2>3. i \in DOMAIN items /\ Index!Same(items[i].of, t.entry)
    BY <2>1, <2>2, PoppedAlike
  <2>. QED BY <2>2, <2>3
<1>3. CASE CountDryRun(t.entry, t.index) \/ CopyFails(t.entry, t.dest, t.index)
  BY <1>3 DEF CountDryRun, CopyFails, driveVars
<1>4. CASE CopyLands(t.entry, t.dest, t.index)
  BY <1>4 DEF CopyLands
<1>. QED BY <1>1, <1>2, <1>3, <1>4 DEF CopyFile

-----------------------------------------------------------------------------
(* The steps that touch the account                                        *)

\* A file, or a shortcut to one, is done with.
DoneWith(t) ==
  /\ t \in Work /\ t.entry \in FileEntries
  /\ CopyFile(t.entry, t.dest, t.index)
  /\ \A u \in Work' : u.index = t.index => u.entry # t.entry

LEMMA JobDone ==
  ASSUME Inv, ShapeInv, RunJob
  PROVE  \E t : DoneWith(t) /\ jobs' = jobs \ {t} /\ stack' = stack
<1>1. PICK j \in jobs : /\ jobs' = jobs \ {j} /\ stack' = stack
                        /\ CopyFile(j.entry, j.dest, j.index)
  BY DEF RunJob
<1>2. \A k \in jobs : k \in Job /\ k.entry \in FileEntries
  BY EntryFacts DEF Inv, WalkInv, Job
<1>3. j \in Work
  BY WorkIs
<1>4. ASSUME NEW u \in Work', u.index = j.index
      PROVE  u.entry # j.entry
  <2>1. CASE u \in jobs'
    <3>1. u # j /\ u \in Job /\ j \in Job /\ u.dest = j.dest
      BY <1>1, <1>2, <1>4, <2>1 DEF ShapeInv, JobsOK
    <3>. QED BY <1>4, <3>1 DEF Job
  <2>2. ASSUME NEW f \in Loops(Frames(stack)), u \in LevelWork(f)
        PROVE  u.entry # j.entry
    <3>1. PICK e \in Entries(f.todo) : u = [entry |-> e, dest |-> f.dest, index |-> f.index]
      BY <2>2, LevelWorkIs
    <3>2. j.index = f.index => j.entry \notin Entries(f.todo)
      BY DEF ShapeInv, UseOK
    <3>. QED BY <1>4, <3>1, <3>2
  <2>. QED BY <1>1, <2>1, <2>2, WorkIs
<1>. QED BY <1>1, <1>2, <1>3, <1>4 DEF DoneWith

LEMMA InlineDone ==
  ASSUME Inv, ShapeInv, NEW e \in Ids, CopyInline(e)
  PROVE  DoneWith([entry |-> e, dest |-> Top.dest, index |-> Top.index])
<1> DEFINE t == [entry |-> e, dest |-> Top.dest, index |-> Top.index]
<1>1. /\ AtEntry(e) /\ e \in FileEntries /\ SetTop(Next1) /\ jobs' = jobs
      /\ CopyFile(e, Top.dest, Top.index)
  BY DEF CopyInline
<1>2. stack # <<>> /\ Top.stage = "loop" /\ Top \in Frames(stack)
  BY <1>1, AtEntryIs, TopInFrames DEF Inv
<1>3. /\ Next1.src = Top.src /\ Next1.index = Top.index
      /\ e \in Entries(Top.todo) /\ Entries(Next1.todo) \subseteq Entries(Top.todo) \ {e}
  BY <1>1, NextTamed DEF Inv, ShapeInv
<1>4. Top \in Loops(Frames(stack))
  BY <1>2 DEF Loops
<1>5. \A h \in Loops(Frames(stack')) :
        h = Next1 \/ (h \in Loops(Frames(stack)) /\ h.src # Top.src)
  <2>1. Next1.src = stack[Len(stack)].src
    BY <1>2, <1>3, TopInFrames DEF Inv
  <2>2. StackOK(stack, Len(indexes)) /\ stack' = [stack EXCEPT ![Len(stack)] = Next1]
    BY <1>1 DEF Inv, WalkInv, SetTop
  <2>3. \A h \in Frames(stack') : h = Next1 \/ (h \in Frames(stack) /\ h.src # Next1.src)
    BY <1>2, <2>1, <2>2, TopReplaced
  <2>. QED BY <1>3, <2>3 DEF Loops
<1>6. t \in Work
  <2>1. t \in LevelWork(Top)
    BY <1>3, LevelWorkIs
  <2> HIDE DEF t
  <2>. QED BY <1>4, <2>1, WorkIs
<1>7. ASSUME NEW u \in Work', u.index = Top.index
      PROVE  u.entry # e
  <2>1. CASE u \in jobs
    BY <1>3, <1>4, <1>7, <2>1 DEF ShapeInv, UseOK
  <2>2. ASSUME NEW f \in Loops(Frames(stack')), u \in LevelWork(f)
        PROVE  u.entry # e
    <3>1. PICK x \in Entries(f.todo) : u = [entry |-> x, dest |-> f.dest, index |-> f.index]
      BY <2>2, LevelWorkIs
    <3>2. CASE f = Next1
      BY <1>3, <3>1, <3>2
    <3>3. CASE f \in Loops(Frames(stack)) /\ f.src # Top.src
      BY <1>4, <1>7, <3>1, <3>3 DEF ShapeInv, UseOK
    <3>. QED BY <1>5, <3>2, <3>3
  <2>. QED BY <1>1, <2>1, <2>2, WorkIs
<1>. QED BY <1>1, <1>6, <1>7 DEF DoneWith

\* Faults are spent for good, and only those that the scenario has.
SpentBy(kinds) ==
  /\ spoiled \subseteq spoiled' /\ spoiled' \subseteq spoiled \union kinds
  /\ UNCHANGED envVars \/ (faults > 0 /\ faults' = faults - 1)

LEMMA SpentStays ==
  /\ UNCHANGED envVars => SpentBy(scenario.faults)
  /\ \A kind : Fault(kind) => SpentBy(scenario.faults)
BY DEF envVars, Fault, SpentBy

\* The account changes when an index is built, a file is done with, the user
\* touches the destination, and the run ends.
LEMMA LedgerSteps ==
  ASSUME Inv, ShapeInv, [Next]_vars
  PROVE  /\ SpentBy(scenario.faults)
         /\ \/ UNCHANGED <<items, indexes>>
            \/ BuildIndex
            \/ \E t : DoneWith(t)
            \/ items' = items /\ indexes' = <<>> /\ Work' = {}
            \/ UserTrash \/ UserUpload
<1> USE DEF Inv
<1> DEFINE G == SpentBy(scenario.faults)
           S == UNCHANGED <<items, indexes>>
<1>2. CASE UNCHANGED vars
  <2>1. S /\ UNCHANGED envVars
    BY <1>2 DEF vars, driveVars, walkVars
  <2>. QED BY <2>1, SpentStays
<1>3. ASSUME NEW o \in scenario.options, StartRun(o)
      PROVE  S /\ G
  BY <1>3, SpentStays DEF StartRun, driveVars, walkVars
<1>4. CASE OpenRoot
  <2>1. UNCHANGED envVars \/ \E kind : Fault(kind)
    BY <1>4 DEF OpenRoot, Obtain
  <2>. QED BY <1>4, <2>1, SpentStays DEF OpenRoot
<1>5. CASE ListFolder \/ BatchedList
  <2>1. UNCHANGED envVars \/ Fault("list")
    BY <1>5 DEF ListFolder, BatchedList, ListingError, envVars
  <2>2. S
    BY <1>5 DEF ListFolder, BatchedList, driveVars
  <2>. QED BY <2>1, <2>2, SpentStays
<1>6. CASE BuildIndex
  <2>1. UNCHANGED envVars \/ Fault("index")
    BY <1>6 DEF BuildIndex
  <2>. QED BY <1>6, <2>1, SpentStays
<1>7. CASE Descend \/ LeaveLevel
  BY <1>7, SpentStays DEF Descend, LeaveLevel, driveVars
<1>8. CASE Finish
  BY <1>8, SpentStays DEF Finish, walkVars
<1>9. ASSUME EndRun, items' = items
      PROVE  items' = items /\ indexes' = <<>> /\ Work' = {}
  <2>1. stack' = <<>> /\ jobs' = {} /\ indexes' = <<>>
    BY <1>9 DEF EndRun, FreshCopier
  <2>2. Loops(Frames(stack')) = {}
    BY <2>1, EmptySeq DEF Loops, Frames, Entries
  <2>. QED BY <1>9, <2>1, <2>2, WorkIs
<1>10. CASE Finalize
  BY <1>9, <1>10, SpentStays DEF Finalize
<1>11. CASE RootFails \/ Crash
  <2>1. EndRun /\ items' = items
    BY <1>11 DEF RootFails, Crash, driveVars
  <2>2. \E kind : Fault(kind)
    BY <1>11 DEF RootFails, CreationFails, Crash
  <2>. QED BY <1>9, <2>1, <2>2, SpentStays
<1>12. ASSUME NEW e \in Ids, SubmitFile(e) \/ LoopSkipped(e) \/ SkipComplete(e)
       PROVE  S /\ G
  BY <1>12, SpentStays DEF SubmitFile, LoopSkipped, SkipComplete, driveVars
<1>13. ASSUME NEW e \in Ids, EnterFolder(e)
       PROVE  S /\ G
  <2>1. UNCHANGED envVars \/ \E kind : Fault(kind)
    BY <1>13 DEF EnterFolder, Obtain
  <2>. QED BY <1>13, <2>1, SpentStays DEF EnterFolder
<1>14. ASSUME NEW e \in Ids, ShortcutUnresolved(e) \/ CreateFails(e)
       PROVE  S /\ G
  <2>1. \E kind : Fault(kind)
    BY <1>14 DEF ShortcutUnresolved, CreateFails, CreationFails
  <2>. QED BY <1>14, <2>1, SpentStays DEF ShortcutUnresolved, CreateFails, driveVars
<1>0. ASSUME NEW e, NEW d, NEW ix, CopyFile(e, d, ix) PROVE G
  <2>1. UNCHANGED envVars \/ \E kind : Fault(kind)
    BY <1>0 DEF CopyFile, SkipConfirmed, RecordExisting, CountDryRun, CopyLands, CopyFails
  <2>. QED BY <2>1, SpentStays
<1>15. ASSUME NEW e \in Ids, CopyInline(e)
       PROVE  G /\ \E t : DoneWith(t)
  BY <1>0, <1>15, InlineDone DEF CopyInline
<1>16. CASE RunJob
  BY <1>0, <1>16, JobDone DEF RunJob
<1>17. CASE DropJobs
  BY <1>17, SpentStays DEF DropJobs, driveVars
<1>18. CASE QuotaStops \/ Signal
  <2>1. \E kind : Fault(kind)
    BY <1>18 DEF QuotaStops, Signal
  <2>. QED BY <1>18, <2>1, SpentStays DEF QuotaStops, Signal, driveVars, walkVars
<1>19. CASE UserTrash \/ UserUpload
  <2>1. \E kind : Fault(kind)
    BY <1>19 DEF UserTrash, UserUpload
  <2>. QED BY <1>19, <2>1, SpentStays
<1>. QED
  BY <1>2, <1>3, <1>4, <1>5, <1>6, <1>7, <1>8, <1>10, <1>11, <1>12, <1>13, <1>14, <1>15,
     <1>16, <1>17, <1>18, <1>19 DEF Next, Main, Pool, Environment

\* A file's copy makes an item in its destination, or two, or none.
LEMMA CopyPlaced ==
  ASSUME NEW e, NEW d, NEW ix, CopyFile(e, d, ix)
  PROVE  \/ items' = items
         \/ items' \in {Landed(items, e, d), Landed(Landed(items, e, d), e, d)}
BY DEF CopyFile, SkipConfirmed, RecordExisting, CountDryRun, CopyFails, CopyLands,
   driveVars

\* A run keeps the options it was started with.
LEMMA OptionsStay ==
  ASSUME Inv, [Next]_vars
  PROVE  \/ phase' = "idle"
         \/ opt' = opt /\ phase # "idle"
         \/ \E o \in scenario.options : opt' = o
<1> USE DEF Inv, runVars
<1>1. CASE UNCHANGED vars
  BY <1>1 DEF vars
<1>2. ASSUME NEW o \in scenario.options, StartRun(o)
      PROVE  \E x \in scenario.options : opt' = x
  BY <1>2 DEF StartRun
<1>3. CASE OpenRoot \/ Finish \/ Signal
  BY <1>3 DEF OpenRoot, Finish, Signal
<1>4. CASE ListFolder \/ BuildIndex \/ BatchedList \/ Descend \/ LeaveLevel \/ QuotaStops
  <2>1. stack # <<>> /\ opt' = opt
    BY <1>4 DEF ListFolder, BuildIndex, BatchedList, Descend, LeaveLevel, QuotaStops
  <2>. QED BY <2>1, TopIs
<1>5. CASE Finalize \/ RootFails \/ Crash
  BY <1>5 DEF Finalize, RootFails, Crash, EndRun
<1>6. ASSUME NEW e \in Ids, \/ SubmitFile(e) \/ CopyInline(e) \/ LoopSkipped(e)
                            \/ SkipComplete(e) \/ EnterFolder(e)
                            \/ ShortcutUnresolved(e) \/ CreateFails(e)
      PROVE  opt' = opt /\ phase # "idle"
  <2>1. AtEntry(e) /\ opt' = opt
    BY <1>6 DEF SubmitFile, CopyInline, CopyFile, LoopSkipped, SkipComplete, EnterFolder,
       Enters, ShortcutUnresolved, CreateFails
  <2>. QED BY <2>1, AtEntryIs
<1>7. CASE Pool
  BY <1>7 DEF Pool, RunJob, CopyFile, DropJobs, WalkInv
<1>8. CASE UserTrash \/ UserUpload
  BY <1>8 DEF UserTrash, UserUpload
<1>. QED
  BY <1>1, <1>2, <1>3, <1>4, <1>5, <1>6, <1>7, <1>8 DEF Next, Main, Environment

\* An item is added.
LEMMA ItemAdded ==
  ASSUME ListInv, NEW item, NEW its, its = Append(items, item)
  PROVE  /\ Len(items) \in Nat /\ DOMAIN items = 1..Len(items)
         /\ Len(items) + 1 \notin DOMAIN items
         /\ DOMAIN its = DOMAIN items \union {Len(items) + 1}
         /\ its[Len(items) + 1] = item
         /\ \A i \in DOMAIN items : its[i] = items[i]
<1>1. /\ Len(items) \in Nat /\ DOMAIN items = 1..Len(items)
      /\ items \in Seq(Item)
  BY LenProperties DEF ListInv
<1>2. items \in Seq(Item \union {item}) /\ item \in Item \union {item}
  <2>1. \A i \in 1..Len(items) : items[i] \in Item \union {item}
    BY <1>1, ElementOfSeq
  <2>2. items \in [1..Len(items) -> Item]
    BY <1>1, LenProperties
  <2>3. items \in [1..Len(items) -> Item \union {item}]
    BY <2>1, <2>2
  <2>. QED BY <1>1, <2>3, SeqDef
<1>3. /\ its \in Seq(Item \union {item}) /\ Len(its) = Len(items) + 1
      /\ \A i \in 1..Len(items) : its[i] = items[i]
      /\ its[Len(items) + 1] = item
  BY <1>2, AppendProperties
<1>4. DOMAIN its = 1..(Len(items) + 1)
  BY <1>3, LenProperties
<1>. QED BY <1>1, <1>3, <1>4

\* One copy of a file is added, or two.
LEMMA CopiesAdded ==
  ASSUME ListInv, NEW e \in FileEntries, NEW d \in Nat,
         NEW its \in {Landed(items, e, d), Landed(Landed(items, e, d), e, d)}
  PROVE  /\ \A i \in DOMAIN items : i \in DOMAIN its /\ its[i] = items[i]
         /\ \A i \in DOMAIN its \ DOMAIN items :
              its[i].folder = d /\ its[i].of = e /\ its[i].tool /\ its[i].live
         /\ \E i \in DOMAIN its : i \notin DOMAIN items
<1> DEFINE item == [folder |-> d, of |-> e, tool |-> TRUE, live |-> TRUE]
<1>1. item \in Item /\ item.folder = d /\ item.of = e /\ item.tool /\ item.live
  BY DEF Item
<1> HIDE DEF item
<1>2. ASSUME NEW s \in Seq(Item), NEW t, t = Append(s, item)
      PROVE  /\ t \in Seq(Item)
             /\ \A i \in DOMAIN s : i \in DOMAIN t /\ t[i] = s[i]
             /\ \A i \in DOMAIN t \ DOMAIN s : t[i] = item
             /\ \E i \in DOMAIN t : i \notin DOMAIN s
  <2>1. /\ t \in Seq(Item) /\ Len(t) = Len(s) + 1 /\ t[Len(s) + 1] = item
        /\ \A i \in 1..Len(s) : t[i] = s[i]
    BY <1>1, <1>2, AppendProperties
  <2>2. Len(s) \in Nat /\ DOMAIN s = 1..Len(s) /\ DOMAIN t = 1..(Len(s) + 1)
    BY <2>1, LenProperties
  <2>. QED BY <2>1, <2>2
<1>3. PICK one, two : one = Append(items, item) /\ two = Append(one, item)
  OBVIOUS
<1>4. its = one \/ its = two
  BY <1>3 DEF Landed, item
<1>5. /\ one \in Seq(Item)
      /\ \A i \in DOMAIN items : i \in DOMAIN one /\ one[i] = items[i]
      /\ \A i \in DOMAIN one \ DOMAIN items : one[i] = item
      /\ \E i \in DOMAIN one : i \notin DOMAIN items
  BY <1>2, <1>3 DEF ListInv
<1>6. /\ \A i \in DOMAIN one : i \in DOMAIN two /\ two[i] = one[i]
      /\ \A i \in DOMAIN two \ DOMAIN one : two[i] = item
  BY <1>2, <1>3, <1>5
<1>. QED BY <1>1, <1>4, <1>5, <1>6

LEMMA PlaceNext ==
  ASSUME Inv, ShapeInv, PlaceInv, [Next]_vars
  PROVE  PlaceInv'
<1>1. Grown(folders, folders') /\ scenario' = scenario
  BY StepGrows
<1>2. \A d \in DOMAIN folders' \ {DestParent} : folders'[d].key \in FolderEntries
  BY <1>1 DEF PlaceInv, Grown
<1>3. DOMAIN folders \subseteq DOMAIN folders'
  BY <1>1 DEF Grown
<1>4. phase' # "idle" => opt' \in scenario'.options
  <2>1. phase # "idle" => opt \in scenario.options
    BY DEF PlaceInv
  <2>. QED BY <1>1, <2>1, OptionsStay
<1> DEFINE H == \A i \in DOMAIN items' : items'[i].folder \in DOMAIN folders' \union {Nothing}
<1>5. ASSUME items' = items PROVE H
  BY <1>3, <1>5 DEF PlaceInv
<1>6. ASSUME NEW d \in DOMAIN folders \union {Nothing}, NEW item, item.folder = d,
             items' = Append(items, item)
      PROVE  H
  <2>1. \A i \in DOMAIN items' : (i \in DOMAIN items /\ items'[i] = items[i])
                                 \/ items'[i] = item
    BY <1>6, ItemAdded DEF Inv
  <2>. QED BY <1>3, <1>6, <2>1 DEF PlaceInv
<1> HIDE DEF H
<1>7. ASSUME NEW t, DoneWith(t)
      PROVE  H
  <2>1. /\ t.dest \in DOMAIN folders \union {Nothing}
        /\ t.dest \in Nat /\ t.entry \in FileEntries
    BY <1>7, WorkFacts DEF DoneWith
  <2>2. CASE items' \in {Landed(items, t.entry, t.dest),
                         Landed(Landed(items, t.entry, t.dest), t.entry, t.dest)}
    <3>0. PICK e \in FileEntries, d \in Nat : e = t.entry /\ d = t.dest
      BY <2>1
    <3>1. PICK its \in {Landed(items, e, d), Landed(Landed(items, e, d), e, d)} :
            its = items'
      BY <2>2, <3>0
    <3>2. \A i \in DOMAIN its : \/ i \in DOMAIN items /\ its[i] = items[i]
                               \/ its[i].folder = d
      BY <3>1, CopiesAdded DEF Inv
    <3>. QED BY <1>3, <2>1, <3>0, <3>1, <3>2 DEF PlaceInv, H
  <2>. QED BY <1>5, <1>7, <2>2, CopyPlaced DEF DoneWith
<1>8. ASSUME UserTrash PROVE H
  <2>1. ASSUME NEW i \in DOMAIN items, items' = [items EXCEPT ![i].live = FALSE]
        PROVE  H
    <3>1. items[i] \in Item
      BY <2>1, ElementOfSeq, LenProperties DEF Inv, ListInv
    <3>2. DOMAIN items' = DOMAIN items /\ \A j \in DOMAIN items : items'[j].folder = items[j].folder
      BY <2>1, <3>1 DEF Item
    <3>. QED BY <1>3, <3>2 DEF PlaceInv, H
  <2>. QED BY <1>5, <1>8, <2>1 DEF UserTrash
<1>9. ASSUME UserUpload PROVE H
  <2>1. PICK d \in DOMAIN folders, e \in FileEntries :
          items' = Append(items, [folder |-> d, of |-> e, tool |-> FALSE, live |-> TRUE])
    BY <1>9 DEF UserUpload
  <2> DEFINE item == [folder |-> d, of |-> e, tool |-> FALSE, live |-> TRUE]
  <2>2. item.folder = d /\ items' = Append(items, item)
    BY <2>1
  <2> HIDE DEF item
  <2>. QED BY <1>6, <2>2
<1>10. H
  BY <1>5, <1>7, <1>8, <1>9, LedgerSteps DEF BuildIndex, driveVars
<1>. QED BY <1>2, <1>4, <1>10 DEF PlaceInv, H

-----------------------------------------------------------------------------
(* Every step keeps the account                                            *)

\* What is done with an index is not undone by work with other indexes.
LEMMA CountKept ==
  ASSUME Inv, ShapeInv, NEW u \in Work, u.dest # Nothing,
         LedgerOK(Work, indexes, items, folders, scenario.children),
         NEW want, want = Wanted(Source(folders[u.dest].key), scenario.children),
         NEW e \in want,
         NEW A2, A2 \subseteq Taken(u.dest, e, indexes[u.index].rest, items),
         NEW w, \A v \in w : v.index = u.index => v \in Work
  PROVE  Cardinality(A2) <= Cardinality(Past(w, u.index, e, want))
<1> DEFINE A == Taken(u.dest, e, indexes[u.index].rest, items)
           B == Past(Work, u.index, e, want)
           B2 == Past(w, u.index, e, want)
<1>1. folders[u.dest].key \in FolderEntries
  BY WorkFacts
<1>2. IsFiniteSet(want)
  BY <1>1, WantedFinite, EntryFacts DEF Inv, RunInv
<1>3. IsFiniteSet(B2)
  BY <1>2, FS_Subset DEF Past, Alike
<1>4. IsFiniteSet(A)
  BY ItemsFinite, FS_Subset DEF Inv, Taken, Held
<1>5. B \subseteq B2 /\ A2 \subseteq A
  BY DEF Past
<1>6. Cardinality(A) <= Cardinality(B)
  BY DEF LedgerOK
<1> HIDE DEF A, B, B2
<1>7. Cardinality(A2) <= Cardinality(A) /\ Cardinality(A2) \in Nat /\ Cardinality(A) \in Nat
  BY <1>4, <1>5, NoMore
<1>8. Cardinality(B) <= Cardinality(B2) /\ Cardinality(B) \in Nat /\ Cardinality(B2) \in Nat
  BY <1>3, <1>5, NoMore
<1>9. Cardinality(A2) <= Cardinality(B2)
  BY <1>6, <1>7, <1>8
<1>. QED BY <1>9 DEF B2

\* A file that is done with pays for one item more.
LEMMA CountPaid ==
  ASSUME Inv, ShapeInv, NEW t \in Work, t.dest # Nothing, t.entry \in FileEntries,
         LedgerOK(Work, indexes, items, folders, scenario.children),
         NEW want, want = Wanted(Source(folders[t.dest].key), scenario.children),
         NEW e \in want, Index!Same(t.entry, e), NEW a,
         NEW A2, A2 \subseteq Taken(t.dest, e, indexes[t.index].rest, items) \union {a},
         NEW w \in SUBSET Work, \A v \in w : v.index = t.index => v.entry # t.entry
  PROVE  /\ Cardinality(A2) <= Cardinality(Past(w, t.index, e, want))
         /\ Cardinality(A2) <= Cardinality(Alike(want, e))
<1> DEFINE A == Taken(t.dest, e, indexes[t.index].rest, items)
           B == Past(Work, t.index, e, want)
           B2 == Past(w, t.index, e, want)
           C == Alike(want, e)
<1>1. /\ folders[t.dest].key \in FolderEntries
      /\ t.entry \in Among(scenario.children, Source(folders[t.dest].key))
  BY WorkFacts
<1>2. IsFiniteSet(want)
  BY <1>1, WantedFinite, EntryFacts DEF Inv, RunInv
<1>3. IsFiniteSet(B2) /\ IsFiniteSet(C)
  BY <1>2, FS_Subset DEF Past, Alike
<1>4. IsFiniteSet(A)
  BY ItemsFinite, FS_Subset DEF Inv, Taken, Held
<1>5. t.entry \in C
  BY <1>1 DEF Wanted, Alike
<1>6. /\ t.entry \notin B /\ B \union {t.entry} \subseteq B2
      /\ B \union {t.entry} \subseteq C
  BY <1>5 DEF Past
<1>7. Cardinality(A) <= Cardinality(B)
  BY DEF LedgerOK
<1>8. A2 \subseteq A \union {a}
  OBVIOUS
<1> HIDE DEF A, B, B2, C
<1>9. Cardinality(A2) <= Cardinality(B2)
  BY <1>3, <1>4, <1>6, <1>7, <1>8, OneMoreEach
<1>10. Cardinality(A2) <= Cardinality(C)
  BY <1>3, <1>4, <1>6, <1>7, <1>8, OneMoreEach
<1>. QED BY <1>9, <1>10 DEF B2, C

LEMMA CountedStays ==
  ASSUME spoiled \subseteq spoiled', Counted'
  PROVE  Counted
BY DEF Counted

\* Nothing happens to the items and the indexes.
LEMMA LedgerCalm ==
  ASSUME Inv, ShapeInv, LedgerInv, PlaceInv', Grown(folders, folders'),
         scenario' = scenario, 0 \notin DOMAIN folders', spoiled \subseteq spoiled',
         UNCHANGED <<items, indexes>>, Work' \subseteq Work
  PROVE  LedgerInv'
<1>1. IndexesOK(indexes', items')
  BY DEF LedgerInv
<1>2. NativeOK(Work', indexes', items')
  BY DEF LedgerInv, NativeOK
<1>3. ASSUME Counted'
      PROVE  /\ LedgerOK(Work', indexes', items', folders', scenario'.children)
             /\ SurplusOK(items', folders', scenario'.children)
  <2>1. /\ LedgerOK(Work, indexes, items, folders, scenario.children)
        /\ SurplusOK(items, folders, scenario.children) /\ PlaceInv
    BY <1>3, CountedStays DEF LedgerInv
  <2>2. PICK w \in SUBSET Work : w = Work'
    OBVIOUS
  <2>3. LedgerOK(w, indexes, items, folders', scenario.children)
    BY <2>1, LedgerLess
  <2>4. SurplusOK(items, folders', scenario.children)
    BY <2>1, SurplusLess
  <2>. QED BY <2>2, <2>3, <2>4
<1>. QED BY <1>1, <1>2, <1>3 DEF LedgerInv

\* Nobody works, and no item is added that the tool made.
LEMMA LedgerIdle ==
  ASSUME Inv, ShapeInv, LedgerInv, PlaceInv', Grown(folders, folders'),
         scenario' = scenario, 0 \notin DOMAIN folders', spoiled \subseteq spoiled',
         Work' = {}, IndexesOK(indexes', items'),
         \A d, e : Held(d, e, items') \subseteq Held(d, e, items)
  PROVE  LedgerInv'
<1>1. NativeOK(Work', indexes', items')
  BY DEF NativeOK
<1>2. LedgerOK(Work', indexes', items', folders', scenario'.children)
  BY DEF LedgerOK
<1>3. ASSUME Counted'
      PROVE  SurplusOK(items', folders', scenario'.children)
  <2>1. SurplusOK(items, folders, scenario.children) /\ PlaceInv
    BY <1>3, CountedStays DEF LedgerInv
  <2>2. SurplusOK(items', folders', scenario.children)
    BY <2>1, SurplusLess
  <2>. QED BY <2>2
<1>. QED BY <1>1, <1>2, <1>3 DEF LedgerInv

\* An index is built of what is in the folder.
LEMMA IndexBuilt ==
  ASSUME Inv, BuildIndex
  PROVE  \E listed \in SUBSET ItemsIn(Top.dest) :
           /\ "index" \notin spoiled' => listed = ItemsIn(Top.dest)
           /\ DOMAIN indexes' = 1..(Len(indexes) + 1)
           /\ indexes'[Len(indexes) + 1] = Index!Build(items, listed)
           /\ \A x \in 1..Len(indexes) : indexes'[x] = indexes[x]
<1>1. PICK listed \in SUBSET ItemsIn(Top.dest) :
        /\ indexes' = Append(indexes, Index!Build(items, listed))
        /\ listed = ItemsIn(Top.dest) \/ Fault("index")
  BY DEF BuildIndex
<1>2. listed # ItemsIn(Top.dest) => "index" \in spoiled'
  BY <1>1 DEF Fault
<1>3. listed \in SUBSET DOMAIN items /\ items \in Seq(Item)
  BY DEF ItemsIn, Inv, ListInv
<1>4. /\ Index!Build(items, listed) \in Index!Indexes
      /\ indexes \in Seq(Index!Indexes) /\ Len(indexes) \in Nat
  BY <1>3, BuildTyped, LenProperties DEF Inv, WalkInv
<1>5. /\ indexes' \in Seq(Index!Indexes) /\ Len(indexes') = Len(indexes) + 1
      /\ \A x \in 1..Len(indexes) : indexes'[x] = indexes[x]
      /\ indexes'[Len(indexes) + 1] = Index!Build(items, listed)
  BY <1>1, <1>4, AppendProperties
<1>6. DOMAIN indexes' = 1..(Len(indexes) + 1)
  BY <1>5, LenProperties
<1>. QED BY <1>2, <1>5, <1>6

\* In it a tagged copy of an entry can be found by the entry's id.
LEMMA BuiltFinds ==
  ASSUME ListInv, NEW listed \in SUBSET DOMAIN items, NEW e \in FileEntries
  PROVE  LET p == Index!Build(items, listed).prop[e]
         IN  /\ p # 0 => p \in DOMAIN items /\ items[p].of = e
             /\ (\E i \in listed : items[i].tool /\ items[i].of = e) => p # 0
<1> DEFINE S == {i \in listed : items[i].tool /\ items[i].of = e}
<1>1. Index!Build(items, listed).prop[e] = Index!Latest(S)
  BY DEF Index!Build
<1>2. DOMAIN items = 1..Len(items) /\ Len(items) \in Nat
  BY ItemsFinite
<1>3. S \in SUBSET (1..Len(items))
  BY <1>2
<1>4. S # {} => Index!Latest(S) \in S
  BY <1>2, <1>3, LatestIsIn
<1>5. S = {} => Index!Latest(S) = 0
  BY DEF Index!Latest
<1>6. \A p \in S : p \in DOMAIN items /\ items[p].of = e /\ p # 0
  BY <1>2
<1>7. (\E i \in listed : items[i].tool /\ items[i].of = e) => S # {}
  OBVIOUS
<1> HIDE DEF S
<1>. QED BY <1>1, <1>4, <1>5, <1>6, <1>7

\* A level begins with an index that offers all there is.
LEMMA LedgerBuild ==
  ASSUME Inv, ShapeInv, LedgerInv, PlaceInv', BuildIndex, spoiled \subseteq spoiled'
  PROVE  LedgerInv'
<1> DEFINE n == Len(indexes) + 1
<1>1. UNCHANGED <<scenario, folders, items>> /\ stack # <<>> /\ Top \in Frames(stack)
  BY TopInFrames DEF BuildIndex, driveVars, Inv
<1>2. PICK f : BegunAs(f)
  BY BuildIs DEF ShapeInv
<1>3. Work' \subseteq Work \union LevelWork(f)
  BY <1>1, <1>2, ShapeBuild, SameGrown
<1>4. /\ f.dest = Top.dest /\ f.index = n /\ Entries(f.todo) = Entries(Top.todo)
      /\ FrameOK(f, folders, scenario.children)
  BY <1>2 DEF BegunAs
<1>5. \A v \in LevelWork(f) : v.index = n /\ v.dest = Top.dest
  BY <1>4, LevelWorkIs
<1>6. Len(indexes) \in Nat /\ DOMAIN indexes = 1..Len(indexes)
  BY LenProperties DEF Inv, WalkInv
<1>7. \A v \in Work : v.index \in 1..Len(indexes)
  BY WorkFacts
<1>8. PICK listed \in SUBSET ItemsIn(Top.dest) :
        /\ "index" \notin spoiled' => listed = ItemsIn(Top.dest)
        /\ DOMAIN indexes' = 1..n
        /\ indexes'[n] = Index!Build(items, listed)
        /\ \A x \in 1..Len(indexes) : indexes'[x] = indexes[x]
  BY IndexBuilt
<1>9. listed \in SUBSET DOMAIN items /\ indexes'[n].rest = listed
  BY <1>8 DEF ItemsIn, Index!Build
<1>10. n \notin 1..Len(indexes) /\ \A x \in 1..n : x \in 1..Len(indexes) \/ x = n
  BY <1>6
<1> HIDE DEF n
<1>11. IndexesOK(indexes', items')
  <2>1. ASSUME NEW x \in 1..Len(indexes)
        PROVE  /\ indexes'[x].rest \subseteq DOMAIN items
               /\ \A e \in FileEntries : indexes'[x].prop[e] # 0 =>
                    indexes'[x].prop[e] \in DOMAIN items /\ items[indexes'[x].prop[e]].of = e
    BY <1>6, <1>8, <2>1 DEF LedgerInv, IndexesOK
  <2>2. \A e \in FileEntries : indexes'[n].prop[e] # 0 =>
          indexes'[n].prop[e] \in DOMAIN items /\ items[indexes'[n].prop[e]].of = e
    BY <1>8, <1>9, BuiltFinds DEF Inv
  <2>. QED BY <1>1, <1>8, <1>9, <1>10, <2>1, <2>2 DEF IndexesOK
<1>12. NativeOK(Work', indexes', items')
  <2>1. SUFFICES ASSUME NEW v \in Work', v.entry \in FileEntries, Md5[v.entry] = None,
                        \E i \in indexes'[v.index].rest : items[i].tool /\ items[i].of = v.entry
                 PROVE  indexes'[v.index].prop[v.entry] # 0
    BY <1>1 DEF NativeOK
  <2>2. CASE v \in Work
    BY <1>7, <1>8, <2>1, <2>2 DEF LedgerInv, NativeOK
  <2>3. CASE v \in LevelWork(f)
    <3>1. \E i \in listed : items[i].tool /\ items[i].of = v.entry
      BY <1>5, <1>9, <2>1, <2>3
    <3>. QED BY <1>5, <1>8, <1>9, <2>1, <2>3, <3>1, BuiltFinds DEF Inv
  <2>. QED BY <1>3, <2>2, <2>3
<1>13. ASSUME Counted'
       PROVE  LedgerOK(Work', indexes', items, folders, scenario.children)
  <2>0. listed = ItemsIn(Top.dest)
    BY <1>8, <1>13 DEF Counted
  <2>1. LedgerOK(Work, indexes, items, folders, scenario.children)
    BY <1>13, CountedStays DEF LedgerInv
  <2>2. SUFFICES ASSUME NEW u \in Work', u.dest # Nothing, NEW want,
                        want = Wanted(Source(folders[u.dest].key), scenario.children),
                        NEW e \in want
                 PROVE  Cardinality(Taken(u.dest, e, indexes'[u.index].rest, items))
                        <= Cardinality(Past(Work', u.index, e, want))
    BY DEF LedgerOK
  <2>3. CASE u \in Work
    <3>1. \A v \in Work' : v.index = u.index => v \in Work
      BY <1>3, <1>5, <1>7, <1>10, <2>3
    <3>2. indexes'[u.index] = indexes[u.index]
      BY <1>7, <1>8, <2>3
    <3>3. PICK A : A = Taken(u.dest, e, indexes[u.index].rest, items)
      OBVIOUS
    <3>4. Cardinality(A) <= Cardinality(Past(Work', u.index, e, want))
      BY <2>1, <2>2, <2>3, <3>1, <3>3, CountKept
    <3>. QED BY <3>2, <3>3, <3>4
  <2>4. CASE u \in LevelWork(f)
    <3>1. Taken(u.dest, e, indexes'[u.index].rest, items) = {}
      BY <1>5, <1>8, <1>9, <2>0, <2>4 DEF Taken, Held, ItemsIn
    <3>2. Cardinality(Taken(u.dest, e, indexes'[u.index].rest, items)) = 0
      BY <3>1, FS_EmptySet
    <3>3. folders[u.dest].key \in FolderEntries
      BY <1>4, <1>5, <2>2, <2>4 DEF FrameOK, DestOK
    <3>4. IsFiniteSet(want)
      BY <2>2, <3>3, WantedFinite, EntryFacts DEF Inv, RunInv
    <3>5. IsFiniteSet(Past(Work', u.index, e, want))
      BY <3>4, FS_Subset DEF Past, Alike
    <3>6. Cardinality(Past(Work', u.index, e, want)) \in Nat
      BY <3>5, FS_CardinalityType
    <3>. QED BY <3>2, <3>6
  <2>. QED BY <1>3, <2>3, <2>4
<1>14. Counted' => SurplusOK(items, folders, scenario.children)
  BY CountedStays DEF LedgerInv
<1>. QED BY <1>1, <1>11, <1>12, <1>13, <1>14 DEF LedgerInv

\* An item is taken for a file, or for a shortcut to one.
LEMMA LedgerPopped ==
  ASSUME Inv, ShapeInv, LedgerInv, NEW t \in Work, t.entry \in FileEntries,
         NEW i \in DOMAIN items, Index!Same(items[i].of, t.entry),
         NEW ixs, ixs = [indexes EXCEPT ![t.index] = Index!Pop(@, i)],
         NEW w \in SUBSET Work, \A u \in w : u.index = t.index => u.entry # t.entry
  PROVE  /\ IndexesOK(ixs, items) /\ NativeOK(w, ixs, items)
         /\ Counted => LedgerOK(w, ixs, items, folders, scenario.children)
<1>1. /\ DOMAIN indexes = 1..Len(indexes) /\ t.index \in 1..Len(indexes)
      /\ \A u \in Work : u.index \in 1..Len(indexes)
      /\ \A u \in Work : u.index = t.index => u.dest = t.dest
  BY WorkFacts, LenProperties DEF Inv, WalkInv
<1>2. /\ DOMAIN ixs = DOMAIN indexes
      /\ \A x \in DOMAIN indexes : x # t.index => ixs[x] = indexes[x]
      /\ ixs[t.index].rest = indexes[t.index].rest \ {i}
      /\ \A e \in FileEntries : ixs[t.index].prop[e] =
           IF indexes[t.index].prop[e] = i THEN 0 ELSE indexes[t.index].prop[e]
  BY <1>1 DEF Index!Pop
<1>3. IndexesOK(ixs, items)
  BY <1>1, <1>2 DEF LedgerInv, IndexesOK
<1>4. NativeOK(w, ixs, items)
  <2>1. SUFFICES ASSUME NEW u \in w, u.entry \in FileEntries, Md5[u.entry] = None,
                        NEW k \in ixs[u.index].rest, items[k].tool, items[k].of = u.entry
                 PROVE  ixs[u.index].prop[u.entry] # 0
    BY DEF NativeOK
  <2>2. k \in indexes[u.index].rest /\ u \in Work
    BY <1>1, <1>2, <2>1
  <2>3. indexes[u.index].prop[u.entry] # 0
    BY <2>1, <2>2 DEF LedgerInv, NativeOK
  <2>4. CASE u.index # t.index
    BY <1>1, <1>2, <2>2, <2>3, <2>4
  <2>5. CASE u.index = t.index
    <3>1. indexes[t.index].prop[u.entry] = i => items[i].of = u.entry
      BY <1>1, <2>1, <2>3, <2>5 DEF LedgerInv, IndexesOK
    <3>2. ~Index!Same(u.entry, t.entry)
      BY <2>1, <2>5 DEF Index!Same
    <3>. QED BY <1>2, <2>1, <2>3, <2>5, <3>1, <3>2
  <2>. QED BY <2>4, <2>5
<1>5. ASSUME Counted
      PROVE  LedgerOK(w, ixs, items, folders, scenario.children)
  <2>1. LedgerOK(Work, indexes, items, folders, scenario.children)
    BY <1>5 DEF LedgerInv
  <2>2. SUFFICES ASSUME NEW u \in w, u.dest # Nothing, NEW want,
                        want = Wanted(Source(folders[u.dest].key), scenario.children),
                        NEW e \in want
                 PROVE  Cardinality(Taken(u.dest, e, ixs[u.index].rest, items))
                        <= Cardinality(Past(w, u.index, e, want))
    BY DEF LedgerOK
  <2> DEFINE A2 == Taken(u.dest, e, ixs[u.index].rest, items)
  <2>3. ASSUME A2 \subseteq Taken(u.dest, e, indexes[u.index].rest, items)
        PROVE  Cardinality(A2) <= Cardinality(Past(w, u.index, e, want))
    BY <2>1, <2>2, <2>3, CountKept
  <2>4. CASE u.index # t.index
    <3>1. ixs[u.index] = indexes[u.index]
      BY <1>1, <1>2, <2>2, <2>4
    <3>. QED BY <2>3, <3>1
  <2>5. CASE u.index = t.index
    <3>1. u.dest = t.dest /\ t.dest # Nothing
      BY <1>1, <2>2, <2>5
    <3>2. A2 \subseteq Taken(t.dest, e, indexes[t.index].rest, items) \union {i}
      BY <1>2, <2>5, <3>1 DEF Taken
    <3>3. CASE Index!Same(items[i].of, e)
      <4>1. Index!Same(t.entry, e)
        BY <3>3, SameFacts
      <4>2. Cardinality(A2) <= Cardinality(Past(w, t.index, e, want))
        <5> HIDE DEF A2
        <5>. QED BY <2>1, <2>2, <3>1, <3>2, <4>1, CountPaid
      <4>. QED BY <2>5, <4>2
    <3>4. CASE ~Index!Same(items[i].of, e)
      <4>1. A2 \subseteq Taken(u.dest, e, indexes[u.index].rest, items)
        BY <2>5, <3>1, <3>2, <3>4 DEF Taken, Held
      <4>. QED BY <2>3, <4>1
    <3>. QED BY <3>3, <3>4
  <2>. QED BY <2>4, <2>5
<1>. QED BY <1>3, <1>4, <1>5

\* A copy is made for a file, or for a shortcut to one.
LEMMA LedgerCopied ==
  ASSUME Inv, ShapeInv, LedgerInv, OneIndexPerFolder, opt \in scenario.options,
         NEW t \in Work, t.entry \in FileEntries, Matched(t.entry, t.index) = 0,
         NEW its,
         its = Landed(items, t.entry, t.dest),
         NEW w \in SUBSET Work, \A u \in w : u.index = t.index => u.entry # t.entry
  PROVE  /\ IndexesOK(indexes, its) /\ NativeOK(w, indexes, its)
         /\ Counted =>
              /\ LedgerOK(w, indexes, its, folders, scenario.children)
              /\ SurplusOK(its, folders, scenario.children)
<1> DEFINE item == [folder |-> t.dest, of |-> t.entry, tool |-> TRUE, live |-> TRUE]
           n == Len(items) + 1
<1>1. /\ DOMAIN indexes = 1..Len(indexes) /\ t.index \in 1..Len(indexes)
      /\ \A u \in Work : u.index \in 1..Len(indexes)
      /\ \A u \in Work : u.index = t.index => u.dest = t.dest
  BY WorkFacts, LenProperties DEF Inv, WalkInv
<1>2. /\ item.folder = t.dest /\ item.of = t.entry
      /\ n \notin DOMAIN items /\ DOMAIN its = DOMAIN items \union {n}
      /\ its[n] = item /\ \A i \in DOMAIN items : its[i] = items[i]
  BY ItemAdded DEF Inv, Landed
<1> HIDE DEF item, n
<1>3. \A x \in DOMAIN indexes : indexes[x].rest \subseteq DOMAIN items
  BY DEF LedgerInv, IndexesOK
<1>4. IndexesOK(indexes, its)
  BY <1>2 DEF LedgerInv, IndexesOK
<1>5. NativeOK(w, indexes, its)
  BY <1>1, <1>2, <1>3 DEF LedgerInv, NativeOK
<1>6. \A d, e : Held(d, e, its) \subseteq Held(d, e, items) \union {n}
  BY <1>2 DEF Held
<1>7. \A d, e : ~(d = t.dest /\ Index!Same(t.entry, e)) =>
        Held(d, e, its) \subseteq Held(d, e, items)
  BY <1>2 DEF Held
<1>8. ASSUME Counted
      PROVE  LedgerOK(w, indexes, its, folders, scenario.children)
  <2>1. LedgerOK(Work, indexes, items, folders, scenario.children)
    BY <1>8 DEF LedgerInv
  <2>2. SUFFICES ASSUME NEW u \in w, u.dest # Nothing, NEW want,
                        want = Wanted(Source(folders[u.dest].key), scenario.children),
                        NEW e \in want
                 PROVE  Cardinality(Taken(u.dest, e, indexes[u.index].rest, its))
                        <= Cardinality(Past(w, u.index, e, want))
    BY DEF LedgerOK
  <2> DEFINE A2 == Taken(u.dest, e, indexes[u.index].rest, its)
  <2>3. CASE ~(u.dest = t.dest /\ Index!Same(t.entry, e))
    <3>1. A2 \subseteq Taken(u.dest, e, indexes[u.index].rest, items)
      BY <1>7, <2>3 DEF Taken
    <3>. QED BY <2>1, <2>2, <3>1, CountKept
  <2>4. CASE u.dest = t.dest /\ Index!Same(t.entry, e)
    <3>1. u.index = t.index
      BY <2>2, <2>4 DEF OneIndexPerFolder
    <3>2. A2 \subseteq Taken(t.dest, e, indexes[t.index].rest, items) \union {n}
      BY <1>6, <2>4, <3>1 DEF Taken
    <3>3. Cardinality(A2) <= Cardinality(Past(w, t.index, e, want))
      <4> HIDE DEF A2
      <4>. QED BY <2>1, <2>2, <2>4, <3>2, CountPaid
    <3>. QED BY <3>1, <3>3
  <2>. QED BY <2>3, <2>4
<1>9. ASSUME Counted
      PROVE  SurplusOK(its, folders, scenario.children)
  <2>1. /\ LedgerOK(Work, indexes, items, folders, scenario.children)
        /\ SurplusOK(items, folders, scenario.children) /\ PlaceInv
    BY <1>9 DEF LedgerInv
  <2>2. SUFFICES ASSUME NEW d \in DOMAIN folders \ {DestParent}, NEW want,
                        want = Wanted(Source(folders[d].key), scenario.children),
                        NEW e \in want
                 PROVE  Cardinality(Held(d, e, its)) <= Cardinality(Alike(want, e))
    BY DEF SurplusOK
  <2>3. d # Nothing
    BY <2>2, LenProperties DEF Inv, DriveInv, FoldersOK, Nothing
  <2> DEFINE A2 == Held(d, e, its)
  <2>4. CASE d = t.dest /\ Index!Same(t.entry, e)
    <3>1. Held(d, e, items) \subseteq Taken(d, e, indexes[t.index].rest, items)
      <4>1. \A i \in indexes[t.index].rest :
              items[i].tool => ~Index!Same(items[i].of, t.entry)
        BY <1>1, UnmatchedHasNone DEF LedgerInv
      <4>2. \A i \in Held(d, e, items) : items[i].tool /\ Index!Same(items[i].of, t.entry)
        BY <2>4, SameFacts DEF Held
      <4>. QED BY <4>1, <4>2 DEF Taken
    <3>2. A2 \subseteq Taken(t.dest, e, indexes[t.index].rest, items) \union {n}
      BY <1>6, <2>4, <3>1
    <3> HIDE DEF A2
    <3>3. Cardinality(A2) <= Cardinality(Alike(want, e))
      BY <2>1, <2>2, <2>3, <2>4, <3>2, CountPaid
    <3>. QED BY <3>3 DEF A2
  <2>5. CASE ~(d = t.dest /\ Index!Same(t.entry, e))
    <3>1. A2 \subseteq Held(d, e, items)
      BY <1>7, <2>5
    <3>2. IsFiniteSet(Held(d, e, items))
      BY ItemsFinite, FS_Subset DEF Inv, Held
    <3>3. Cardinality(Held(d, e, items)) <= Cardinality(Alike(want, e))
      BY <2>1, <2>2 DEF SurplusOK
    <3>4. IsFiniteSet(want)
      BY <2>1, <2>2, WantedFinite, EntryFacts DEF Inv, RunInv, PlaceInv
    <3>5. IsFiniteSet(Alike(want, e))
      BY <3>4, FS_Subset DEF Alike
    <3>6. Cardinality(Alike(want, e)) \in Nat
      BY <3>5, FS_CardinalityType
    <3> HIDE DEF A2
    <3>7. /\ Cardinality(A2) <= Cardinality(Held(d, e, items))
          /\ Cardinality(A2) \in Nat /\ Cardinality(Held(d, e, items)) \in Nat
      BY <3>1, <3>2, NoMore
    <3>8. Cardinality(A2) <= Cardinality(Alike(want, e))
      BY <3>3, <3>6, <3>7
    <3>. QED BY <3>8 DEF A2
  <2>. QED BY <2>4, <2>5
<1>. QED BY <1>4, <1>5, <1>8, <1>9

\* Two copies are made for it: of the indexes there is nothing else to say.
LEMMA LedgerResent ==
  ASSUME Inv, ShapeInv, LedgerInv, NEW e \in FileEntries, NEW d \in Nat,
         NEW its, its = Landed(Landed(items, e, d), e, d), NEW w \in SUBSET Work
  PROVE  IndexesOK(indexes, its) /\ NativeOK(w, indexes, its)
<1>1. \A i \in DOMAIN items : i \in DOMAIN its /\ its[i] = items[i]
  BY CopiesAdded DEF Inv
<1>2. \A x \in DOMAIN indexes : indexes[x].rest \subseteq DOMAIN items
  BY DEF LedgerInv, IndexesOK
<1>3. \A u \in Work : u.index \in DOMAIN indexes
  BY WorkFacts, LenProperties DEF Inv, WalkInv
<1>4. IndexesOK(indexes, its)
  BY <1>1 DEF LedgerInv, IndexesOK
<1>. QED BY <1>1, <1>2, <1>3, <1>4 DEF LedgerInv, NativeOK

\* The account is about the entries of the folders only.
LEMMA SameKeys ==
  ASSUME NEW fs, NEW gs, DOMAIN gs = DOMAIN fs, \A d \in DOMAIN fs : gs[d].key = fs[d].key,
         NEW w, \A u \in w : u.dest # Nothing => u.dest \in DOMAIN fs,
         NEW ixs, NEW its, NEW ch
  PROVE  /\ LedgerOK(w, ixs, its, fs, ch) => LedgerOK(w, ixs, its, gs, ch)
         /\ SurplusOK(its, fs, ch) => SurplusOK(its, gs, ch)
BY DEF LedgerOK, SurplusOK

LEMMA LedgerDone ==
  ASSUME Inv, ShapeInv, LedgerInv, OneIndexPerFolder, ModesTell, PlaceInv', DriveInv',
         opt \in scenario.options, NEW t, DoneWith(t), Work' \subseteq Work,
         Grown(folders, folders'), scenario' = scenario, spoiled \subseteq spoiled'
  PROVE  LedgerInv'
<1>1. /\ t \in Work /\ t.entry \in FileEntries /\ CopyFile(t.entry, t.dest, t.index)
      /\ t.index \in 1..Len(indexes) /\ t.dest \in Nat
  BY WorkFacts DEF DoneWith
<1>2. PICK e \in FileEntries, d \in Nat, ix \in 1..Len(indexes) :
        e = t.entry /\ d = t.dest /\ ix = t.index
  BY <1>1
<1>3. /\ DOMAIN folders' = DOMAIN folders
      /\ \A x \in DOMAIN folders : folders'[x].key = folders[x].key
  BY <1>1, <1>2, FileCopied
<1>4. 0 \notin DOMAIN folders'
  BY LenProperties DEF DriveInv, FoldersOK
<1>5. PICK w \in SUBSET Work : w = Work'
  OBVIOUS
<1>6. /\ \A u \in w : u.index = t.index => u.entry # t.entry
      /\ \A u \in w : u.dest # Nothing => u.dest \in DOMAIN folders
  BY <1>5, WorkFacts DEF DoneWith
<1>7. CASE UNCHANGED <<items, indexes>>
  BY <1>4, <1>7, LedgerCalm
<1>8. ASSUME /\ IndexesOK(indexes', items') /\ NativeOK(w, indexes', items')
             /\ Counted' =>
                  /\ LedgerOK(w, indexes', items', folders, scenario.children)
                  /\ SurplusOK(items', folders, scenario.children)
      PROVE  LedgerInv'
  <2>1. Counted' =>
          /\ LedgerOK(w, indexes', items', folders', scenario.children)
          /\ SurplusOK(items', folders', scenario.children)
    BY <1>3, <1>6, <1>8, SameKeys
  <2>. QED BY <1>5, <1>8, <2>1 DEF LedgerInv
<1>9. ASSUME items' = items, NEW i \in DOMAIN items, Index!Same(items[i].of, t.entry),
             indexes' = [indexes EXCEPT ![t.index] = Index!Pop(@, i)]
      PROVE  LedgerInv'
  <2>1. PICK ixs : ixs = indexes'
    OBVIOUS
  <2>2. /\ IndexesOK(ixs, items) /\ NativeOK(w, ixs, items)
        /\ Counted => LedgerOK(w, ixs, items, folders, scenario.children)
    BY <1>1, <1>6, <1>9, <2>1, LedgerPopped
  <2>3. Counted => SurplusOK(items, folders, scenario.children)
    BY DEF LedgerInv
  <2>. QED BY <1>8, <1>9, <2>1, <2>2, <2>3, CountedStays
<1>10. ASSUME indexes' = indexes, Matched(t.entry, t.index) = 0,
              items' = Landed(items, t.entry, t.dest)
       PROVE  LedgerInv'
  <2>1. PICK its : its = items'
    OBVIOUS
  <2>2. /\ IndexesOK(indexes, its) /\ NativeOK(w, indexes, its)
        /\ Counted =>
             /\ LedgerOK(w, indexes, its, folders, scenario.children)
             /\ SurplusOK(its, folders, scenario.children)
    BY <1>1, <1>6, <1>10, <2>1, LedgerCopied
  <2>. QED BY <1>8, <1>10, <2>1, <2>2, CountedStays
<1>11. IndexesOK(indexes, items)
  BY DEF LedgerInv
<1>12. ASSUME indexes' = indexes, Fault("retried"),
              items' = Landed(Landed(items, t.entry, t.dest), t.entry, t.dest)
       PROVE  LedgerInv'
  <2>1. PICK its : its = items' /\ its = Landed(Landed(items, e, d), e, d)
    BY <1>2, <1>12
  <2>2. IndexesOK(indexes, its) /\ NativeOK(w, indexes, its)
    BY <2>1, LedgerResent
  <2>3. ~Counted'
    BY <1>12 DEF Counted, Fault
  <2>. QED BY <1>8, <1>12, <2>1, <2>2, <2>3
<1>. QED BY <1>1, <1>7, <1>9, <1>10, <1>11, <1>12, CopyOutcome

\* The user takes items away, or adds some of his own.
LEMMA LedgerUser ==
  ASSUME Inv, ShapeInv, LedgerInv, PlaceInv', DriveInv', UserTrash \/ UserUpload,
         Grown(folders, folders'), spoiled \subseteq spoiled'
  PROVE  LedgerInv'
<1>1. /\ scenario' = scenario /\ indexes' = indexes /\ stack' = stack /\ jobs' = jobs
      /\ phase = "idle"
  BY DEF UserTrash, UserUpload, walkVars
<1>2. Work' = {}
  <2>1. stack' = <<>> /\ jobs' = {}
    BY <1>1 DEF Inv, WalkInv
  <2>2. Loops(Frames(stack')) = {}
    BY <2>1, EmptySeq DEF Loops, Frames, Entries
  <2>. QED BY <2>1, <2>2, WorkIs
<1>3. 0 \notin DOMAIN folders'
  BY LenProperties DEF DriveInv, FoldersOK
<1>4. ASSUME DOMAIN items \subseteq DOMAIN items',
             \A i \in DOMAIN items : items'[i].of = items[i].of,
             \A d, e : Held(d, e, items') \subseteq Held(d, e, items)
      PROVE  LedgerInv'
  <2>1. IndexesOK(indexes', items')
    BY <1>1, <1>4 DEF LedgerInv, IndexesOK
  <2>. QED BY <1>1, <1>2, <1>3, <1>4, <2>1, LedgerIdle
<1>5. CASE items' = items
  BY <1>4, <1>5
<1>6. ASSUME NEW i \in DOMAIN items, items' = [items EXCEPT ![i].live = FALSE]
      PROVE  LedgerInv'
  <2>1. items[i] \in Item
    BY <1>6, ElementOfSeq, LenProperties DEF Inv, ListInv
  <2>2. /\ DOMAIN items' = DOMAIN items
        /\ \A j \in DOMAIN items :
             /\ items'[j].of = items[j].of /\ items'[j].folder = items[j].folder
             /\ items'[j].tool = items[j].tool
             /\ items'[j].live => items[j].live
    BY <1>6, <2>1 DEF Item
  <2>3. \A d, e : Held(d, e, items') \subseteq Held(d, e, items)
    BY <2>2 DEF Held
  <2>. QED BY <1>4, <2>2, <2>3
<1>7. ASSUME NEW d, NEW e,
             items' = Append(items, [folder |-> d, of |-> e, tool |-> FALSE, live |-> TRUE])
      PROVE  LedgerInv'
  <2> DEFINE item == [folder |-> d, of |-> e, tool |-> FALSE, live |-> TRUE]
             n == Len(items) + 1
  <2>1. /\ ~item.tool /\ DOMAIN items' = DOMAIN items \union {n} /\ items'[n] = item
        /\ \A i \in DOMAIN items : items'[i] = items[i]
    BY <1>7, ItemAdded DEF Inv
  <2> HIDE DEF item, n
  <2>2. \A x, y : Held(x, y, items') \subseteq Held(x, y, items)
    BY <2>1 DEF Held
  <2>. QED BY <1>4, <2>1, <2>2
<1>. QED BY <1>5, <1>6, <1>7 DEF UserTrash, UserUpload

\* Every step, as long as a folder is filled from one index at a time.
LEMMA LedgerNext ==
  ASSUME Inv, DriveInv', ShapeInv, LedgerInv, OneIndexPerFolder, ModesTell, [Next]_vars
  PROVE  LedgerInv'
<1>1. Grown(folders, folders') /\ scenario' = scenario
  BY StepGrows
<1>2. PlaceInv'
  BY PlaceNext DEF LedgerInv
<1>3. Work' \subseteq Work \/ BuildIndex
  BY ShapeNext
<1>4. 0 \notin DOMAIN folders'
  BY LenProperties DEF DriveInv, FoldersOK
<1>5. /\ spoiled \subseteq spoiled'
      /\ \/ UNCHANGED <<items, indexes>>
         \/ BuildIndex
         \/ \E t : DoneWith(t)
         \/ items' = items /\ indexes' = <<>> /\ Work' = {}
         \/ UserTrash \/ UserUpload
  BY LedgerSteps DEF SpentBy
<1>6. CASE BuildIndex
  BY <1>2, <1>5, <1>6, LedgerBuild
<1>7. CASE UNCHANGED <<items, indexes>> /\ Work' \subseteq Work
  BY <1>1, <1>2, <1>4, <1>5, <1>7, LedgerCalm
<1>8. ASSUME NEW t, DoneWith(t), Work' \subseteq Work
      PROVE  LedgerInv'
  <2>1. phase # "idle"
    <3>1. t \in Work /\ (phase = "idle" => stack = <<>> /\ jobs = {})
      BY <1>8 DEF DoneWith, Inv, WalkInv
    <3>2. stack = <<>> => Loops(Frames(stack)) = {}
      BY EmptySeq DEF Loops, Frames, Entries
    <3>. QED BY <3>1, <3>2, WorkIs
  <2>2. opt \in scenario.options
    BY <2>1 DEF LedgerInv, PlaceInv
  <2>. QED BY <1>1, <1>2, <1>5, <1>8, <2>2, LedgerDone
<1>9. CASE items' = items /\ indexes' = <<>> /\ Work' = {}
  <2>1. IndexesOK(indexes', items')
    BY <1>9, EmptySeq DEF IndexesOK
  <2>. QED BY <1>1, <1>2, <1>4, <1>5, <1>9, <2>1, LedgerIdle
<1>10. CASE UserTrash \/ UserUpload
  BY <1>1, <1>2, <1>5, <1>10, LedgerUser
<1>. QED BY <1>3, <1>5, <1>6, <1>7, <1>8, <1>9, <1>10

\* Nothing is there to be done at first, and nothing has been copied.
LEMMA LedgerInit == Init => ShapeInv /\ LedgerInv
<1> SUFFICES ASSUME Init PROVE ShapeInv /\ LedgerInv
  OBVIOUS
<1>1. /\ stack = <<>> /\ jobs = {} /\ items = <<>> /\ indexes = <<>> /\ phase = "idle"
      /\ DOMAIN stack = {} /\ DOMAIN items = {} /\ DOMAIN indexes = {}
  BY EmptySeq DEF Init
<1>2. Frames(stack) = {} /\ Loops(Frames(stack)) = {}
  BY <1>1 DEF Frames, Entries, Loops
<1>3. ShapeInv
  BY <1>1, <1>2 DEF ShapeInv, FramesOK, UseOK, JobsOK
<1>4. Work = {}
  BY <1>1, <1>2, WorkIs
<1>5. DOMAIN folders = {DestParent}
  <2> DEFINE d == [key |-> None, parent |-> Nothing, live |-> TRUE, log |-> None]
  <2>1. folders = <<d>>
    BY DEF Init
  <2> HIDE DEF d
  <2>2. DOMAIN folders = {1}
    BY <2>1
  <2>. QED BY <2>2 DEF DestParent
<1>6. PlaceInv /\ IndexesOK(indexes, items) /\ NativeOK(Work, indexes, items)
  BY <1>1, <1>4, <1>5 DEF PlaceInv, IndexesOK, NativeOK
<1>7. /\ LedgerOK(Work, indexes, items, folders, scenario.children)
      /\ SurplusOK(items, folders, scenario.children)
  BY <1>4, <1>5 DEF LedgerOK, SurplusOK
<1>. QED BY <1>3, <1>6, <1>7 DEF LedgerInv

\* A destination folder never gets more copies of a content than its source
\* folder has entries of it, over any number of runs, crashes and interleavings
\* of the pool: as long as no folder is filled from two indexes at a time.
THEOREM NoSurplusFromOneIndex ==
  ASSUME ModesTell
  PROVE  Spec /\ []OneIndexPerFolder => []NoSurplus
<1> DEFINE I == Inv /\ OneFolderPerPlace /\ ShapeInv /\ LedgerInv
<1>1. Init => I
  BY InvInit, LedgerInit
<1>2. I /\ OneIndexPerFolder /\ [Next]_vars => I'
  <2>1. SUFFICES ASSUME I, OneIndexPerFolder, [Next]_vars PROVE I'
    OBVIOUS
  <2>2. Inv' /\ OneFolderPerPlace'
    BY <2>1, InvNext
  <2>3. ShapeInv'
    BY <2>1, ShapeNext
  <2>4. LedgerInv'
    BY <2>1, <2>2, LedgerNext DEF Inv
  <2>. QED BY <2>2, <2>3, <2>4
<1>3. I => NoSurplus
  BY LedgerGivesNoSurplus
<1>. QED BY <1>1, <1>2, <1>3, PTL DEF Spec

-----------------------------------------------------------------------------
(* What lies ahead of the traversal                                        *)

\* A is a set of entries that none of the levels has entered yet, and with each
\* of them all those that can be reached from it.
Leads(e, A, ch) == Among(ch, Source(e)) \intersect Enterable(ch) \subseteq A
Busy(w, fs)     == UNION {Keys(t.dest, fs) : t \in w}

\* A level stands for, and has put off, entries that are no more ahead; what it
\* may still come to is.  No file is copied into a folder it has put off, nor
\* into its own before its loop begins.
LevelOK(f, A, w, fs, ch) ==
  /\ Here(f, fs) \union Put(f, fs) \subseteq (Enterable(ch) \union {Root}) \ A
  /\ Here(f, fs) # {} => Offers(f, ch) \intersect Enterable(ch) \subseteq A
  /\ \A e \in Put(f, fs) : Leads(e, A, ch)
  /\ Apart(f, fs)
  /\ Put(f, fs) \intersect Busy(w, fs) = {}
  /\ f.stage \in {"list", "index"} => Here(f, fs) \intersect Busy(w, fs) = {}

Ahead(A, F, w, fs, ch) ==
  /\ A \subseteq Enterable(ch)
  /\ \A e \in A : Leads(e, A, ch)
  /\ \A f \in F : LevelOK(f, A, w, fs, ch)
  /\ \A f, g \in F : /\ Put(f, fs) \intersect Here(g, fs) = {}
                     /\ f.src # g.src => Put(f, fs) \intersect Put(g, fs) = {}
  /\ Busy(w, fs) \intersect A = {}
  /\ \A t, u \in w :
       Keys(t.dest, fs) \intersect Keys(u.dest, fs) # {} => t.index = u.index

RootInv  == stack # <<>> => stack[1].src = Root
AheadInv == /\ RootInv
            /\ \E A : Ahead(A, Frames(stack), Work, folders, scenario.children)

\* Tasks for one folder share its entry.
LEMMA AheadGivesOneIndex == AheadInv => OneIndexPerFolder
BY DEF AheadInv, Ahead, OneIndexPerFolder, Keys

\* Folders are created, and those there are keep their entries.
LEMMA AheadGrown ==
  ASSUME NEW A, NEW F, NEW w, NEW fs, NEW gs, NEW ch, Grown(fs, gs),
         \A f \in F : FrameOK(f, fs, ch),
         \A t \in w : t.dest # Nothing => t.dest \in DOMAIN fs,
         Ahead(A, F, w, fs, ch)
  PROVE  Ahead(A, F, w, gs, ch)
<1>1. \A t \in w : Keys(t.dest, gs) = Keys(t.dest, fs)
  BY DEF Grown, Keys
<1>2. Busy(w, gs) = Busy(w, fs)
  BY <1>1 DEF Busy
<1>3. \A f \in F : /\ Here(f, gs) = Here(f, fs) /\ Put(f, gs) = Put(f, fs)
                   /\ Apart(f, gs) <=> Apart(f, fs)
  BY FrameKept
<1>4. \A f \in F : LevelOK(f, A, w, gs, ch)
  BY <1>2, <1>3 DEF Ahead, LevelOK
<1>. QED BY <1>1, <1>2, <1>3, <1>4 DEF Ahead

\* Nobody goes anywhere.
LEMMA AheadTamed ==
  ASSUME NEW A, StackTamed, NEW w \in SUBSET Work,
         Ahead(A, Frames(stack), Work, folders, scenario.children)
  PROVE  Ahead(A, Frames(stack'), w, folders, scenario.children)
<1> DEFINE ch == scenario.children
<1>1. Busy(w, folders) \subseteq Busy(Work, folders)
  BY DEF Busy
<1>2. ASSUME NEW f \in Frames(stack'), NEW g \in Frames(stack), Tame(f, g, folders, ch)
      PROVE  LevelOK(f, A, w, folders, ch)
  <2>1. LevelOK(g, A, Work, folders, ch)
    BY DEF Ahead
  <2>2. Here(f, folders) = Here(g, folders)
    BY <1>2 DEF Tame, Here
  <2>. QED BY <1>1, <1>2, <2>1, <2>2 DEF LevelOK, Tame
<1>3. \A f \in Frames(stack') : LevelOK(f, A, w, folders, ch)
  BY <1>2 DEF StackTamed
<1>4. ASSUME NEW f \in Frames(stack'), NEW g \in Frames(stack')
      PROVE  /\ Put(f, folders) \intersect Here(g, folders) = {}
             /\ f.src # g.src => Put(f, folders) \intersect Put(g, folders) = {}
  <2>1. PICK x \in Frames(stack) : /\ f.src = x.src
                                   /\ Put(f, folders) \subseteq Put(x, folders)
    BY DEF StackTamed, Tame
  <2>2. PICK y \in Frames(stack) : /\ g.src = y.src /\ g.dest = y.dest
                                   /\ Put(g, folders) \subseteq Put(y, folders)
    BY DEF StackTamed, Tame
  <2>3. Here(g, folders) = Here(y, folders)
    BY <2>2 DEF Here
  <2>4. /\ Put(x, folders) \intersect Here(y, folders) = {}
        /\ x.src # y.src => Put(x, folders) \intersect Put(y, folders) = {}
    BY DEF Ahead
  <2>. QED BY <2>1, <2>2, <2>3, <2>4
<1>. QED BY <1>1, <1>3, <1>4 DEF Ahead

\* A level, or a folder that was put off, is found below the folder of its entry.
LEMMA HereIs ==
  ASSUME NEW f, NEW fs, NEW ch, FrameOK(f, fs, ch)
  PROVE  \A x \in Here(f, fs) : /\ x \in FolderEntries /\ Source(x) = f.src
                                /\ Here(f, fs) = {x} /\ f.dest # Nothing
BY DEF FrameOK, DestOK, Here, Keys

\* An entry is entered that was ahead and has been reached in the only way there is.
LEMMA EnteredWasAhead ==
  ASSUME Inv, ShapeInv, RootInv, OneWayDown(scenario.children),
         Grown(folders, folders'), NEW A,
         Ahead(A, Frames(stack), Work, folders', scenario.children),
         NEW e, NEW d, NEW f, EnteredAs(e, d, f), d # Nothing
  PROVE  \E k \in Here(Top, folders') :
           /\ Here(Top, folders') = {k} /\ k # e
           /\ e \in A /\ e \in Among(scenario.children, Top.src)
           /\ \A x \in Enterable(scenario.children) \union {Root} :
                e \in Among(scenario.children, Source(x)) => x = k
<1> DEFINE ch == scenario.children
<1>1. /\ stack # <<>> /\ Top.stage = "loop" /\ e \in FolderEntries
      /\ Source(e) \notin Visited /\ e \in Entries(Top.todo) /\ Top.dest # Nothing
  BY DEF EnteredAs
<1>2. /\ Top \in Frames(stack) /\ Top \in Frame /\ 1 \in DOMAIN stack
      /\ Top.src \in Folders
  BY <1>1, TopIs, TopInFrames DEF Inv, WalkInv, Frame
<1>3. FrameOK(Top, folders', ch)
  BY <1>2, FrameKept DEF ShapeInv, FramesOK
<1>4. Source(e) # Root /\ Source(e) # Top.src
  <2>1. Root \in Visited /\ Top.src \in Visited
    BY <1>1, <1>2, TopIs DEF RootInv, Visited, Top, Inv
  <2>. QED BY <1>1, <2>1
<1>5. e \in Among(ch, Top.src)
  BY <1>1, <1>3 DEF FrameOK, KidsOK
<1>6. e \in Enterable(ch)
  BY <1>1, <1>2, <1>4, <1>5 DEF Enterable
<1>7. PICK k : Here(Top, folders') = {k}
  BY <1>1 DEF Here, Keys
<1>8. LevelOK(Top, A, Work, folders', ch)
  BY <1>2 DEF Ahead
<1>9. e \in A /\ k \notin A /\ k \in Enterable(ch) \union {Root}
  BY <1>1, <1>6, <1>7, <1>8 DEF LevelOK, Offers
<1>10. Source(k) = Top.src
  BY <1>3, <1>7, HereIs
<1>11. \A x \in Enterable(ch) \union {Root} : e \in Among(ch, Source(x)) => x = k
  BY <1>5, <1>6, <1>9, <1>10 DEF OneWayDown
<1>. QED BY <1>5, <1>7, <1>9, <1>11

LEMMA AheadEnter ==
  ASSUME Inv, ShapeInv, RootInv, OneWayDown(scenario.children),
         Grown(folders, folders'), NEW A,
         Ahead(A, Frames(stack), Work, folders', scenario.children),
         NEW e, NEW d, NEW f, EnteredAs(e, d, f), NEW w \in SUBSET Work
  PROVE  \E B : Ahead(B, Frames(stack'), w, folders', scenario.children)
<1> DEFINE ch == scenario.children
           h == NewFrame(Source(e), d, "list", <<>>)
           fs == folders'
<1>1. /\ stack # <<>> /\ Top.stage = "loop"
      /\ f.src = Top.src /\ f.dest = Top.dest /\ f.stage = "loop"
      /\ Entries(f.todo) \subseteq Entries(Top.todo) \ {e}
  BY DEF EnteredAs
<1>2. Top \in Frames(stack) /\ Top \in Frame
  BY <1>1, TopIs, TopInFrames DEF Inv
<1>3. \A g \in Frames(stack) : FrameOK(g, fs, ch)
  BY FrameKept DEF ShapeInv, FramesOK
<1>4. /\ h.stage = "list" /\ h.src = Source(e) /\ h.dest = d /\ DOMAIN h.pending = {}
  BY EmptySeq DEF NewFrame
<1>5. Put(h, fs) = {} /\ Apart(h, fs) /\ Here(h, fs) = Keys(d, fs)
      /\ Offers(h, ch) = Among(ch, Source(e))
  BY <1>4 DEF Put, Apart, Here, Offers
<1> HIDE DEF h
<1>6. Here(f, fs) = Here(Top, fs)
  BY <1>1 DEF Here
<1>7. Busy(w, fs) \subseteq Busy(Work, fs)
  BY DEF Busy
<1>8. \A g \in Frames(stack') :
        g = f \/ (g = h /\ f.pending = Top.pending) \/ (g \in Frames(stack) /\ g.src # Top.src)
  BY DEF EnteredAs, h
<1>9. /\ Keys(d, fs) \subseteq {e}
      /\ d = Nothing => Keys(d, fs) = {}
  BY DEF EnteredAs, Keys
<1>10. /\ Put(f, fs) \subseteq Put(Top, fs) \union Keys(d, fs)
       /\ Apart(Top, fs) /\ Keys(d, fs) \intersect Put(Top, fs) = {} => Apart(f, fs)
       /\ f.pending = Top.pending => Put(f, fs) = Put(Top, fs)
  <2>1. CASE f.pending = Top.pending
    BY <2>1 DEF Put, Apart
  <2>2. CASE f.pending = Append(Top.pending, [src |-> Source(e), dest |-> d, kids |-> <<>>])
    <3> DEFINE p == [src |-> Source(e), dest |-> d, kids |-> <<>>]
    <3>1. p \in Pending /\ p.dest = d /\ Top.pending \in Seq(Pending)
      BY <1>2, EntryFacts, EmptySeq DEF EnteredAs, Pending, Frame
    <3>2. f.pending = Append(Top.pending, p)
      BY <2>2
    <3> HIDE DEF p
    <3>3. /\ f.pending \in Seq(Pending) /\ Len(f.pending) = Len(Top.pending) + 1
          /\ \A k \in 1..Len(Top.pending) : f.pending[k] = Top.pending[k]
          /\ f.pending[Len(Top.pending) + 1] = p
      BY <3>1, <3>2, AppendProperties
    <3>4. /\ DOMAIN f.pending = 1..(Len(Top.pending) + 1) /\ Len(Top.pending) \in Nat
          /\ DOMAIN Top.pending = 1..Len(Top.pending)
      BY <3>1, <3>3, LenProperties
    <3> DEFINE n == Len(Top.pending) + 1
    <3>5. \A k \in DOMAIN f.pending : k = n \/ k \in DOMAIN Top.pending
      BY <3>4
    <3>6. \A k \in DOMAIN f.pending :
            \/ k = n /\ f.pending[k] = p
            \/ k \in DOMAIN Top.pending /\ f.pending[k] = Top.pending[k]
      BY <3>3, <3>4, <3>5
    <3> HIDE DEF n
    <3>7. \A k \in DOMAIN f.pending :
            \/ k = n /\ f.pending[k].dest = d
            \/ k \in DOMAIN Top.pending /\ f.pending[k] = Top.pending[k]
      BY <3>1, <3>6
    <3>8. Put(f, fs) \subseteq Put(Top, fs) \union Keys(d, fs)
      BY <3>7 DEF Put
    <3>9. Apart(Top, fs) /\ Keys(d, fs) \intersect Put(Top, fs) = {} => Apart(f, fs)
      BY <3>7 DEF Apart, Put
    <3>10. f.pending # Top.pending
      BY <3>1, <3>3, <3>4
    <3>. QED BY <3>8, <3>9, <3>10
  <2>. QED BY <2>1, <2>2 DEF EnteredAs
<1>11. LevelOK(Top, A, Work, fs, ch)
  BY <1>2 DEF Ahead
<1>12. Offers(f, ch) \subseteq Offers(Top, ch) \ {e}
  BY <1>1 DEF Offers
<1>13. CASE d = Nothing
  <2>1. LevelOK(f, A, w, fs, ch)
    BY <1>1, <1>6, <1>7, <1>9, <1>10, <1>11, <1>12, <1>13 DEF LevelOK
  <2>2. LevelOK(h, A, w, fs, ch)
    BY <1>5, <1>9, <1>13 DEF LevelOK
  <2>3. \A g \in Frames(stack) : LevelOK(g, A, w, fs, ch)
    BY <1>7 DEF LevelOK, Ahead
  <2>4. \A x, y \in Frames(stack') :
          /\ Put(x, fs) \intersect Here(y, fs) = {}
          /\ x.src # y.src => Put(x, fs) \intersect Put(y, fs) = {}
    <3>1. \A x \in Frames(stack') :
            \/ Put(x, fs) = {} /\ Here(x, fs) = {}
            \/ \E z \in Frames(stack) : /\ z.src = x.src /\ Here(x, fs) = Here(z, fs)
                                        /\ Put(x, fs) \subseteq Put(z, fs)
      BY <1>1, <1>2, <1>5, <1>6, <1>8, <1>9, <1>10, <1>13
    <3>. QED BY <3>1 DEF Ahead
  <2>5. Ahead(A, Frames(stack'), w, fs, ch)
    BY <1>7, <1>8, <2>1, <2>2, <2>3, <2>4 DEF Ahead
  <2>. QED BY <2>5
<1>14. CASE d # Nothing
  <2> DEFINE B == A \ {e}
  <2>1. PICK k \in Here(Top, fs) :
          /\ Here(Top, fs) = {k} /\ k # e
          /\ e \in A /\ e \in Among(ch, Top.src)
          /\ \A x \in Enterable(ch) \union {Root} : e \in Among(ch, Source(x)) => x = k
    BY <1>14, EnteredWasAhead
  <2>2. k \notin A /\ k \in Enterable(ch) \union {Root}
    BY <1>11, <2>1 DEF LevelOK
  <2>3. \A x \in Enterable(ch) \union {Root} : x # k /\ Leads(x, A, ch) => Leads(x, B, ch)
    BY <2>1 DEF Leads
  <2>4. \A x \in A : Leads(x, B, ch)
    BY <2>2, <2>3 DEF Ahead
  <2>5. \A x \in Frames(stack) : k \notin Put(x, fs)
    BY <1>2, <2>1 DEF Ahead
  <2>6. \A x \in Frames(stack) : \A y \in Put(x, fs) : Leads(y, B, ch)
    BY <2>3, <2>5 DEF Ahead, LevelOK
  <2>7. LevelOK(f, B, w, fs, ch)
    <3>1. Put(f, fs) \subseteq (Enterable(ch) \union {Root}) \ B
      BY <1>9, <1>10, <1>11, <2>1 DEF LevelOK, Ahead
    <3>2. Here(f, fs) \subseteq (Enterable(ch) \union {Root}) \ B
      BY <1>6, <1>11 DEF LevelOK
    <3>3. Offers(f, ch) \intersect Enterable(ch) \subseteq B
      BY <1>11, <1>12, <2>1 DEF LevelOK
    <3>4. \A y \in Put(f, fs) : Leads(y, B, ch)
      BY <1>2, <1>9, <1>10, <2>1, <2>4, <2>6
    <3>5. Apart(f, fs)
      BY <1>9, <1>10, <1>11, <2>1 DEF LevelOK
    <3>6. Put(f, fs) \intersect Busy(w, fs) = {}
      BY <1>7, <1>9, <1>10, <1>11, <2>1 DEF LevelOK, Ahead
    <3>. QED BY <1>1, <3>1, <3>2, <3>3, <3>4, <3>5, <3>6 DEF LevelOK
  <2>8. LevelOK(h, B, w, fs, ch)
    <3>1. Here(h, fs) \subseteq {e}
      BY <1>5, <1>9
    <3>2. Offers(h, ch) \intersect Enterable(ch) \subseteq B
      BY <1>5, <2>1, <2>4 DEF Leads
    <3>3. Here(h, fs) \intersect Busy(w, fs) = {}
      BY <1>7, <2>1, <3>1 DEF Ahead
    <3>. QED BY <1>5, <2>1, <3>1, <3>2, <3>3 DEF LevelOK, Ahead
  <2>9. ASSUME NEW g \in Frames(stack), g.src # Top.src
        PROVE  LevelOK(g, B, w, fs, ch)
    <3>1. LevelOK(g, A, Work, fs, ch)
      BY DEF Ahead
    <3>2. Here(g, fs) # {} => e \notin Offers(g, ch)
      <4>1. SUFFICES ASSUME NEW x \in Here(g, fs), e \in Offers(g, ch)
                     PROVE  FALSE
        OBVIOUS
      <4>2. Source(x) = g.src /\ e \in Among(ch, g.src)
        BY <1>3, <4>1, HereIs DEF FrameOK, KidsOK, Offers
      <4>3. x \in Enterable(ch) \union {Root}
        BY <3>1 DEF LevelOK
      <4>4. x = k
        BY <2>1, <4>2, <4>3
      <4>5. Source(k) = Top.src
        BY <1>2, <1>3, <2>1, HereIs
      <4>. QED BY <2>9, <4>2, <4>4, <4>5
    <3>3. Here(g, fs) # {} => Offers(g, ch) \intersect Enterable(ch) \subseteq B
      BY <3>1, <3>2 DEF LevelOK
    <3>. QED BY <1>7, <2>6, <3>1, <3>3 DEF LevelOK
  <2>10. \A x, y \in Frames(stack') :
          /\ Put(x, fs) \intersect Here(y, fs) = {}
          /\ x.src # y.src => Put(x, fs) \intersect Put(y, fs) = {}
    <3>1. /\ \A x \in Frames(stack) : e \notin Put(x, fs) /\ e \notin Here(x, fs)
      BY <2>1 DEF Ahead, LevelOK
    <3>2. \A x \in Frames(stack') :
            \/ x = h /\ Put(x, fs) = {} /\ Here(x, fs) \subseteq {e} /\ f.pending = Top.pending
            \/ x = f /\ x.src = Top.src /\ Here(x, fs) = Here(Top, fs)
                     /\ Put(x, fs) \subseteq Put(Top, fs) \union {e}
                     /\ (f.pending = Top.pending => Put(x, fs) = Put(Top, fs))
            \/ x \in Frames(stack) /\ x.src # Top.src
      BY <1>1, <1>5, <1>6, <1>8, <1>9, <1>10
    <3>. QED BY <1>2, <3>1, <3>2 DEF Ahead
  <2>11. Ahead(B, Frames(stack'), w, fs, ch)
    BY <1>7, <1>8, <2>4, <2>7, <2>8, <2>9, <2>10 DEF Ahead
  <2>. QED BY <2>11
<1>. QED BY <1>13, <1>14

\* A folder that was put off is entered: what it stands for moves.
LEMMA AheadDescend ==
  ASSUME Inv, ShapeInv, NEW A,
         Ahead(A, Frames(stack), Work, folders, scenario.children),
         NEW f, DescendedAs(f), NEW w \in SUBSET Work
  PROVE  Ahead(A, Frames(stack'), w, folders, scenario.children)
<1> DEFINE ch == scenario.children
           sub == Head(Top.pending)
           h == NewFrame(sub.src, sub.dest, "index", sub.kids)
           fs == folders
<1>1. /\ stack # <<>> /\ Top.stage = "descend" /\ f.stage = "descend"
      /\ f.src = Top.src /\ f.dest = Top.dest /\ f.todo = Top.todo
  BY DEF DescendedAs
<1>2. Top \in Frames(stack)
  BY <1>1, TopInFrames DEF Inv
<1>3. /\ Put(f, fs) \subseteq Put(Top, fs)
      /\ Apart(Top, fs) =>
           Apart(f, fs) /\ Keys(sub.dest, fs) \intersect Put(f, fs) = {}
      /\ Keys(sub.dest, fs) \subseteq Put(Top, fs)
      /\ DestOK(sub.dest, sub.src, fs) /\ KidsOK(sub.kids, sub.src, ch)
      /\ \A g \in Frames(stack') : g = f \/ g = h \/ (g \in Frames(stack) /\ g.src # Top.src)
  BY DEF DescendedAs
<1>4. /\ h.stage = "index" /\ h.dest = sub.dest /\ h.todo = sub.kids
      /\ DOMAIN h.pending = {}
  BY EmptySeq DEF NewFrame
<1> HIDE DEF h, sub
<1>5. /\ Put(h, fs) = {} /\ Apart(h, fs) /\ Here(h, fs) = Keys(sub.dest, fs)
      /\ Offers(h, ch) \subseteq Among(ch, sub.src)
  <2>1. Offers(h, ch) = Entries(sub.kids)
    BY <1>4 DEF Offers
  <2>2. Entries(sub.kids) \subseteq Among(ch, sub.src)
    BY <1>3 DEF KidsOK
  <2>. QED BY <1>4, <2>1, <2>2 DEF Put, Apart, Here
<1>6. \A x \in Keys(sub.dest, fs) : Source(x) = sub.src
  BY <1>3 DEF Keys, DestOK
<1>7. Here(f, fs) = Here(Top, fs) /\ Offers(f, ch) = Offers(Top, ch)
  BY <1>1 DEF Here, Offers
<1>8. Busy(w, fs) \subseteq Busy(Work, fs)
  BY DEF Busy
<1>9. LevelOK(Top, A, Work, fs, ch)
  BY <1>2 DEF Ahead
<1>10. LevelOK(f, A, w, fs, ch)
  BY <1>1, <1>3, <1>7, <1>8, <1>9 DEF LevelOK
<1>11. LevelOK(h, A, w, fs, ch)
  <2>1. Here(h, fs) # {} => Offers(h, ch) \intersect Enterable(ch) \subseteq A
    BY <1>3, <1>5, <1>6, <1>9 DEF LevelOK, Leads
  <2>. QED BY <1>3, <1>5, <1>8, <1>9, <2>1 DEF LevelOK
<1>12. \A g \in Frames(stack) : LevelOK(g, A, w, fs, ch)
  BY <1>8 DEF LevelOK, Ahead
<1>13. \A x, y \in Frames(stack') :
         /\ Put(x, fs) \intersect Here(y, fs) = {}
         /\ x.src # y.src => Put(x, fs) \intersect Put(y, fs) = {}
  <2>1. Put(f, fs) \intersect Keys(sub.dest, fs) = {}
    BY <1>3, <1>9 DEF LevelOK
  <2>2. \A x \in Frames(stack') :
          \/ Put(x, fs) = {} /\ Here(x, fs) = Keys(sub.dest, fs)
          \/ x = f
          \/ x \in Frames(stack) /\ x.src # Top.src
    BY <1>3, <1>5
  <2>. QED BY <1>1, <1>2, <1>3, <1>7, <2>1, <2>2 DEF Ahead
<1>. QED BY <1>3, <1>8, <1>10, <1>11, <1>12, <1>13 DEF Ahead

\* A loop begins: nobody else copies into its folder, nor is about to.
LEMMA AheadBuild ==
  ASSUME Inv, ShapeInv, NEW A,
         Ahead(A, Frames(stack), Work, folders, scenario.children),
         NEW f, BegunAs(f), NEW w, w \subseteq Work \union LevelWork(f)
  PROVE  Ahead(A, Frames(stack'), w, folders, scenario.children)
<1> DEFINE ch == scenario.children
           fs == folders
<1>1. /\ stack # <<>> /\ Top.stage = "index" /\ f.stage = "loop"
      /\ f.src = Top.src /\ f.dest = Top.dest /\ f.todo = Top.todo
      /\ f.pending = Top.pending
      /\ \A g \in Frames(stack') : g = f \/ (g \in Frames(stack) /\ g.src # Top.src)
  BY DEF BegunAs
<1>2. Top \in Frames(stack)
  BY <1>1, TopInFrames DEF Inv
<1>3. /\ Here(f, fs) = Here(Top, fs) /\ Offers(f, ch) = Offers(Top, ch)
      /\ Put(f, fs) = Put(Top, fs) /\ (Apart(f, fs) <=> Apart(Top, fs))
  BY <1>1 DEF Here, Offers, Put, Apart
<1>4. LevelOK(Top, A, Work, fs, ch)
  BY <1>2 DEF Ahead
<1>5. \A t \in LevelWork(f) : t.index = f.index /\ Keys(t.dest, fs) = Here(Top, fs)
  BY <1>1, LevelWorkIs DEF Here
<1>6. Busy(w, fs) \subseteq Busy(Work, fs) \union Here(Top, fs)
  BY <1>5 DEF Busy
<1>7. Here(Top, fs) \intersect Busy(Work, fs) = {}
  BY <1>1, <1>4 DEF LevelOK
<1>8. \A g \in Frames(stack) : g.src # Top.src => Here(g, fs) \intersect Here(Top, fs) = {}
  <2>1. \A g \in Frames(stack) : FrameOK(g, fs, ch)
    BY DEF ShapeInv, FramesOK
  <2>2. \A g \in Frames(stack) : \A x \in Here(g, fs) : Source(x) = g.src
    BY <2>1, HereIs
  <2>. QED BY <1>2, <2>2
<1>9. LevelOK(f, A, w, fs, ch)
  <2>1. Put(Top, fs) \intersect Here(Top, fs) = {}
    BY <1>2 DEF Ahead
  <2>. QED BY <1>1, <1>3, <1>4, <1>6, <2>1 DEF LevelOK
<1>10. ASSUME NEW g \in Frames(stack), g.src # Top.src
       PROVE  LevelOK(g, A, w, fs, ch)
  <2>1. LevelOK(g, A, Work, fs, ch) /\ Put(g, fs) \intersect Here(Top, fs) = {}
    BY <1>2 DEF Ahead
  <2>. QED BY <1>6, <1>8, <1>10, <2>1 DEF LevelOK
<1>11. \A x, y \in Frames(stack') :
         /\ Put(x, fs) \intersect Here(y, fs) = {}
         /\ x.src # y.src => Put(x, fs) \intersect Put(y, fs) = {}
  BY <1>1, <1>2, <1>3 DEF Ahead
<1>12. Busy(w, fs) \intersect A = {}
  BY <1>4, <1>6 DEF Ahead, LevelOK
<1>13. ASSUME NEW t \in w, NEW u \in w, Keys(t.dest, fs) \intersect Keys(u.dest, fs) # {}
       PROVE  t.index = u.index
  <2>1. \A v \in Work : Keys(v.dest, fs) \intersect Here(Top, fs) = {}
    BY <1>7 DEF Busy
  <2>2. CASE t \in Work /\ u \in Work
    BY <1>13, <2>2 DEF Ahead
  <2>3. CASE t \in LevelWork(f) /\ u \in LevelWork(f)
    BY <1>5, <2>3
  <2>4. CASE (t \in Work /\ u \in LevelWork(f)) \/ (t \in LevelWork(f) /\ u \in Work)
    BY <1>5, <1>13, <2>1, <2>4
  <2>. QED BY <2>2, <2>3, <2>4
<1>. QED BY <1>1, <1>9, <1>10, <1>11, <1>12, <1>13 DEF Ahead

\* A run begins: all but the root lies ahead.
LEMMA AheadOpen ==
  ASSUME NEW d, OpenedAs(d)
  PROVE  /\ RootInv'
         /\ \E A : Ahead(A, Frames(stack'), Work', folders', scenario.children)
<1> DEFINE ch == scenario.children
           h == NewFrame(Root, d, "list", <<>>)
           A == Enterable(ch)
<1>1. stack' = <<h>> /\ jobs' = {}
  BY DEF OpenedAs
<1>2. /\ h.stage = "list" /\ h.src = Root /\ h.dest = d /\ DOMAIN h.pending = {}
  BY EmptySeq DEF NewFrame
<1> HIDE DEF h
<1>3. \A g \in Frames(stack') : g = h
  BY <1>1 DEF Frames, Entries
<1>4. Work' = {}
  <2>1. Loops(Frames(stack')) = {}
    BY <1>2, <1>3 DEF Loops
  <2>. QED BY <1>1, <2>1, WorkIs
<1>5. Put(h, folders') = {} /\ Apart(h, folders') /\ Here(h, folders') \subseteq {Root}
  BY <1>2 DEF Put, Apart, Here, Keys, OpenedAs
<1>6. Root \notin A
  BY RootAssumption, IdAssumption DEF Enterable, Source
<1>7. Busy(Work', folders') = {}
  BY <1>4 DEF Busy
<1>8. LevelOK(h, A, Work', folders', ch)
  BY <1>5, <1>6, <1>7 DEF LevelOK
<1>9. Ahead(A, Frames(stack'), Work', folders', ch)
  BY <1>3, <1>4, <1>5, <1>7, <1>8 DEF Ahead, Leads
<1>10. RootInv'
  BY <1>1, <1>2 DEF RootInv
<1>. QED BY <1>9, <1>10

\* Every step.
LEMMA AheadNext ==
  ASSUME Inv, ShapeInv, AheadInv, OneWayDown(scenario.children), [Next]_vars
  PROVE  AheadInv'
<1> DEFINE ch == scenario.children
<1>1. Grown(folders, folders') /\ scenario' = scenario
  BY StepGrows
<1>2. FramesOK /\ RootInv /\ \A t \in Work : t.dest # Nothing => t.dest \in DOMAIN folders
  BY WorkFacts DEF ShapeInv, AheadInv
<1>3. PICK A : Ahead(A, Frames(stack), Work, folders, ch)
  BY DEF AheadInv
<1>4. RootKept => RootInv'
  BY <1>2 DEF RootKept, RootInv
<1>5. Work' \subseteq Work \/ BuildIndex
  BY ShapeNext
<1>6. ASSUME StackTamed, RootKept, Work' \subseteq Work
      PROVE  AheadInv'
  <2>1. Ahead(A, Frames(stack'), Work', folders, ch)
    BY <1>3, <1>6, AheadTamed
  <2>2. \A f \in Frames(stack') : FrameOK(f, folders, ch)
    BY <1>6 DEF StackTamed
  <2>3. Ahead(A, Frames(stack'), Work', folders', ch)
    BY <1>1, <1>2, <1>6, <2>1, <2>2, AheadGrown
  <2>. QED BY <1>1, <1>4, <1>6, <2>3 DEF AheadInv
<1>7. CASE BuildIndex
  <2>1. PICK f : BegunAs(f)
    BY <1>2, <1>7, BuildIs
  <2>2. Work' \subseteq Work \union LevelWork(f)
    BY <1>1, <1>7, <2>1, ShapeBuild
  <2>3. Ahead(A, Frames(stack'), Work', folders, ch)
    BY <1>3, <2>1, <2>2, AheadBuild
  <2>4. folders' = folders /\ RootKept
    BY <1>2, <1>7, BuildIs DEF BuildIndex, driveVars
  <2>. QED BY <1>1, <1>4, <2>3, <2>4 DEF AheadInv
<1>8. CASE Calm /\ Work' \subseteq Work
  BY <1>6, <1>8 DEF Calm
<1>9. CASE OpenRoot
  BY <1>1, <1>9, OpenIs, AheadOpen DEF AheadInv
<1>10. CASE Descend /\ Work' \subseteq Work
  <2>1. PICK f : DescendedAs(f)
    BY <1>2, <1>10, DescendIs
  <2>2. Ahead(A, Frames(stack'), Work', folders, ch)
    BY <1>3, <1>10, <2>1, AheadDescend
  <2>3. folders' = folders /\ RootKept
    BY <1>2, <1>10, DescendIs DEF Descend, driveVars
  <2>. QED BY <1>1, <1>4, <2>2, <2>3 DEF AheadInv
<1>11. ASSUME NEW e \in Ids, EnterFolder(e), Work' \subseteq Work
       PROVE  AheadInv'
  <2>1. PICK d, f : EnteredAs(e, d, f)
    BY <1>2, <1>11, EnterIs
  <2>2. Ahead(A, Frames(stack), Work, folders', ch)
    BY <1>1, <1>2, <1>3, AheadGrown DEF FramesOK
  <2>3. \E B : Ahead(B, Frames(stack'), Work', folders', ch)
    BY <1>1, <1>2, <1>11, <2>1, <2>2, AheadEnter
  <2>4. RootInv'
    BY <1>2, <1>4, <1>11, EnterIs
  <2>. QED BY <1>1, <2>3, <2>4 DEF AheadInv
<1>12. ASSUME NEW e \in Ids, SubmitFile(e)
       PROVE  AheadInv'
  BY <1>6, <1>12, ShapeSubmit
<1>13. BuildIndex \/ OpenRoot \/ Work' \subseteq Work
  BY <1>5
<1>. QED BY <1>2, <1>7, <1>8, <1>9, <1>10, <1>11, <1>12, <1>13, CalmSteps

LEMMA AheadInit == Init => AheadInv
<1> SUFFICES ASSUME Init PROVE AheadInv
  OBVIOUS
<1>1. stack = <<>> /\ jobs = {} /\ DOMAIN stack = {}
  BY EmptySeq DEF Init
<1>2. Frames(stack) = {} /\ Work = {}
  <2>1. Frames(stack) = {} /\ Loops(Frames(stack)) = {}
    BY <1>1 DEF Frames, Entries, Loops
  <2>. QED BY <1>1, <2>1, WorkIs
<1>3. Ahead({}, Frames(stack), Work, folders, scenario.children)
  BY <1>2 DEF Ahead, Busy
<1>. QED BY <1>1, <1>3 DEF AheadInv, RootInv

-----------------------------------------------------------------------------
(* The theorems                                                            *)

\* A destination folder is never filled from two indexes at once, however long
\* the files of a level that was left wait in the pool, in trees where no folder
\* is found in two ways.
THEOREM OneIndexForEachFolder ==
  ASSUME TreesOneWayDown
  PROVE  Spec => []OneIndexPerFolder
<1> DEFINE I == Inv /\ OneFolderPerPlace /\ ShapeInv /\ AheadInv
<1>1. Init => I
  BY InvInit, LedgerInit, AheadInit
<1>2. I /\ [Next]_vars => I'
  <2>1. SUFFICES ASSUME I, [Next]_vars PROVE I'
    OBVIOUS
  <2>2. OneWayDown(scenario.children)
    BY <2>1 DEF TreesOneWayDown, Inv, RunInv
  <2>3. Inv' /\ OneFolderPerPlace'
    BY <2>1, InvNext
  <2>4. ShapeInv'
    BY <2>1, ShapeNext
  <2>5. AheadInv'
    BY <2>1, <2>2, AheadNext
  <2>. QED BY <2>3, <2>4, <2>5
<1>3. I => OneIndexPerFolder
  BY AheadGivesOneIndex
<1>. QED BY <1>1, <1>2, <1>3, PTL DEF Spec

\* So in such trees no run ever leaves a surplus copy.
THEOREM NoSurplusEver ==
  ASSUME ModesTell, TreesOneWayDown
  PROVE  Spec => []NoSurplus
<1>1. Spec => []OneIndexPerFolder
  BY OneIndexForEachFolder
<1>2. Spec /\ []OneIndexPerFolder => []NoSurplus
  BY NoSurplusFromOneIndex
<1>. QED BY <1>1, <1>2, PTL
==============================================================================
