----------------------------- MODULE Allocator -----------------------------
(***************************************************************************)
(* siheap_malloc, siheap_mfree, siheap_mrealloc and siheap_sweep at work:  *)
(* the steps in which the operators of HeapBlocks are applied to the heap. *)
(*                                                                         *)
(* A request that no free block satisfies runs the collector in the middle *)
(* of siheap_malloc_find, and the collector frees blocks while it walks    *)
(* over them.  So the two walks, over the free list and over all blocks,   *)
(* are taken one block at a time.  What the collector marks is an input    *)
(* here, any set of used blocks; RefHeap says which are marked.            *)
(*                                                                         *)
(* Nothing makes sure that the block in the hands of siheap_mrealloc is    *)
(* marked: stream_reverse, for one, has its array in a C variable only.    *)
(* Such a block may be swept while it is being moved, and is then freed    *)
(* once more.  The model follows the code up to this second free           *)
(* (FreeTwice) and ends there, in the mode "broken".                       *)
(***************************************************************************)
EXTENDS HeapBlocks

CONSTANTS
  Requests,    \* sizes asked for: arguments of siheap_malloc, siheap_mrealloc
  HeaderSize   \* sizeof(siheap_header_t): the data of a block start after it

ASSUME RequestsAssumption == Requests \subseteq Nat \ {0}
ASSUME HeaderAssumption == HeaderSize \in Nat /\ HeaderSize + 2 = MinBlock

VARIABLES
  heap,    \* the blocks
  mode,    \* "run": the VM; "find", "sweep": inside siheap_malloc; "fault";
           \* "broken": a block has been freed twice
  want,    \* the size siheap_malloc_find looks for
  cur,     \* its cur pointer, or the curr pointer of siheap_sweep
  swept,   \* its sweeped flag
  marked,  \* the blocks whose flag_marked is set
  moving,  \* inside siheap_mrealloc: the block being moved, else NULL
  oldSize, \* its orig_size, else 0
  lost,    \* history: the block being moved has been swept
  kept     \* history: the blocks that were marked when this sweep began

search == <<mode, want, cur, swept, moving, oldSize, lost>>
vars == <<heap, search, marked, kept>>

\* siheap_malloc has returned.
Return(m) ==
  /\ mode' = m
  /\ want' = 0
  /\ cur' = NULL
  /\ swept' = FALSE
  /\ moving' = NULL
  /\ oldSize' = 0
  /\ lost' = FALSE

Init ==
  /\ heap = InitHeap
  /\ mode = "run"
  /\ want = 0
  /\ cur = NULL
  /\ swept = FALSE
  /\ marked = {}
  /\ moving = NULL
  /\ oldSize = 0
  /\ lost = FALSE
  /\ kept = {}

\* A request larger than the heap is refused before any search; another one
\* starts the walk over the free list of h.
StartFind(h, n, m, size) ==
  /\ want' = n
  /\ moving' = m
  /\ oldSize' = size
  /\ swept' = FALSE
  /\ lost' = FALSE
  /\ IF n > HeapSize
     THEN mode' = "fault" /\ cur' = NULL
     ELSE mode' = "find" /\ cur' = h.first

\* siheap_malloc.
Malloc(n) ==
  /\ mode = "run"
  /\ StartFind(heap, IF n < MinBlock THEN MinBlock ELSE n, NULL, 0)
  /\ UNCHANGED <<heap, marked, kept>>

\* siheap_malloc_find passes over a block that is too small.
FindStep ==
  /\ mode = "find"
  /\ cur # NULL
  /\ heap.size[cur] < want
  /\ cur' = heap.nf[cur]
  /\ UNCHANGED <<heap, mode, want, swept, marked, moving, oldSize, lost, kept>>

\* It stops at the first that is large enough.
Hit ==
  /\ mode = "find"
  /\ cur # NULL
  /\ heap.size[cur] >= want

\* This is allocated.  For siheap_mrealloc, the old block is freed now if it was
\* not freed before.
FindHit ==
  /\ Hit
  /\ ~ lost
  /\ LET h == MallocSplit(heap, cur, want)
     IN  heap' = IF moving # NULL /\ moving \in heap.used
                 THEN MFreeInner(h, moving) ELSE h
  /\ Return("run")
  /\ UNCHANGED <<marked, kept>>

\* It is also freed now if the collector has swept it meanwhile.  (What this
\* does to a block that the sweep has merged into the one before it depends on
\* what has been written over its header, and is left out.)
FreeTwice ==
  /\ Hit
  /\ lost
  /\ LET h == MallocSplit(heap, cur, want)
     IN  heap' = IF moving \in h.starts THEN MFreeInner(h, moving) ELSE h
  /\ Return("broken")
  /\ UNCHANGED <<marked, kept>>

\* Mutant of FindMiss: sweeped is not set, so that the heap is swept again.
FindMiss_Again ==
  /\ mode = "find"
  /\ cur = NULL
  /\ mode' = "sweep"
  /\ cur' = 0
  /\ marked' \in SUBSET heap.used
  /\ kept' = marked'
  /\ UNCHANGED <<heap, want, swept, moving, oldSize, lost>>

\* At the end of the list: the collector, and then a second walk; or a fault.
FindMiss ==
  /\ mode = "find"
  /\ cur = NULL
  /\ IF swept
     THEN mode' = "fault" /\ UNCHANGED <<cur, swept, marked, kept>>
     ELSE /\ mode' = "sweep"
          /\ cur' = 0
          /\ swept' = TRUE
          /\ marked' \in SUBSET heap.used
          /\ kept' = marked'
  /\ UNCHANGED <<heap, want, moving, oldSize, lost>>

\* Mutant of SweepKeep: the mark stays.
SweepKeep_MarkStays ==
  /\ mode = "sweep"
  /\ cur \in heap.starts
  /\ cur \in FreeBlocks(heap) \/ cur \in marked
  /\ cur' = NextBlock(heap, cur)
  /\ UNCHANGED <<heap, mode, want, swept, marked, moving, oldSize, lost, kept>>

\* siheap_sweep passes over a free block, or over a marked one, whose mark it
\* clears.
SweepKeep ==
  /\ mode = "sweep"
  /\ cur \in heap.starts
  /\ cur \in FreeBlocks(heap) \/ cur \in marked
  /\ marked' = marked \ {cur}
  /\ cur' = NextBlock(heap, cur)
  /\ UNCHANGED <<heap, mode, want, swept, moving, oldSize, lost, kept>>

\* It frees an unmarked one, and goes on after the block that this gave.
SweepFree ==
  /\ mode = "sweep"
  /\ cur \in heap.used \ marked
  /\ heap' = MFreeInner(heap, cur)
  /\ cur' = NextBlock(heap', MergedBlock(heap, cur))
  /\ lost' = (lost \/ cur = moving)
  /\ UNCHANGED <<mode, want, swept, marked, moving, oldSize, kept>>

\* Before it is freed, its destructor (siheap_mdestroy) drops the references it
\* holds, which may free other unmarked blocks that the sweep has not reached.
\* (Not the one being moved, whose refcount siheap_mrealloc has cleared.)
SweepDestroy(b) ==
  /\ mode = "sweep"
  /\ cur \in heap.used \ marked
  /\ b \in heap.used \ marked
  /\ b > cur
  /\ b # moving
  /\ heap' = MFreeInner(heap, b)
  /\ UNCHANGED <<search, marked, kept>>

SweepEnd ==
  /\ mode = "sweep"
  /\ ~ InRange(cur)
  /\ mode' = "find"
  /\ cur' = heap.first
  /\ kept' = {}
  /\ UNCHANGED <<heap, want, swept, marked, moving, oldSize, lost>>

\* siheap_mfree, from siheap_deref: the reference count has become zero.
Free(b) ==
  /\ mode = "run"
  /\ b \in heap.used
  /\ heap' = MFreeInner(heap, b)
  /\ UNCHANGED <<search, marked, kept>>

\* siheap_mrealloc to a larger size: in place if the next block allows it.
Grow(e, n) ==
  /\ mode = "run"
  /\ e \in heap.used
  /\ n > heap.size[e]
  /\ n <= HeapSize
  /\ CanGrow(heap, e, n)
  /\ heap' = GrowInPlace(heap, e, n)
  /\ UNCHANGED <<search, marked, kept>>

\* Otherwise to another block, which is looked for after the old one is freed
\* (free_first, when the previous block is free) or before.
Move(e, n) ==
  /\ mode = "run"
  /\ e \in heap.used
  /\ n > heap.size[e]
  /\ ~ CanGrow(heap, e, n)
  /\ heap' = IF PrevIsFree(heap, e) /\ n <= HeapSize THEN MFreeInner(heap, e) ELSE heap
  /\ StartFind(heap', n, e, heap.size[e])
  /\ UNCHANGED <<marked, kept>>

\* pynter_run starts over with an empty heap, whatever the last run left.
NewRun ==
  /\ mode \in {"run", "fault", "broken"}
  /\ heap' = InitHeap
  /\ Return("run")
  /\ marked' = {}
  /\ kept' = {}

Search == FindStep \/ FindHit \/ FreeTwice \/ FindMiss
Sweep == SweepKeep \/ SweepFree \/ SweepEnd \/ (\E b \in Addr : SweepDestroy(b))

Next ==
  \/ \E n \in Requests : Malloc(n)
  \/ Search
  \/ Sweep
  \/ \E b \in Addr : Free(b)
  \/ \E e \in Addr, n \in Requests : Grow(e, n) \/ Move(e, n)
  \/ NewRun

\* The walks are loops in C functions that nothing interrupts: they go on.
Fairness == WF_vars(Search) /\ WF_vars(Sweep)

Spec == Init /\ [][Next]_vars
FairSpec == Spec /\ Fairness
-----------------------------------------------------------------------------
(***************************************************************************)
(* Properties                                                              *)
(***************************************************************************)

TypeOK ==
  /\ mode # "broken" => HeapType(heap)
  /\ mode \in {"run", "find", "sweep", "fault", "broken"}
  /\ want \in Nat
  /\ cur \in Addr \cup {NULL, HeapSize}
  /\ swept \in BOOLEAN
  /\ marked \in SUBSET Addr
  /\ moving \in Pointer
  /\ oldSize \in Nat
  /\ lost \in BOOLEAN
  /\ kept \in SUBSET Addr

\* Whatever is allocated, freed, grown, moved or swept, the blocks tile the
\* heap, their back pointers agree with their sizes, free neighbours are merged
\* and the free list is a doubly linked list of all free blocks: what every
\* routine of heap.h and siheap_mrealloc relies on.  This holds until a block is
\* freed twice, also while the search goes on after its first free.
HeapOK == mode # "broken" => WellFormed(heap)

\* The sweep pointer never falls inside a block that was merged under it; a
\* marked block is never freed, and no unmarked one is left behind.
SweepExact ==
  /\ mode # "sweep" => marked = {}
  /\ mode = "sweep" =>
       /\ cur \in heap.starts \cup {HeapSize}
       /\ kept \subseteq heap.used
       /\ marked = {b \in kept : b >= cur}
       /\ {b \in heap.used : b < cur} \subseteq kept

\* The heap implements an arena: see Arena.  A request is refused only when,
\* after a collection, that many units in a row are nowhere free, which takes
\* the merging of free blocks and a free list with all of them on it.  The only
\* step that is none of an arena's is the second free of a block.
ArenaView == INSTANCE Arena WITH
  owned <- [b \in heap.used |-> heap.size[b]],
  asked <- IF mode = "run" THEN 0 ELSE want,
  refused <- mode = "fault"
ImplementsArena == ArenaView!Init /\ [][ArenaView!Next \/ FreeTwice]_(ArenaView!arenaVars)

\* heap.h:338: when a block is freed it is not on the free list yet, so that the
\* list does not become a ring.
NoRing == \A b \in FreeBlocks(heap) : heap.nf[b] # b

\* siheap_malloc returns or faults: the walk over the free list and the sweep
\* come to an end.
SearchEnds == mode \in {"find", "sweep"} ~> mode \in {"run", "fault", "broken"}

\* memory.c:329-332: the block is freed before the new one is allocated only where
\* the array data, which are still to be moved, are not overwritten.  Written are
\* the header of the allocated block and the new free block after it.
MoveKeepsData ==
  [][ FindHit /\ moving # NULL =>
        LET data == moving + HeaderSize .. moving + oldSize - 1
            rest == IF want + MinBlock <= heap.size[cur]
                    THEN cur + want .. cur + want + MinBlock - 1 ELSE {}
        IN  data \cap (cur .. cur + HeaderSize - 1 \cup rest) = {} ]_vars
=============================================================================
