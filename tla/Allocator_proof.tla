--------------------------- MODULE Allocator_proof ---------------------------
(***************************************************************************)
(* The heap is well formed in every state of Allocator in which no block   *)
(* has been freed twice, also between two steps of a walk over the free    *)
(* list or of a sweep; and Allocator implements Arena but for such a free. *)
(***************************************************************************)
EXTENDS Allocator, HeapBlocks_proof

USE SizeAssumption, NullAssumption, RequestsAssumption

\* What a walk over the free list relies on: its cursor is on a free block, and
\* what it looks for is large enough to be a block and no larger than the heap.
FindOK ==
  /\ mode \in {"find", "sweep"} => want >= MinBlock /\ want <= HeapSize
  /\ mode = "find" => cur \in FreeBlocks(heap) \cup {NULL}

Inv == TypeOK /\ HeapOK /\ SweepExact /\ FindOK

-----------------------------------------------------------------------------
(***************************************************************************)
(* What the operators of HeapBlocks do to a well-formed heap               *)
(***************************************************************************)

LEMMA SizesAreNat ==
  ASSUME NEW h, Loose(h)
  PROVE  \A b \in h.starts : h.size[b] \in Nat
<1>1. Layout(h)  BY LooseFacts
<1> QED  BY <1>1, LayoutFacts

LEMMA WellFormedFacts ==
  ASSUME NEW h, WellFormed(h)
  PROVE  /\ Loose(h) /\ NoSliver(h) /\ Layout(h) /\ HeapType(h)
         /\ h.used \in SUBSET h.starts
         /\ h.starts \in SUBSET Addr
         /\ FreeBlocks(h) = h.starts \ h.used
         /\ h.first \in FreeBlocks(h) \cup {NULL}
         /\ \A b \in FreeBlocks(h) : h.nf[b] \in FreeBlocks(h) \cup {NULL}
         /\ \A b \in h.starts : /\ h.size[b] \in Nat /\ h.size[b] >= MinBlock
                                /\ NextBlock(h, b) \in h.starts \cup {HeapSize}
         /\ 0 \in h.starts
<1>1. Loose(h) /\ NoSliver(h) /\ HeapType(h)
  BY WellFormedParts DEF WellFormed
<1>2. /\ h.used \in SUBSET h.starts /\ Layout(h) /\ ListOK(h)
      /\ FreeBlocks(h) = h.starts \ h.used
  BY <1>1, LooseFacts
<1>3. /\ h.first \in FreeBlocks(h) \cup {NULL}
      /\ \A b \in FreeBlocks(h) : h.nf[b] \in FreeBlocks(h) \cup {NULL}
  BY <1>2 DEF ListOK, ListLinked
<1>4. \A b \in h.starts : h.size[b] \in Nat  BY <1>2, LayoutFacts
<1>5. /\ h.starts \in SUBSET Addr /\ 0 \in h.starts
      /\ \A b \in h.starts : NextBlock(h, b) \in h.starts \cup {HeapSize}
  BY <1>2 DEF Layout, Tiled
<1> QED  BY <1>1, <1>2, <1>3, <1>4, <1>5 DEF NoSliver

LEMMA FreeOK ==
  ASSUME NEW h, WellFormed(h), NEW e \in h.used
  PROVE  /\ WellFormed(MFreeInner(h, e))
         /\ Freed(h, MFreeInner(h, e), e, MergedBlock(h, e))
<1> DEFINE g == MFreeInner(h, e)
<1> HIDE DEF g
<1>1. Freed(h, g, e, MergedBlock(h, e))
  BY WellFormedFacts, MFreeInnerOK DEF g
<1>2. Loose(g) /\ g.starts \subseteq h.starts /\ \A b \in g.starts : g.size[b] >= h.size[b]
  BY <1>1 DEF Freed
<1>3. \A b \in g.starts : g.size[b] \in Nat
  BY <1>2, SizesAreNat
<1>4. \A b \in g.starts : h.size[b] \in Nat /\ h.size[b] >= MinBlock
  <2>1. \A b \in h.starts : h.size[b] \in Nat /\ h.size[b] >= MinBlock
    BY WellFormedFacts
  <2> QED  BY <1>2, <2>1
<1>5. NoSliver(g)
  BY <1>2, <1>3, <1>4 DEF NoSliver, SizeAssumption
<1> QED  BY <1>1, <1>2, <1>5, WellFormedParts DEF g

LEMMA AllocateOK ==
  ASSUME NEW h, WellFormed(h), NEW c \in FreeBlocks(h),
         NEW n \in Nat, n >= MinBlock, n <= h.size[c]
  PROVE  /\ WellFormed(MallocSplit(h, c, n))
         /\ MallocSplit(h, c, n).used = h.used \cup {c}
<1> DEFINE g == MallocSplit(h, c, n)
<1> HIDE DEF g
<1>0. Loose(h) /\ NoSliver(h)  BY WellFormedFacts
<1>1. 0 < n  BY DEF SizeAssumption
<1>2. /\ Loose(g)
      /\ g.used = h.used \cup {c} /\ c \in g.starts
      /\ n <= g.size[c]
      /\ NoSliver(h) => \A b \in g.starts \ {c} : g.size[b] >= MinBlock
  BY <1>0, <1>1, MallocSplitOK DEF g
<1>3. g.size[c] \in Nat
  BY <1>2, SizesAreNat
<1>4. NoSliver(g)
  <2>1. \A b \in g.starts \ {c} : g.size[b] >= MinBlock  BY <1>0, <1>2
  <2>2. g.size[c] >= MinBlock  BY <1>2, <1>3 DEF SizeAssumption
  <2> QED  BY <2>1, <2>2 DEF NoSliver
<1> QED  BY <1>2, <1>4, WellFormedParts DEF g

-----------------------------------------------------------------------------
(***************************************************************************)
(* The invariant                                                           *)
(***************************************************************************)

\* The state in which the VM runs, and what it needs of the heap.
Running ==
  /\ mode = "run" /\ want = 0 /\ cur = NULL /\ swept = FALSE
  /\ moving = NULL /\ oldSize = 0 /\ lost = FALSE /\ marked = {} /\ kept \in SUBSET Addr

LEMMA RunningOK == WellFormed(heap) /\ Running => Inv
<1> SUFFICES ASSUME WellFormed(heap), Running PROVE Inv
  OBVIOUS
<1>1. TypeOK  BY DEF Running, TypeOK, WellFormed, Pointer
<1>2. SweepExact  BY DEF Running, SweepExact
<1>3. FindOK  BY DEF Running, FindOK
<1> QED  BY <1>1, <1>2, <1>3 DEF Inv, HeapOK

LEMMA NullFacts == /\ HeapSize \in Nat /\ NULL \notin Addr /\ NULL # HeapSize
                   /\ Addr \subseteq Nat /\ MinBlock \in Nat /\ MinBlock > 0
                   /\ HeapSize >= MinBlock /\ HeapSize \notin Addr
BY DEF SizeAssumption, NullAssumption, Addr

\* The start of a walk over the free list of the heap as it now is.
LEMMA StartFindOK ==
  ASSUME WellFormed(heap'), NEW n \in Nat, n >= MinBlock,
         NEW m \in Pointer, NEW size \in Nat,
         StartFind(heap', n, m, size), marked' = {}, kept' \in SUBSET Addr
  PROVE  Inv'
<1>1. /\ heap'.first \in FreeBlocks(heap') \cup {NULL}
      /\ FreeBlocks(heap') \subseteq Addr
      /\ HeapType(heap')
  <2>1. /\ heap'.first \in FreeBlocks(heap') \cup {NULL}
        /\ FreeBlocks(heap') = heap'.starts \ heap'.used
        /\ heap'.starts \in SUBSET Addr
        /\ HeapType(heap')
    BY WellFormedFacts
  <2> QED  BY <2>1
<1>2. /\ want' = n /\ moving' = m /\ oldSize' = size /\ swept' = FALSE /\ lost' = FALSE
      /\ n > HeapSize => mode' = "fault" /\ cur' = NULL
      /\ ~ (n > HeapSize) => mode' = "find" /\ cur' = heap'.first
  BY DEF StartFind
<1>3. TypeOK'
  BY <1>1, <1>2 DEF TypeOK
<1>4. SweepExact'
  BY <1>2 DEF SweepExact
<1>5. FindOK'
  BY <1>1, <1>2, NullFacts DEF FindOK
<1> QED  BY <1>3, <1>4, <1>5 DEF Inv, HeapOK

LEMMA MallocStep == ASSUME Inv, NEW n \in Requests, Malloc(n) PROVE Inv'
<1> DEFINE k == IF n < MinBlock THEN MinBlock ELSE n
<1>1. n \in Nat /\ k \in Nat /\ k >= MinBlock
  BY NullFacts DEF RequestsAssumption
<1>2. /\ heap' = heap /\ marked' = marked /\ kept' = kept
      /\ StartFind(heap, k, NULL, 0)
  BY DEF Malloc
<1>3. WellFormed(heap') /\ marked' = {} /\ kept' \in SUBSET Addr /\ NULL \in Pointer
  BY <1>2 DEF Malloc, Inv, HeapOK, TypeOK, SweepExact, Pointer
<1>4. StartFind(heap', k, NULL, 0)
  BY <1>2
<1> QED  BY <1>1, <1>3, <1>4, StartFindOK

LEMMA FindStepStep == ASSUME Inv, FindStep PROVE Inv'
<1>1. WellFormed(heap) /\ cur \in FreeBlocks(heap)
  BY DEF Inv, HeapOK, FindOK, FindStep
<1>2. heap.nf[cur] \in FreeBlocks(heap) \cup {NULL} /\ FreeBlocks(heap) \subseteq Addr
  <2>1. /\ \A b \in FreeBlocks(heap) : heap.nf[b] \in FreeBlocks(heap) \cup {NULL}
        /\ FreeBlocks(heap) = heap.starts \ heap.used
        /\ heap.starts \in SUBSET Addr
    BY <1>1, WellFormedFacts
  <2> QED  BY <1>1, <2>1
<1> QED  BY <1>1, <1>2 DEF FindStep, Inv, TypeOK, HeapOK, SweepExact, FindOK

LEMMA FindHitStep == ASSUME Inv, FindHit PROVE Inv'
<1> DEFINE h == MallocSplit(heap, cur, want)
<1> HIDE DEF h
<1>1. /\ WellFormed(heap) /\ cur \in FreeBlocks(heap)
      /\ want \in Nat /\ want >= MinBlock /\ want <= heap.size[cur]
  <2>1. /\ WellFormed(heap) /\ cur \in FreeBlocks(heap)
        /\ want \in Nat /\ want >= MinBlock /\ heap.size[cur] >= want
    BY DEF Inv, HeapOK, FindOK, FindHit, Hit, TypeOK
  <2>2. heap.size[cur] \in Nat
    <3>1. FreeBlocks(heap) = heap.starts \ heap.used
          /\ \A b \in heap.starts : heap.size[b] \in Nat
      BY <2>1, WellFormedFacts
    <3> QED  BY <2>1, <3>1
  <2> QED  BY <2>1, <2>2
<1>2. WellFormed(h) /\ h.used = heap.used \cup {cur}
  BY <1>1, AllocateOK DEF h
<1>3. WellFormed(heap')
  <2>1. heap' = IF moving # NULL /\ moving \in heap.used
                THEN MFreeInner(h, moving) ELSE h
    BY DEF FindHit, h
  <2>2. moving \in heap.used => WellFormed(MFreeInner(h, moving))
    BY <1>2, FreeOK
  <2> QED  BY <1>2, <2>1, <2>2
<1>4. Running'
  BY DEF FindHit, Hit, Return, Running, Inv, TypeOK, SweepExact
<1>5. (WellFormed(heap) /\ Running => Inv)'  BY RunningOK, PTL
<1> QED  BY <1>3, <1>4, <1>5

\* After the second free of a block nothing is known of the heap.
LEMMA FreeTwiceStep == ASSUME Inv, FreeTwice PROVE Inv'
<1>1. /\ mode = "find" /\ mode' = "broken" /\ want' = 0 /\ cur' = NULL /\ swept' = FALSE
      /\ moving' = NULL /\ oldSize' = 0 /\ lost' = FALSE /\ marked' = marked /\ kept' = kept
  BY DEF FreeTwice, Hit, Return
<1>2. TypeOK'  BY <1>1 DEF Inv, TypeOK, Pointer
<1>3. SweepExact' /\ FindOK'  BY <1>1 DEF Inv, SweepExact, FindOK
<1> QED  BY <1>1, <1>2, <1>3 DEF Inv, HeapOK

LEMMA FindMissStep == ASSUME Inv, FindMiss PROVE Inv'
<1>1. WellFormed(heap) /\ heap' = heap /\ mode = "find"
  BY DEF FindMiss, Inv, HeapOK
<1>2. CASE swept
  BY <1>1, <1>2 DEF FindMiss, Inv, TypeOK, HeapOK, SweepExact, FindOK
<1>3. CASE ~ swept
  <2>1. /\ mode' = "sweep" /\ cur' = 0 /\ swept' = TRUE
        /\ marked' \in SUBSET heap.used /\ kept' = marked'
        /\ want' = want /\ moving' = moving /\ oldSize' = oldSize /\ lost' = lost
    BY <1>3 DEF FindMiss
  <2>2. heap.used \subseteq Addr /\ 0 \in heap.starts /\ 0 \in Addr /\ heap.used \subseteq heap.starts
    <3>1. heap.used \in SUBSET heap.starts /\ heap.starts \in SUBSET Addr /\ 0 \in heap.starts
      BY <1>1, WellFormedFacts
    <3> QED  BY <3>1
  <2>3. \A b \in heap.used : b >= 0 /\ ~ (b < 0)
    <3>1. \A b \in heap.used : b \in Nat  BY <2>2, NullFacts
    <3> QED  BY <3>1
  <2>4. TypeOK'
    BY <1>1, <2>1, <2>2 DEF Inv, TypeOK
  <2>5. SweepExact'
    BY <1>1, <2>1, <2>2, <2>3 DEF SweepExact
  <2>6. FindOK'
    BY <1>1, <2>1 DEF Inv, FindOK
  <2> QED  BY <1>1, <2>4, <2>5, <2>6 DEF Inv, HeapOK
<1> QED  BY <1>2, <1>3

LEMMA SweepKeepStep == ASSUME Inv, SweepKeep PROVE Inv'
<1>1. /\ WellFormed(heap) /\ heap' = heap /\ mode = "sweep" /\ mode' = "sweep"
      /\ cur \in heap.starts /\ (cur \in FreeBlocks(heap) \/ cur \in marked)
      /\ marked' = marked \ {cur} /\ cur' = NextBlock(heap, cur)
      /\ want' = want /\ swept' = swept /\ moving' = moving /\ oldSize' = oldSize
      /\ lost' \in BOOLEAN
      /\ kept' = kept
  BY DEF SweepKeep, Inv, HeapOK, TypeOK
<1>2. /\ heap.starts \subseteq Addr /\ heap.used \subseteq heap.starts
      /\ FreeBlocks(heap) = heap.starts \ heap.used
      /\ cur' \in heap.starts \cup {HeapSize}
      /\ Layout(heap)
  <2>1. /\ heap.starts \in SUBSET Addr /\ heap.used \in SUBSET heap.starts
        /\ FreeBlocks(heap) = heap.starts \ heap.used /\ Layout(heap)
        /\ \A b \in heap.starts : NextBlock(heap, b) \in heap.starts \cup {HeapSize}
    BY <1>1, WellFormedFacts
  <2> QED  BY <1>1, <2>1
<1>3. \A b \in heap.starts : b >= cur' <=> b >= cur /\ b # cur
  <2>1. /\ \A b \in heap.starts : b \in Nat /\ NextBlock(heap, b) \in Nat
        /\ cur < NextBlock(heap, cur)
        /\ \A b \in heap.starts : cur < b => NextBlock(heap, cur) <= b
    BY <1>1, <1>2, LayoutFacts
  <2> QED  BY <1>1, <2>1
<1>4. /\ kept \subseteq heap.used /\ marked = {b \in kept : b >= cur}
      /\ {b \in heap.used : b < cur} \subseteq kept
  BY <1>1 DEF Inv, SweepExact
<1>5. \A b \in heap.used : b < cur' => b \in kept
  <2> SUFFICES ASSUME NEW b \in heap.used, b < cur' PROVE b \in kept
    OBVIOUS
  <2>1. b \in Nat /\ cur \in Nat /\ cur' \in Nat  BY <1>1, <1>2, NullFacts
  <2>2. ~ (b >= cur')  BY <2>1
  <2>3. b < cur \/ b = cur  BY <1>2, <1>3, <2>1, <2>2
  <2> QED  BY <1>1, <1>2, <1>4, <2>3
<1>6. TypeOK'
  BY <1>1, <1>2 DEF Inv, TypeOK
<1>7. SweepExact'
  BY <1>1, <1>2, <1>3, <1>4, <1>5 DEF SweepExact
<1>8. FindOK'
  BY <1>1 DEF Inv, FindOK
<1> QED  BY <1>1, <1>6, <1>7, <1>8 DEF Inv, HeapOK

LEMMA SweepFreeStep == ASSUME Inv, SweepFree PROVE Inv'
<1> DEFINE q == MergedBlock(heap, cur)
<1> HIDE DEF q
<1>1. /\ WellFormed(heap) /\ mode = "sweep" /\ mode' = "sweep"
      /\ cur \in heap.used /\ cur \notin marked
      /\ heap' = MFreeInner(heap, cur) /\ cur' = NextBlock(heap', q)
      /\ want' = want /\ swept' = swept /\ moving' = moving /\ oldSize' = oldSize
      /\ lost' \in BOOLEAN
      /\ kept' = kept /\ marked' = marked
  BY DEF SweepFree, Inv, HeapOK, TypeOK, q
<1>2. /\ kept \subseteq heap.used /\ marked = {b \in kept : b >= cur}
      /\ {b \in heap.used : b < cur} \subseteq kept
  BY <1>1 DEF Inv, SweepExact
<1>3. WellFormed(heap') /\ Freed(heap, heap', cur, q)
  BY <1>1, FreeOK DEF q
<1>4. /\ heap'.used = heap.used \ {cur} /\ q \in FreeBlocks(heap')
      /\ q <= cur /\ cur < cur'
  BY <1>1, <1>3 DEF Freed
<1>5. /\ heap'.starts \subseteq Addr /\ heap'.used \subseteq heap'.starts
      /\ q \in heap'.starts /\ q \notin heap'.used
      /\ cur' \in heap'.starts \cup {HeapSize} /\ Layout(heap')
      /\ HeapType(heap')
  <2>1. /\ heap'.starts \in SUBSET Addr /\ heap'.used \in SUBSET heap'.starts
        /\ FreeBlocks(heap') = heap'.starts \ heap'.used /\ Layout(heap') /\ HeapType(heap')
        /\ \A b \in heap'.starts : NextBlock(heap', b) \in heap'.starts \cup {HeapSize}
    BY <1>3, WellFormedFacts
  <2> QED  BY <1>1, <1>4, <2>1
<1>6. cur \in Nat /\ cur' \in Nat /\ q \in Nat /\ heap'.used \subseteq Nat
  <2>1. cur \in heap.starts /\ heap.starts \subseteq Addr
    <3>1. heap.used \in SUBSET heap.starts /\ heap.starts \in SUBSET Addr
      BY <1>1, WellFormedFacts
    <3> QED  BY <1>1, <3>1
  <2> QED  BY <1>5, <2>1, NullFacts
<1>7. \A b \in heap'.used : b < q \/ b >= cur'
  <2>1. \A b \in heap'.starts : q < b => cur' <= b
    BY <1>1, <1>5, LayoutFacts
  <2> QED  BY <1>5, <1>6, <2>1
<1>8. \A b \in kept : b >= cur <=> b >= cur'
  <2> SUFFICES ASSUME NEW b \in kept PROVE b >= cur <=> b >= cur'
    OBVIOUS
  <2>1. b \in heap.used  BY <1>2
  <2>2. CASE b = cur
    <3>1. b \in marked  BY <1>2, <1>6, <2>2
    <3> QED  BY <1>1, <2>2, <3>1
  <2>3. CASE b # cur
    <3>1. b \in heap'.used /\ b \in Nat  BY <1>4, <1>6, <2>1, <2>3
    <3> QED  BY <1>4, <1>6, <1>7, <3>1
  <2> QED  BY <2>2, <2>3
<1>9. \A b \in heap'.used : b < cur' => b \in kept
  <2> SUFFICES ASSUME NEW b \in heap'.used, b < cur' PROVE b \in kept
    OBVIOUS
  <2>1. b < q /\ b \in Nat  BY <1>6, <1>7
  <2>2. b < cur /\ b \in heap.used  BY <1>4, <1>6, <2>1
  <2> QED  BY <1>2, <2>2
<1>10. kept \subseteq heap'.used
  <2>1. cur \notin kept  BY <1>1, <1>2, <1>6
  <2> QED  BY <1>2, <1>4, <2>1
<1>11. TypeOK'
  BY <1>1, <1>5 DEF Inv, TypeOK
<1>12. SweepExact'
  BY <1>1, <1>2, <1>5, <1>8, <1>9, <1>10 DEF SweepExact
<1>13. FindOK'
  BY <1>1 DEF Inv, FindOK
<1> QED  BY <1>3, <1>11, <1>12, <1>13 DEF Inv, HeapOK

LEMMA SweepDestroyStep == ASSUME Inv, NEW b \in Addr, SweepDestroy(b) PROVE Inv'
<1>1. /\ WellFormed(heap) /\ mode = "sweep" /\ mode' = "sweep"
      /\ cur \in heap.used /\ b \in heap.used /\ b \notin marked /\ b > cur
      /\ heap' = MFreeInner(heap, b) /\ cur' = cur
      /\ want' = want /\ swept' = swept /\ moving' = moving /\ oldSize' = oldSize
      /\ lost' \in BOOLEAN
      /\ kept' = kept /\ marked' = marked
  BY DEF SweepDestroy, Inv, HeapOK, TypeOK, search
<1>2. /\ kept \subseteq heap.used /\ marked = {e \in kept : e >= cur}
      /\ {e \in heap.used : e < cur} \subseteq kept
  BY <1>1 DEF Inv, SweepExact
<1>3. WellFormed(heap') /\ heap'.used = heap.used \ {b}
  BY <1>1, FreeOK DEF Freed
<1>4. heap'.used \subseteq heap'.starts /\ HeapType(heap')
  <2>1. heap'.used \in SUBSET heap'.starts /\ HeapType(heap')
    BY <1>3, WellFormedFacts
  <2> QED  BY <2>1
<1>5. b \in Nat /\ cur \in Nat
  <2>1. heap.used \in SUBSET heap.starts /\ heap.starts \in SUBSET Addr
    BY <1>1, WellFormedFacts
  <2> QED  BY <1>1, <2>1, NullFacts
<1>6. kept \subseteq heap'.used /\ cur \in heap'.used
  BY <1>1, <1>2, <1>3, <1>5
<1>7. TypeOK'
  BY <1>1, <1>4 DEF Inv, TypeOK
<1>8. SweepExact'
  BY <1>1, <1>2, <1>3, <1>4, <1>6 DEF SweepExact
<1>9. FindOK'
  BY <1>1 DEF Inv, FindOK
<1> QED  BY <1>3, <1>7, <1>8, <1>9 DEF Inv, HeapOK

LEMMA SweepEndStep == ASSUME Inv, SweepEnd PROVE Inv'
<1>1. /\ WellFormed(heap) /\ heap' = heap /\ mode = "sweep" /\ mode' = "find"
      /\ ~ (cur < HeapSize) /\ cur' = heap.first /\ kept' = {} /\ marked' = marked
      /\ want' = want /\ swept' = swept /\ moving' = moving /\ oldSize' = oldSize
      /\ lost' \in BOOLEAN
  BY DEF SweepEnd, InRange, Inv, HeapOK, TypeOK
<1>2. /\ heap.first \in FreeBlocks(heap) \cup {NULL}
      /\ FreeBlocks(heap) \subseteq Addr /\ heap.starts \subseteq Addr
      /\ heap.used \subseteq heap.starts
  <2>1. /\ heap.first \in FreeBlocks(heap) \cup {NULL}
        /\ FreeBlocks(heap) = heap.starts \ heap.used
        /\ heap.starts \in SUBSET Addr /\ heap.used \in SUBSET heap.starts
    BY <1>1, WellFormedFacts
  <2> QED  BY <2>1
<1>3. cur = HeapSize
  <2>1. cur \in heap.starts \cup {HeapSize}  BY <1>1 DEF Inv, SweepExact
  <2>2. \A b \in heap.starts : b < HeapSize  BY <1>2 DEF Addr, SizeAssumption
  <2> QED  BY <1>1, <2>1, <2>2
<1>4. marked = {}
  <2>1. kept \subseteq heap.used /\ marked = {b \in kept : b >= cur}
    BY <1>1 DEF Inv, SweepExact
  <2>2. \A b \in heap.starts : ~ (b >= HeapSize)  BY <1>2 DEF Addr, SizeAssumption
  <2> QED  BY <1>2, <1>3, <2>1, <2>2
<1>5. TypeOK'
  BY <1>1, <1>2 DEF Inv, TypeOK
<1>6. SweepExact' /\ FindOK'
  BY <1>1, <1>2, <1>4 DEF Inv, SweepExact, FindOK
<1> QED  BY <1>1, <1>5, <1>6 DEF Inv, HeapOK

\* A step of the VM, which leaves it running, keeps the invariant when it keeps
\* the heap well formed.
LEMMA RunStep ==
  ASSUME Inv, mode = "run", WellFormed(heap'), UNCHANGED <<search, marked, kept>>
  PROVE  Inv'
<1>1. HeapType(heap')  BY DEF WellFormed
<1>2. TypeOK'  BY <1>1 DEF Inv, TypeOK, search
<1>3. SweepExact' /\ FindOK'  BY DEF Inv, SweepExact, FindOK, search
<1> QED  BY <1>2, <1>3 DEF Inv, HeapOK

LEMMA FreeStep == ASSUME Inv, NEW b \in Addr, Free(b) PROVE Inv'
<1>1. /\ mode = "run" /\ b \in heap.used /\ heap' = MFreeInner(heap, b)
      /\ UNCHANGED <<search, marked, kept>>
  BY DEF Free
<1>2. WellFormed(heap')  BY <1>1, FreeOK DEF Inv, HeapOK
<1> QED  BY <1>1, <1>2, RunStep

LEMMA GrowStep ==
  ASSUME Inv, NEW e \in Addr, NEW n \in Requests, Grow(e, n) PROVE Inv'
<1>1. /\ mode = "run" /\ e \in heap.used /\ n > heap.size[e] /\ CanGrow(heap, e, n)
      /\ heap' = GrowInPlace(heap, e, n)
      /\ UNCHANGED <<search, marked, kept>>
  BY DEF Grow
<1>2. Loose(heap) /\ NoSliver(heap) /\ n \in Nat
  BY <1>1, WellFormedFacts DEF Inv, HeapOK, RequestsAssumption
<1>3. heap.size[e] < n
  <2>1. heap.used \in SUBSET heap.starts  BY <1>2, LooseFacts
  <2>2. heap.size[e] \in Nat  BY <1>1, <1>2, <2>1, SizesAreNat
  <2> QED  BY <1>1, <1>2, <2>2
<1>4. Loose(heap') /\ (NoSliver(heap) => NoSliver(heap'))
  BY <1>1, <1>2, <1>3, GrowInPlaceOK
<1>5. WellFormed(heap')  BY <1>2, <1>4, WellFormedParts
<1> QED  BY <1>1, <1>5, RunStep

LEMMA MoveStep ==
  ASSUME Inv, NEW e \in Addr, NEW n \in Requests, Move(e, n) PROVE Inv'
<1>1. /\ mode = "run" /\ e \in heap.used /\ n > heap.size[e]
      /\ heap' = IF PrevIsFree(heap, e) /\ n <= HeapSize
                 THEN MFreeInner(heap, e) ELSE heap
      /\ StartFind(heap', n, e, heap.size[e])
      /\ marked' = marked /\ kept' = kept
  BY DEF Move
<1>2. WellFormed(heap)  BY <1>1 DEF Inv, HeapOK
<1>3. WellFormed(heap')  BY <1>1, <1>2, FreeOK
<1>4. heap.size[e] \in Nat /\ heap.size[e] >= MinBlock
  <2>1. /\ heap.used \in SUBSET heap.starts
        /\ \A b \in heap.starts : heap.size[b] \in Nat /\ heap.size[b] >= MinBlock
    BY <1>2, WellFormedFacts
  <2> QED  BY <1>1, <2>1
<1>5. n \in Nat /\ n >= MinBlock
  <2>1. n \in Nat  BY DEF RequestsAssumption
  <2> QED  BY <1>1, <1>4, <2>1, NullFacts
<1>6. marked' = {} /\ kept' \in SUBSET Addr /\ e \in Pointer
  BY <1>1 DEF Inv, TypeOK, SweepExact, Pointer
<1> QED  BY <1>1, <1>3, <1>4, <1>5, <1>6, StartFindOK

LEMMA NewRunStep == ASSUME Inv, NewRun PROVE Inv'
<1>1. WellFormed(heap')  BY InitHeapOK DEF NewRun
<1>2. Running'  BY DEF NewRun, Return, Running
<1>3. (WellFormed(heap) /\ Running => Inv)'  BY RunningOK, PTL
<1> QED  BY <1>1, <1>2, <1>3

-----------------------------------------------------------------------------
(***************************************************************************)
(* The theorems                                                            *)
(***************************************************************************)

LEMMA InitOK == Init => Inv
<1> SUFFICES ASSUME Init PROVE Inv
  OBVIOUS
<1>1. WellFormed(heap)  BY InitHeapOK DEF Init
<1>2. Running  BY DEF Init, Running
<1> QED  BY <1>1, <1>2, RunningOK

LEMMA NextOK == Inv /\ [Next]_vars => Inv'
<1> SUFFICES ASSUME Inv, [Next]_vars PROVE Inv'
  OBVIOUS
<1>1. CASE \E n \in Requests : Malloc(n)  BY <1>1, MallocStep
<1>2. CASE Search
  BY <1>2, FindStepStep, FindHitStep, FreeTwiceStep, FindMissStep DEF Search
<1>3. CASE Sweep
  BY <1>3, SweepKeepStep, SweepFreeStep, SweepEndStep, SweepDestroyStep DEF Sweep
<1>4. CASE \E b \in Addr : Free(b)  BY <1>4, FreeStep
<1>5. CASE \E e \in Addr, n \in Requests : Grow(e, n) \/ Move(e, n)
  BY <1>5, GrowStep, MoveStep
<1>6. CASE NewRun  BY <1>6, NewRunStep
<1>7. CASE UNCHANGED vars
  BY <1>7 DEF vars, search, Inv, TypeOK, HeapOK, SweepExact, FindOK
<1> QED  BY <1>1, <1>2, <1>3, <1>4, <1>5, <1>6, <1>7 DEF Next

\* Everything the invariant says, for every size of the heap and every set of
\* requests.
THEOREM AllocatorInvariant == Spec => []Inv
BY InitOK, NextOK, PTL DEF Spec

\* The variables of the allocator keep their types.
THEOREM AllocatorTypes == Spec => []TypeOK
<1>1. Inv => TypeOK  BY DEF Inv
<1> QED  BY <1>1, AllocatorInvariant, PTL

\* siheap_malloc, siheap_mfree, siheap_mrealloc and siheap_sweep keep the heap
\* tiled by blocks, coalesced, and its free list linked and complete, until
\* siheap_mrealloc frees a block that was swept while it was being moved.
THEOREM HeapAlwaysOK == Spec => []HeapOK
<1>1. Inv => HeapOK  BY DEF Inv
<1> QED  BY <1>1, AllocatorInvariant, PTL

\* siheap_sweep, which walks over blocks that are merged under its cursor, frees
\* every unmarked block and no marked one.
THEOREM SweepAlwaysExact == Spec => []SweepExact
<1>1. Inv => SweepExact  BY DEF Inv
<1> QED  BY <1>1, AllocatorInvariant, PTL

-----------------------------------------------------------------------------
(***************************************************************************)
(* Allocator implements Arena: what siheap_malloc, siheap_mfree,           *)
(* siheap_mrealloc and siheap_sweep do to blocks and lists is, for their   *)
(* callers, handing out and taking back extents of one arena.              *)
(***************************************************************************)

\* The extents that the blocks in use make up.
Extents(h) == [b \in h.used |-> h.size[b]]

\* The gaps between them (ArenaView!Gap, of any heap).
Vacant(h, a, n) ==
  /\ a + n <= HeapSize
  /\ \A b \in h.used : b + h.size[b] <= a \/ a + n <= b

-----------------------------------------------------------------------------
(***************************************************************************)
(* Gaps and free blocks                                                    *)
(***************************************************************************)

\* Where the blocks of a well-formed heap lie.
LEMMA BlockFacts ==
  ASSUME NEW h, WellFormed(h)
  PROVE  /\ h.used \subseteq h.starts
         /\ FreeBlocks(h) = h.starts \ h.used
         /\ \A b \in h.starts : /\ b \in Addr /\ b \in Nat
                                /\ h.size[b] \in Nat /\ h.size[b] > 0
                                /\ b + h.size[b] = NextBlock(h, b)
                                /\ NextBlock(h, b) <= HeapSize
                                /\ NextBlock(h, b) \in h.starts \cup {HeapSize}
         /\ \A b, c \in h.starts : b < c => NextBlock(h, b) <= c
         /\ \A a \in Addr : \E b \in h.starts : b <= a /\ a < NextBlock(h, b)
<1>1. /\ Layout(h) /\ h.used \in SUBSET h.starts /\ h.starts \in SUBSET Addr
      /\ FreeBlocks(h) = h.starts \ h.used
      /\ \A b \in h.starts : NextBlock(h, b) \in h.starts \cup {HeapSize}
  BY WellFormedFacts
<1>2. \A a \in Addr : \E b \in h.starts : b <= a /\ a < NextBlock(h, b)
  BY <1>1 DEF Layout, Tiled
<1> QED  BY <1>1, <1>2, LayoutFacts

\* A used block fills its own gap among the others.
LEMMA UsedVacant ==
  ASSUME NEW h, WellFormed(h), NEW c \in h.used, NEW b \in h.used, b # c
  PROVE  b + h.size[b] <= c \/ c + h.size[c] <= b
<1>1. /\ b \in h.starts /\ c \in h.starts /\ b \in Nat /\ c \in Nat
      /\ b + h.size[b] = NextBlock(h, b) /\ c + h.size[c] = NextBlock(h, c)
  BY BlockFacts
<1>2. (b < c => NextBlock(h, b) <= c) /\ (c < b => NextBlock(h, c) <= b)
  BY <1>1, BlockFacts
<1> QED  BY <1>1, <1>2

\* A gap lies within one free block: free neighbours are merged.
LEMMA VacantInFree ==
  ASSUME NEW h, WellFormed(h), NEW a \in Addr, NEW n \in Nat, n > 0, Vacant(h, a, n)
  PROVE  \E f \in FreeBlocks(h) : n <= h.size[f]
<1>1. PICK f \in h.starts : f <= a /\ a < NextBlock(h, f)
  BY BlockFacts
<1>2. /\ f \in Nat /\ h.size[f] \in Nat /\ f + h.size[f] = NextBlock(h, f)
      /\ NextBlock(h, f) \in h.starts \cup {HeapSize}
      /\ a \in Nat /\ HeapSize \in Nat
  BY BlockFacts, NullFacts
<1>3. \A b \in h.used : b + h.size[b] <= a \/ a + n <= b
  BY DEF Vacant
<1>4. f \notin h.used
  <2> SUFFICES ASSUME f \in h.used PROVE FALSE
    OBVIOUS
  <2>1. f + h.size[f] <= a \/ a + n <= f  BY <1>3
  <2> QED  BY <1>1, <1>2, <2>1
<1>5. f \in FreeBlocks(h)  BY <1>1, <1>4, BlockFacts
<1>6. a + n <= NextBlock(h, f)
  <2> SUFFICES ASSUME ~ (a + n <= NextBlock(h, f)) PROVE FALSE
    OBVIOUS
  <2>1. NextBlock(h, f) # HeapSize  BY <1>2 DEF Vacant
  <2>2. NextBlock(h, f) \in h.starts  BY <1>2, <2>1
  <2>3. NextBlock(h, f) \in h.used
    <3>1. NextBlock(h, f) \notin FreeBlocks(h)  BY <1>5 DEF WellFormed, Coalesced
    <3> QED  BY <2>2, <3>1, BlockFacts
  <2>4. /\ NextBlock(h, f) \in Nat
        /\ h.size[NextBlock(h, f)] \in Nat
    BY <2>2, BlockFacts
  <2>5. \/ NextBlock(h, f) + h.size[NextBlock(h, f)] <= a
        \/ a + n <= NextBlock(h, f)
    BY <1>3, <2>3
  <2> QED  BY <1>1, <1>2, <2>4, <2>5
<1>7. n <= h.size[f]  BY <1>1, <1>2, <1>6
<1> QED  BY <1>5, <1>7

-----------------------------------------------------------------------------
(***************************************************************************)
(* The walk over the free list                                             *)
(***************************************************************************)

\* S holds the free blocks that siheap_malloc_find has passed over, from the
\* first of the list to the one before c.
Passed(h, S, c) ==
  /\ S \subseteq FreeBlocks(h)
  /\ h.first \in S \cup {c}
  /\ \A b \in S : h.nf[b] \in S \cup {c}

\* All of them are too small.
WalkOK ==
  mode = "find" =>
    \E S \in SUBSET FreeBlocks(heap) :
      Passed(heap, S, cur) /\ \A b \in S : heap.size[b] < want

\* A walk that comes to the end of the list has passed over every free block.
LEMMA PassedAll ==
  ASSUME NEW h, WellFormed(h), NEW S, Passed(h, S, NULL)
  PROVE  S = FreeBlocks(h)
<1> DEFINE T == FreeBlocks(h) \ S
<1> SUFFICES ASSUME T # {} PROVE FALSE
  BY DEF Passed
<1>1. PICK b \in T : h.pf[b] \notin T
  <2>1. ListComplete(h) /\ T \in SUBSET FreeBlocks(h)  BY DEF WellFormed
  <2> QED  BY <2>1 DEF ListComplete
<1>2. /\ h.pf[b] # NULL => h.pf[b] \in FreeBlocks(h) /\ h.nf[h.pf[b]] = b
      /\ h.pf[b] = NULL <=> b = h.first
  BY <1>1 DEF WellFormed, ListLinked
<1>3. b # NULL
  <2>1. b \in Addr  BY <1>1, BlockFacts
  <2> QED  BY <2>1, NullFacts
<1>4. CASE h.pf[b] = NULL
  BY <1>1, <1>2, <1>3, <1>4 DEF Passed
<1>5. CASE h.pf[b] # NULL
  <2>1. h.pf[b] \in S /\ h.nf[h.pf[b]] = b  BY <1>1, <1>2, <1>5
  <2> QED  BY <1>1, <1>3, <2>1 DEF Passed
<1> QED  BY <1>4, <1>5

\* A walk begins with nothing passed over.
LEMMA WalkStarts ==
  ASSUME cur' = heap'.first
  PROVE  WalkOK'
<1>1. Passed(heap', {}, cur')  BY DEF Passed
<1>2. {} \in SUBSET FreeBlocks(heap')  OBVIOUS
<1> QED  BY <1>1, <1>2 DEF WalkOK

LEMMA WalkStartFind ==
  ASSUME NEW n, NEW m, NEW size, StartFind(heap', n, m, size)
  PROVE  WalkOK'
<1>1. CASE mode' = "find"
  <2>1. cur' = heap'.first  BY <1>1 DEF StartFind
  <2> QED  BY <2>1, WalkStarts
<1>2. CASE mode' # "find"  BY <1>2 DEF WalkOK
<1> QED  BY <1>1, <1>2

LEMMA WalkInit == Init => WalkOK
BY DEF Init, WalkOK

LEMMA WalkFindStep == ASSUME Inv, WalkOK, FindStep PROVE WalkOK'
<1>1. /\ mode = "find" /\ mode' = "find" /\ cur # NULL /\ cur \in FreeBlocks(heap)
      /\ heap' = heap /\ want' = want /\ cur' = heap.nf[cur]
      /\ heap.size[cur] < want
  BY DEF FindStep, Inv, FindOK
<1>2. PICK S \in SUBSET FreeBlocks(heap) :
        Passed(heap, S, cur) /\ \A b \in S : heap.size[b] < want
  BY <1>1 DEF WalkOK
<1>3. Passed(heap, S \cup {cur}, cur')
  BY <1>1, <1>2 DEF Passed
<1>4. \A b \in S \cup {cur} : heap.size[b] < want
  BY <1>1, <1>2
<1>5. S \cup {cur} \in SUBSET FreeBlocks(heap)
  BY <1>1
<1> QED  BY <1>1, <1>3, <1>4, <1>5 DEF WalkOK

LEMMA WalkNext == Inv /\ WalkOK /\ [Next]_vars => WalkOK'
<1> SUFFICES ASSUME Inv, WalkOK, [Next]_vars PROVE WalkOK'
  OBVIOUS
<1>1. ASSUME NEW n \in Requests, Malloc(n) PROVE WalkOK'
  <2>1. heap' = heap /\ StartFind(heap, IF n < MinBlock THEN MinBlock ELSE n, NULL, 0)
    BY <1>1 DEF Malloc
  <2> QED  BY <2>1, WalkStartFind
<1>2. CASE FindStep  BY <1>2, WalkFindStep
<1>3. CASE FindHit \/ FreeTwice \/ FindMiss \/ SweepKeep \/ SweepFree \/ NewRun
  <2>1. mode' # "find"
    BY <1>3 DEF FindHit, FreeTwice, FindMiss, SweepKeep, SweepFree, NewRun, Return
  <2> QED  BY <2>1 DEF WalkOK
<1>4. ASSUME NEW b \in Addr, SweepDestroy(b) PROVE WalkOK'
  BY <1>4 DEF SweepDestroy, search, WalkOK
<1>5. CASE SweepEnd
  <2>1. cur' = heap'.first  BY <1>5 DEF SweepEnd
  <2> QED  BY <2>1, WalkStarts
<1>6. ASSUME NEW b \in Addr, Free(b) PROVE WalkOK'
  BY <1>6 DEF Free, search, WalkOK
<1>7. ASSUME NEW e \in Addr, NEW n \in Requests, Grow(e, n) PROVE WalkOK'
  BY <1>7 DEF Grow, search, WalkOK
<1>8. ASSUME NEW e \in Addr, NEW n \in Requests, Move(e, n) PROVE WalkOK'
  <2>1. StartFind(heap', n, e, heap.size[e])  BY <1>8 DEF Move
  <2> QED  BY <2>1, WalkStartFind
<1>9. CASE UNCHANGED vars
  BY <1>9 DEF vars, search, WalkOK
<1> QED
  BY <1>1, <1>2, <1>3, <1>4, <1>5, <1>6, <1>7, <1>8, <1>9 DEF Next, Search, Sweep

LEMMA WalkInvariant == Spec => []WalkOK
BY WalkInit, WalkNext, AllocatorInvariant, PTL DEF Spec

-----------------------------------------------------------------------------
(***************************************************************************)
(* The steps                                                               *)
(***************************************************************************)

\* What ArenaView has for asked.
Asked == IF mode = "run" THEN 0 ELSE want

LEMMA RequestFacts == \A n \in Requests : n \in Nat /\ n > 0
<1>1. \A n \in Nat \ {0} : n > 0  OBVIOUS
<1> QED  BY <1>1, RequestsAssumption

LEMMA GapFacts ==
  ASSUME NEW a, NEW n
  PROVE  ArenaView!Gap(a, n) <=> Vacant(heap, a, n)
BY DEF ArenaView!Gap, Vacant

\* A block is freed: the collector's steps, siheap_mfree.
LEMMA ReclaimStep ==
  ASSUME WellFormed(heap), NEW e \in heap.used, heap' = MFreeInner(heap, e),
         mode' = mode, want' = want
  PROVE  ArenaView!Reclaim
<1>1. /\ heap'.used = heap.used \ {e}
      /\ \A b \in heap.used \ {e} : heap'.size[b] = heap.size[b]
  BY FreeOK DEF Freed
<1>2. Extents(heap)' = [b \in heap.used \ {e} |-> heap.size[b]]
  BY <1>1 DEF Extents
<1>3. Extents(heap)' = ArenaView!Without(e)
  BY <1>2 DEF ArenaView!Without, Extents
<1> QED  BY <1>3 DEF ArenaView!Reclaim, Extents


\* A request: the walk begins, or the request is larger than the heap.
LEMMA RequestStep ==
  ASSUME mode = "run", NEW n \in Nat, n > 0, NEW m, NEW size,
         StartFind(heap', n, m, size),
         \/ Extents(heap)' = Extents(heap)
         \/ n <= HeapSize /\ \E e \in heap.used : Extents(heap)' = ArenaView!Without(e)
  PROVE  ArenaView!Next
<1>1. want' = n /\ HeapSize \in Nat  BY NullFacts DEF StartFind
<1>2. CASE n > HeapSize
  <2>1. mode' = "fault"  BY <1>2 DEF StartFind
  <2>2. Extents(heap)' = Extents(heap)  BY <1>1, <1>2
  <2>3. \A a \in Addr : ~ ArenaView!Gap(a, want')
    <3> SUFFICES ASSUME NEW a \in Addr, Vacant(heap, a, n) PROVE FALSE
      BY <1>1, GapFacts
    <3>1. a \in Nat /\ a + n <= HeapSize  BY NullFacts DEF Vacant
    <3> QED  BY <1>1, <1>2, <3>1
  <2>4. ArenaView!Refuse
    BY <2>1, <2>2, <2>3 DEF ArenaView!Refuse, ArenaView!Addr, Addr, Extents
  <2> QED  BY <2>4 DEF ArenaView!Next
<1>3. CASE ~ (n > HeapSize)
  <2>1. mode' = "find"  BY <1>3 DEF StartFind
  <2>2. ArenaView!Ask
    BY <1>1, <2>1 DEF ArenaView!Ask, Extents
  <2> QED  BY <2>2 DEF ArenaView!Next
<1> QED  BY <1>2, <1>3

LEMMA MallocArena == ASSUME Inv, NEW n \in Requests, Malloc(n) PROVE ArenaView!Next
<1> DEFINE k == IF n < MinBlock THEN MinBlock ELSE n
<1>1. k \in Nat /\ k > 0  BY NullFacts, RequestFacts
<1>2. mode = "run" /\ heap' = heap /\ StartFind(heap', k, NULL, 0)
  BY DEF Malloc
<1>3. Extents(heap)' = Extents(heap)  BY <1>2 DEF Extents
<1> QED  BY <1>1, <1>2, <1>3, RequestStep

LEMMA MoveArena ==
  ASSUME Inv, NEW e \in Addr, NEW n \in Requests, Move(e, n) PROVE ArenaView!Next
<1>1. /\ mode = "run" /\ e \in heap.used /\ WellFormed(heap)
      /\ heap' = IF PrevIsFree(heap, e) /\ n <= HeapSize
                 THEN MFreeInner(heap, e) ELSE heap
      /\ StartFind(heap', n, e, heap.size[e])
  BY DEF Move, Inv, HeapOK
<1>2. n \in Nat /\ n > 0  BY RequestFacts
<1>3. \/ Extents(heap)' = Extents(heap)
      \/ n <= HeapSize /\ \E x \in heap.used : Extents(heap)' = ArenaView!Without(x)
  <2>1. CASE PrevIsFree(heap, e) /\ n <= HeapSize
    <3>1. heap' = MFreeInner(heap, e)  BY <1>1, <2>1
    <3>2. /\ heap'.used = heap.used \ {e}
          /\ \A b \in heap.used \ {e} : heap'.size[b] = heap.size[b]
      BY <1>1, <3>1, FreeOK DEF Freed
    <3>3. Extents(heap)' = ArenaView!Without(e)
      BY <3>2 DEF ArenaView!Without, Extents
    <3> QED  BY <1>1, <2>1, <3>3
  <2>2. CASE ~ (PrevIsFree(heap, e) /\ n <= HeapSize)
    <3>1. heap' = heap  BY <1>1, <2>2
    <3> QED  BY <3>1 DEF Extents
  <2> QED  BY <2>1, <2>2
<1> QED  BY <1>1, <1>2, <1>3, RequestStep

\* The walk finds a block: a fresh extent, which is a gap between the others.
LEMMA FindHitArena == ASSUME Inv, FindHit PROVE ArenaView!Grant
<1> DEFINE h == MallocSplit(heap, cur, want)
           k == h.size[cur]
<1> HIDE DEF h
<1>1. /\ WellFormed(heap) /\ cur \in FreeBlocks(heap)
      /\ want \in Nat /\ want >= MinBlock /\ heap.size[cur] >= want
      /\ mode = "find" /\ mode' = "run"
      /\ heap' = IF moving # NULL /\ moving \in heap.used THEN MFreeInner(h, moving) ELSE h
  BY DEF Inv, HeapOK, FindOK, FindHit, Hit, TypeOK, Return, h
<1>2. cur \in heap.starts /\ cur \notin heap.used /\ cur \in Addr /\ want <= heap.size[cur] /\ 0 < want
  <2>1. cur \in heap.starts /\ cur \notin heap.used  BY <1>1, BlockFacts
  <2>2. cur \in Addr /\ heap.size[cur] \in Nat  BY <1>1, <2>1, BlockFacts
  <2> QED  BY <1>1, <2>1, <2>2, NullFacts
<1>3. WellFormed(h) /\ h.used = heap.used \cup {cur}
  BY <1>1, <1>2, AllocateOK DEF h
<1>4. want <= k /\ \A b \in heap.used : h.size[b] = heap.size[b]
  <2>1. Loose(heap)  BY <1>1, WellFormedFacts
  <2> QED  BY <1>1, <1>2, <2>1, MallocSplitOK DEF h
<1>5. k \in want .. HeapSize /\ cur + k <= HeapSize
  <2>1. /\ cur \in h.starts /\ k \in Nat /\ cur \in Nat
        /\ cur + k = NextBlock(h, cur) /\ NextBlock(h, cur) <= HeapSize
    <3>1. cur \in h.starts  BY <1>3, BlockFacts
    <3> QED  BY <1>3, <3>1, BlockFacts
  <2> QED  BY <1>1, <1>4, <2>1, NullFacts
<1>6. Vacant(heap, cur, k)
  <2>1. \A b \in heap.used : b # cur /\ b \in h.used /\ h.size[b] = heap.size[b]
    BY <1>2, <1>3, <1>4
  <2>2. \A b \in heap.used : b + h.size[b] <= cur \/ cur + h.size[cur] <= b
    BY <1>3, <2>1, UsedVacant
  <2> QED  BY <1>5, <2>1, <2>2 DEF Vacant
<1>7. Extents(h) = ArenaView!Give(cur, k)
  BY <1>2, <1>3, <1>4 DEF Extents, ArenaView!Give
<1>8. \/ Extents(heap)' = ArenaView!Give(cur, k)
      \/ \E e \in heap.used :
           Extents(heap)' = [x \in (heap.used \ {e}) \cup {cur} |-> ArenaView!Give(cur, k)[x]]
  <2>1. CASE moving # NULL /\ moving \in heap.used
    <3>1. heap' = MFreeInner(h, moving) /\ moving \in h.used  BY <1>1, <1>3, <2>1
    <3>2. /\ heap'.used = h.used \ {moving}
          /\ \A b \in h.used \ {moving} : heap'.size[b] = h.size[b]
      BY <1>3, <3>1, FreeOK DEF Freed
    <3>3. Extents(heap)' = [x \in h.used \ {moving} |-> Extents(h)[x]]
      BY <3>2 DEF Extents
    <3>4. h.used \ {moving} = (heap.used \ {moving}) \cup {cur}
      BY <1>2, <1>3, <2>1
    <3> QED  BY <1>7, <2>1, <3>3, <3>4
  <2>2. CASE ~ (moving # NULL /\ moving \in heap.used)
    <3>1. heap' = h  BY <1>1, <2>2
    <3> QED  BY <1>7, <3>1 DEF Extents
  <2> QED  BY <2>1, <2>2
<1>9. ArenaView!Gap(cur, k)  BY <1>6, GapFacts
<1>10. cur \in ArenaView!Addr  BY <1>2 DEF Addr, ArenaView!Addr
<1> QED
  BY <1>1, <1>2, <1>5, <1>8, <1>9, <1>10 DEF ArenaView!Grant, Extents

\* The walk after the collection ends without one: nothing of that size is free.
LEMMA RefuseArena == ASSUME Inv, WalkOK, FindMiss, swept PROVE ArenaView!Refuse
<1>1. /\ WellFormed(heap) /\ mode = "find" /\ mode' = "fault" /\ cur = NULL
      /\ heap' = heap /\ want' = want
      /\ want \in Nat /\ want > 0
  BY NullFacts DEF FindMiss, Inv, HeapOK, FindOK, TypeOK
<1>2. \A b \in FreeBlocks(heap) : heap.size[b] < want
  <2>1. PICK S \in SUBSET FreeBlocks(heap) :
          Passed(heap, S, NULL) /\ \A b \in S : heap.size[b] < want
    BY <1>1 DEF WalkOK
  <2>2. S = FreeBlocks(heap)  BY <1>1, <2>1, PassedAll
  <2> QED  BY <2>1, <2>2
<1>3. \A a \in Addr : ~ ArenaView!Gap(a, want)
  <2> SUFFICES ASSUME NEW a \in Addr, Vacant(heap, a, want) PROVE FALSE
    BY GapFacts
  <2>1. PICK f \in FreeBlocks(heap) : want <= heap.size[f]
    BY <1>1, VacantInFree
  <2>2. heap.size[f] \in Nat  BY <1>1, BlockFacts
  <2> QED  BY <1>1, <1>2, <2>1, <2>2
<1> QED  BY <1>1, <1>3 DEF ArenaView!Refuse, ArenaView!Addr, Addr

\* siheap_mrealloc in place: the gap after the extent is long enough.
LEMMA GrowArena ==
  ASSUME Inv, NEW e \in Addr, NEW n \in Requests, Grow(e, n) PROVE ArenaView!Extend
<1> DEFINE k == heap'.size[e] - heap.size[e]
<1> HIDE DEF k
<1>1. /\ WellFormed(heap) /\ mode = "run" /\ mode' = "run" /\ want' = want
      /\ e \in heap.used /\ n > heap.size[e] /\ n \in Nat
      /\ CanGrow(heap, e, n) /\ heap' = GrowInPlace(heap, e, n)
  BY RequestFacts DEF Grow, Inv, HeapOK, search
<1>2. e \in Nat /\ heap.size[e] \in Nat /\ heap.size[e] > 0 /\ heap.size[e] < n
  <2>1. e \in heap.starts  BY <1>1, BlockFacts
  <2>2. e \in Nat /\ heap.size[e] \in Nat /\ heap.size[e] > 0  BY <1>1, <2>1, BlockFacts
  <2> QED  BY <1>1, <2>2
<1>3. /\ WellFormed(heap') /\ heap'.used = heap.used /\ n <= heap'.size[e]
      /\ \A b \in heap.used \ {e} : heap'.size[b] = heap.size[b]
  <2>1. Loose(heap) /\ NoSliver(heap)  BY <1>1, WellFormedFacts
  <2>2. /\ Loose(heap') /\ heap'.used = heap.used /\ n <= heap'.size[e]
        /\ \A b \in heap.used \ {e} : heap'.size[b] = heap.size[b]
        /\ NoSliver(heap) => NoSliver(heap')
    BY <1>1, <1>2, <2>1, GrowInPlaceOK
  <2> QED  BY <2>1, <2>2, WellFormedParts
<1>4. heap'.size[e] \in Nat /\ e + heap'.size[e] <= HeapSize
  <2>1. e \in heap'.starts  BY <1>1, <1>3, BlockFacts
  <2>2. /\ heap'.size[e] \in Nat /\ e + heap'.size[e] = NextBlock(heap', e)
        /\ NextBlock(heap', e) <= HeapSize
    BY <1>3, <2>1, BlockFacts
  <2> QED  BY <2>2
<1>5. k \in 1 .. HeapSize /\ heap.size[e] + k = heap'.size[e]
      /\ (e + heap.size[e]) + k = e + heap'.size[e]
  BY <1>1, <1>2, <1>3, <1>4, NullFacts DEF k
<1>6. Vacant(heap, e + heap.size[e], k)
  <2> SUFFICES ASSUME NEW b \in heap.used
               PROVE  b + heap.size[b] <= e + heap.size[e] \/ e + heap'.size[e] <= b
    BY <1>4, <1>5 DEF Vacant
  <2>1. CASE b = e
    BY <1>2, <2>1
  <2>2. CASE b # e
    <3>1. b + heap'.size[b] <= e \/ e + heap'.size[e] <= b
      BY <1>1, <1>3, <2>2, UsedVacant
    <3>2. heap'.size[b] = heap.size[b]  BY <1>3, <2>2
    <3>3. b \in Nat /\ heap.size[b] \in Nat
      <4>1. b \in heap.starts  BY <1>1, BlockFacts
      <4> QED  BY <1>1, <4>1, BlockFacts
    <3> QED  BY <1>2, <3>1, <3>2, <3>3
  <2> QED  BY <2>1, <2>2
<1>7. Extents(heap)' = [Extents(heap) EXCEPT ![e] = @ + k]
  BY <1>1, <1>3, <1>5 DEF Extents
<1>8. ArenaView!Gap(e + Extents(heap)[e], k)
  <2>1. Extents(heap)[e] = heap.size[e]  BY <1>1 DEF Extents
  <2> QED  BY <1>6, <2>1, GapFacts
<1> QED  BY <1>1, <1>5, <1>7, <1>8 DEF ArenaView!Extend, Extents

LEMMA NewRunArena == ASSUME NewRun PROVE ArenaView!Reset
<1>1. heap'.used = {} /\ mode' = "run"  BY DEF NewRun, InitHeap, Return
<1> QED  BY <1>1 DEF ArenaView!Reset

LEMMA ArenaStep ==
  ASSUME Inv, WalkOK, [Next]_vars
  PROVE  ArenaView!Next \/ FreeTwice \/ UNCHANGED <<Extents(heap), Asked, mode = "fault">>
<1>1. CASE \E n \in Requests : Malloc(n)  BY <1>1, MallocArena
<1>2. CASE FindStep
  BY <1>2 DEF FindStep, Extents, Asked
<1>3. CASE FindHit  BY <1>3, FindHitArena DEF ArenaView!Next
<1>4. CASE FindMiss
  <2>1. CASE swept  BY <1>4, <2>1, RefuseArena DEF ArenaView!Next
  <2>2. CASE ~ swept
    <3>1. mode = "find" /\ mode' = "sweep" /\ heap' = heap /\ want' = want
      BY <1>4, <2>2 DEF FindMiss
    <3> QED  BY <3>1 DEF Extents, Asked
  <2> QED  BY <2>1, <2>2
<1>5. CASE SweepKeep
  BY <1>5 DEF SweepKeep, Extents, Asked
<1>6. CASE SweepFree
  <2>1. /\ WellFormed(heap) /\ cur \in heap.used /\ heap' = MFreeInner(heap, cur)
        /\ mode' = mode /\ want' = want
    BY <1>6 DEF SweepFree, Inv, HeapOK
  <2> QED  BY <2>1, ReclaimStep DEF ArenaView!Next
<1>7. CASE \E b \in Addr : SweepDestroy(b) \/ Free(b)
  <2>1. PICK b \in Addr : SweepDestroy(b) \/ Free(b)  BY <1>7
  <2>2. /\ WellFormed(heap) /\ b \in heap.used /\ heap' = MFreeInner(heap, b)
        /\ mode' = mode /\ want' = want
    BY <2>1 DEF SweepDestroy, Free, search, Inv, HeapOK
  <2> QED  BY <2>2, ReclaimStep DEF ArenaView!Next
<1>8. CASE SweepEnd
  <2>1. mode = "sweep" /\ mode' = "find" /\ heap' = heap /\ want' = want
    BY <1>8 DEF SweepEnd
  <2> QED  BY <2>1 DEF Extents, Asked
<1>9. CASE \E e \in Addr, n \in Requests : Grow(e, n) \/ Move(e, n)
  BY <1>9, GrowArena, MoveArena DEF ArenaView!Next
<1>10. CASE NewRun  BY <1>10, NewRunArena DEF ArenaView!Next
<1>11. CASE UNCHANGED vars
  BY <1>11 DEF vars, search, Extents, Asked
<1> QED
  BY <1>1, <1>2, <1>3, <1>4, <1>5, <1>6, <1>7, <1>8, <1>9, <1>10, <1>11
     DEF Next, Search, Sweep

\* Whatever the VM asks of the heap, and whatever is marked, the extents it gets
\* never overlap and keep their lengths until they are given back, and a request is
\* refused only when, the collection being over, no gap is large enough.  The one
\* step that this does not describe is the second free of a block (FreeTwice).
THEOREM HeapIsArena == Spec => ImplementsArena
<1>1. Init => ArenaView!Init
  BY DEF Init, InitHeap, ArenaView!Init
<1>2. Inv /\ WalkOK /\ [Next]_vars => [ArenaView!Next \/ FreeTwice]_(ArenaView!arenaVars)
  BY ArenaStep DEF ArenaView!arenaVars, Extents, Asked
<1> QED
  BY <1>1, <1>2, AllocatorInvariant, WalkInvariant, PTL
     DEF Spec, ImplementsArena
=============================================================================
