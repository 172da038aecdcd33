----------------------------- MODULE HeapBlocks -----------------------------
(***************************************************************************)
(* The block structure of the Pynter heap: vm/include/pynter/heap.h and    *)
(* siheap_mrealloc of vm/src/memory.c.                                     *)
(*                                                                         *)
(* The heap is one array, tiled by blocks.  A block starts with a header   *)
(* (siheap_header_t) that holds its size and a pointer to the block before *)
(* it; the block after it is found by adding the size.  A free block also  *)
(* holds the two links of the list of free blocks (siheap_free_t).         *)
(*                                                                         *)
(* This module has no state of its own: a heap is a value, a record with   *)
(*   starts  the addresses of the blocks that siheap_next walks over,      *)
(*   used    those whose type is not sitype_free,                          *)
(*   size, prev   the header fields, functions on starts,                  *)
(*   first   siheap_first_free,                                            *)
(*   nf, pf  next_free and prev_free, functions on the free blocks,        *)
(* and every routine of heap.h that edits blocks is an operator from heaps *)
(* to heaps.  Allocator gives the steps in which they are called.          *)
(*                                                                         *)
(* Addresses and sizes are in units of SIHEAP_ALIGN (8 bytes), so that the *)
(* rounding of sizes (SIHEAP_ROUNDUP) is already done.                     *)
(***************************************************************************)
EXTENDS Integers

CONSTANTS
  HeapSize,  \* PYNTER_HEAP_SIZE
  MinBlock,  \* sizeof(siheap_free_t): no block is smaller
  NULL       \* the null pointer

ASSUME SizeAssumption ==
  /\ HeapSize \in Nat
  /\ MinBlock \in Nat \ {0}
  /\ MinBlock <= HeapSize

ASSUME NullAssumption == NULL \notin Nat

Addr == 0 .. HeapSize - 1
Pointer == Addr \cup {NULL}

(***************************************************************************)
(* Reading a heap                                                          *)
(***************************************************************************)

FreeBlocks(h) == h.starts \ h.used

\* siheap_next.  The result is an address only when SIHEAP_INRANGE holds.
NextBlock(h, b) == b + h.size[b]
InRange(a) == a < HeapSize

NextIsFree(h, b) ==
  InRange(NextBlock(h, b)) /\ NextBlock(h, b) \in FreeBlocks(h)
PrevIsFree(h, b) ==
  h.prev[b] # NULL /\ h.prev[b] \in FreeBlocks(h)

(***************************************************************************)
(* The list of free blocks                                                 *)
(***************************************************************************)

\* siheap_free_remove: unlink c.
FreeRemove(h, c) ==
  [h EXCEPT
    !.first = IF h.pf[c] = NULL THEN h.nf[c] ELSE @,
    !.nf = [b \in DOMAIN h.nf \ {c} |-> IF b = h.pf[c] THEN h.nf[c] ELSE @[b]],
    !.pf = [b \in DOMAIN h.pf \ {c} |-> IF b = h.nf[c] THEN h.pf[c] ELSE @[b]]]

\* The links of c are copied to d, and siheap_free_fix_neighbours(d) makes the
\* neighbours of c point to d: d takes the place of c in the list.
FreeReplace(h, c, d) ==
  [h EXCEPT
    !.first = IF h.pf[c] = NULL THEN d ELSE @,
    !.nf = [b \in (DOMAIN h.nf \ {c}) \cup {d} |->
              IF b = d THEN h.nf[c] ELSE IF b = h.pf[c] THEN d ELSE @[b]],
    !.pf = [b \in (DOMAIN h.pf \ {c}) \cup {d} |->
              IF b = d THEN h.pf[c] ELSE IF b = h.nf[c] THEN d ELSE @[b]]]

\* Mutant of FreePush: the old list is not linked behind d.
FreePush_Unlinked(h, d) ==
  [h EXCEPT
    !.first = d,
    !.nf = [b \in DOMAIN h.nf \cup {d} |-> IF b = d THEN NULL ELSE @[b]],
    !.pf = [b \in DOMAIN h.pf \cup {d} |-> IF b = d THEN NULL ELSE @[b]]]

\* The links of d are set to (NULL, siheap_first_free), and
\* siheap_free_fix_neighbours(d) makes d the first of the list.
FreePush(h, d) ==
  [h EXCEPT
    !.first = d,
    !.nf = [b \in DOMAIN h.nf \cup {d} |-> IF b = d THEN h.first ELSE @[b]],
    !.pf = [b \in DOMAIN h.pf \cup {d} |->
              IF b = d THEN NULL ELSE IF b = h.first THEN d ELSE @[b]]]

(***************************************************************************)
(* Editing blocks                                                          *)
(***************************************************************************)

\* siheap_init: one free block that spans the heap.
InitHeap ==
  [starts |-> {0}, used |-> {}, size |-> [b \in {0} |-> HeapSize],
   prev |-> [b \in {0} |-> NULL], first |-> 0,
   nf |-> [b \in {0} |-> NULL], pf |-> [b \in {0} |-> NULL]]

\* Mutant of FixNext: the block after x keeps its back pointer.
FixNext_Forgotten(h, dom, x, p) == [b \in dom |-> h.prev[b]]

\* The block after x, if there is one, gets p as its previous block: the effect
\* on prev of siheap_fix_next, on the domain that remains.
FixNext(h, dom, x, p) ==
  [b \in dom |-> IF b = NextBlock(h, x) THEN p ELSE h.prev[b]]

\* siheap_malloc_split, when the rest is large enough for a new free block.
SplitBlock(h, c, n) ==
  LET r == c + n
      dom == h.starts \cup {r}
  IN  [FreeReplace(h, c, r) EXCEPT
        !.starts = dom,
        !.used = @ \cup {c},
        !.size = [b \in dom |-> IF b = c THEN n
                                ELSE IF b = r THEN h.size[c] - n ELSE @[b]],
        !.prev = [b \in dom |-> IF b = r THEN c
                                ELSE IF b = NextBlock(h, c) THEN r ELSE @[b]]]

\* siheap_malloc_split, when it is not: the whole block is allocated.
TakeBlock(h, c) == [FreeRemove(h, c) EXCEPT !.used = @ \cup {c}]

\* Mutant of MallocSplit: any rest, even an empty one, becomes a block.
MallocSplit_Sliver(h, c, n) ==
  IF n <= h.size[c] THEN SplitBlock(h, c, n) ELSE TakeBlock(h, c)

MallocSplit(h, c, n) ==
  IF n + MinBlock <= h.size[c] THEN SplitBlock(h, c, n) ELSE TakeBlock(h, c)

\* siheap_mfree_inner, one operator for each of its four cases.
FreeBetween(h, e) ==
  LET p == h.prev[e]
      x == NextBlock(h, e)
      dom == h.starts \ {e, x}
  IN  [FreeRemove(h, x) EXCEPT
        !.starts = dom,
        !.used = @ \ {e},
        !.size = [b \in dom |-> IF b = p THEN h.size[p] + h.size[e] + h.size[x]
                                ELSE @[b]],
        !.prev = FixNext(h, dom, x, p)]

FreeBeforeFree(h, e) ==
  LET x == NextBlock(h, e)
      dom == h.starts \ {x}
  IN  [FreeReplace(h, x, e) EXCEPT
        !.starts = dom,
        !.used = @ \ {e},
        !.size = [b \in dom |-> IF b = e THEN h.size[e] + h.size[x] ELSE @[b]],
        !.prev = FixNext(h, dom, x, e)]

FreeAfterFree(h, e) ==
  LET p == h.prev[e]
      dom == h.starts \ {e}
  IN  [h EXCEPT
        !.starts = dom,
        !.used = @ \ {e},
        !.size = [b \in dom |-> IF b = p THEN h.size[p] + h.size[e] ELSE @[b]],
        !.prev = FixNext(h, dom, e, p)]

FreeAlone(h, e) == [FreePush(h, e) EXCEPT !.used = @ \ {e}]

MFreeInner(h, e) ==
  IF NextIsFree(h, e)
  THEN IF PrevIsFree(h, e) THEN FreeBetween(h, e) ELSE FreeBeforeFree(h, e)
  ELSE IF PrevIsFree(h, e) THEN FreeAfterFree(h, e) ELSE FreeAlone(h, e)

\* The block siheap_mfree_inner returns: the free block that e is now part of.
MergedBlock(h, e) == IF PrevIsFree(h, e) THEN h.prev[e] ELSE e

\* siheap_mrealloc, growing in place: split the next block, which may leave a
\* block smaller than MinBlock for a moment, and absorb what was split off.
CanGrow(h, e, n) == NextIsFree(h, e) /\ h.size[e] + h.size[NextBlock(h, e)] >= n
GrowInPlace(h, e, n) ==
  LET x == NextBlock(h, e)
      s == MallocSplit(h, x, n - h.size[e])
      dom == s.starts \ {x}
  IN  [s EXCEPT
        !.starts = dom,
        !.used = @ \ {x},
        !.size = [b \in dom |-> IF b = e THEN s.size[e] + s.size[x] ELSE @[b]],
        !.prev = FixNext(s, dom, x, e)]

(***************************************************************************)
(* Well-formed heaps                                                       *)
(***************************************************************************)

HeapType(h) ==
  /\ DOMAIN h = {"starts", "used", "size", "prev", "first", "nf", "pf"}
  /\ h.starts \in SUBSET Addr
  /\ h.used \in SUBSET h.starts
  /\ h.size \in [h.starts -> 1 .. HeapSize]
  /\ h.prev \in [h.starts -> Pointer]
  /\ h.first \in Pointer
  /\ h.nf \in [FreeBlocks(h) -> Pointer]
  /\ h.pf \in [FreeBlocks(h) -> Pointer]

\* The blocks tile the heap: they start at 0, each ends where another starts or
\* at the end of the heap, none overlaps another, and every address is in one.
Tiled(h) ==
  /\ 0 \in h.starts
  /\ \A b \in h.starts : NextBlock(h, b) = HeapSize \/ NextBlock(h, b) \in h.starts
  /\ \A b, c \in h.starts : b < c => NextBlock(h, b) <= c
  /\ \A a \in Addr : \E b \in h.starts : b <= a /\ a < NextBlock(h, b)

\* A block is never too small to become a free block.
NoSliver(h) == \A b \in h.starts : h.size[b] >= MinBlock

\* prev_node leads back to the block that siheap_next comes from.
BackLinked(h) ==
  \A b \in h.starts :
    /\ h.prev[b] = NULL <=> b = 0
    /\ b # 0 => h.prev[b] \in h.starts /\ NextBlock(h, h.prev[b]) = b

\* Two free blocks are never neighbours: freeing has merged them.
Coalesced(h) == \A b \in FreeBlocks(h) : NextBlock(h, b) \notin FreeBlocks(h)

\* The list of free blocks is doubly linked, starts at first, and has every
\* free block on it: no set of free blocks is closed under prev_free, so every
\* one of them is reached from a block without predecessor, which is first.
ListLinked(h) ==
  /\ h.first # NULL => h.first \in FreeBlocks(h)
  /\ \A b \in FreeBlocks(h) :
       /\ h.nf[b] # NULL => h.nf[b] \in FreeBlocks(h) /\ h.pf[h.nf[b]] = b
       /\ h.pf[b] # NULL => h.pf[b] \in FreeBlocks(h) /\ h.nf[h.pf[b]] = b
       /\ h.pf[b] = NULL <=> b = h.first
ListComplete(h) ==
  \A S \in SUBSET FreeBlocks(h) : S # {} => \E b \in S : h.pf[b] \notin S

WellFormed(h) ==
  /\ HeapType(h)
  /\ Tiled(h)
  /\ NoSliver(h)
  /\ BackLinked(h)
  /\ Coalesced(h)
  /\ ListLinked(h)
  /\ ListComplete(h)
=============================================================================
