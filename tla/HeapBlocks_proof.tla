-------------------------- MODULE HeapBlocks_proof --------------------------
(***************************************************************************)
(* Every routine that edits the blocks takes a well-formed heap to a       *)
(* well-formed heap, for every size of the heap and every size asked for.  *)
(***************************************************************************)
EXTENDS HeapBlocks, TLAPS

USE SizeAssumption, NullAssumption

-----------------------------------------------------------------------------
(***************************************************************************)
(* The list of free blocks                                                 *)
(***************************************************************************)

\* The part of a well-formed heap that the list operators are about.
ListOK(h) ==
  /\ h.nf \in [FreeBlocks(h) -> FreeBlocks(h) \cup {NULL}]
  /\ h.pf \in [FreeBlocks(h) -> FreeBlocks(h) \cup {NULL}]
  /\ FreeBlocks(h) \subseteq Nat
  /\ ListLinked(h)
  /\ ListComplete(h)

\* g has the list of h without c.
Unlinked(h, g, c) ==
  /\ FreeBlocks(g) = FreeBlocks(h) \ {c}
  /\ g.first = FreeRemove(h, c).first
  /\ g.nf = FreeRemove(h, c).nf
  /\ g.pf = FreeRemove(h, c).pf

\* g has the list of h with d in the place of c.
Replaced(h, g, c, d) ==
  /\ FreeBlocks(g) = (FreeBlocks(h) \ {c}) \cup {d}
  /\ g.first = FreeReplace(h, c, d).first
  /\ g.nf = FreeReplace(h, c, d).nf
  /\ g.pf = FreeReplace(h, c, d).pf

\* g has the list of h with d before all others.
Pushed(h, g, d) ==
  /\ FreeBlocks(g) = FreeBlocks(h) \cup {d}
  /\ g.first = FreePush(h, d).first
  /\ g.nf = FreePush(h, d).nf
  /\ g.pf = FreePush(h, d).pf

HasFields(h) == {"first", "nf", "pf"} \subseteq DOMAIN h

\* siheap_free_remove keeps the list doubly linked and complete.
LEMMA UnlinkedOK ==
  ASSUME NEW h, NEW g, HasFields(h), ListOK(h),
         NEW c \in FreeBlocks(h), Unlinked(h, g, c)
  PROVE  ListOK(g)
<1> DEFINE F == FreeBlocks(h)
           G == FreeBlocks(g)
<1>1. G = F \ {c}  BY DEF Unlinked
<1>2. /\ g.first = IF h.pf[c] = NULL THEN h.nf[c] ELSE h.first
      /\ g.nf = [b \in F \ {c} |-> IF b = h.pf[c] THEN h.nf[c] ELSE h.nf[b]]
      /\ g.pf = [b \in F \ {c} |-> IF b = h.nf[c] THEN h.pf[c] ELSE h.pf[b]]
  BY DEF Unlinked, FreeRemove, HasFields, ListOK
<1>3. ListLinked(g)
  BY <1>1, <1>2 DEF ListOK, ListLinked
<1>4. ListComplete(g)
  <2> SUFFICES ASSUME NEW S \in SUBSET G, S # {}
               PROVE  \E b \in S : g.pf[b] \notin S
    BY DEF ListComplete
  <2>1. PICK b \in S \cup {c} : h.pf[b] \notin S \cup {c}
    BY <1>1 DEF ListOK, ListComplete
  <2>2. CASE b # c
    <3>1. b \in S /\ b \in F /\ c \notin S  BY <1>1, <2>2
    <3>2. b # h.nf[c]
      <4>1. b # NULL  BY <3>1 DEF ListOK, NullAssumption
      <4> QED  BY <2>1, <2>2, <3>1, <4>1 DEF ListOK, ListLinked
    <3>3. g.pf[b] = h.pf[b]  BY <1>2, <2>2, <3>1, <3>2
    <3> QED  BY <2>1, <3>1, <3>3
  <2>3. CASE b = c /\ h.nf[c] \in S
    BY <1>1, <1>2, <2>1, <2>3
  <2>4. CASE b = c /\ h.nf[c] \notin S
    <3>1. PICK d \in S : h.pf[d] \notin S
      BY <1>1 DEF ListOK, ListComplete
    <3> QED  BY <1>1, <1>2, <2>4, <3>1
  <2> QED  BY <2>2, <2>3, <2>4
<1>5. \A b \in G : g.nf[b] \in G \cup {NULL} /\ g.pf[b] \in G \cup {NULL}
  BY <1>3 DEF ListLinked
<1>6. G \subseteq Nat
  BY <1>1 DEF ListOK
<1> QED  BY <1>1, <1>2, <1>3, <1>4, <1>5, <1>6 DEF ListOK

\* Putting d in the place of c keeps the list doubly linked and complete.
LEMMA ReplacedOK ==
  ASSUME NEW h, NEW g, HasFields(h), ListOK(h),
         NEW c \in FreeBlocks(h), NEW d \in Nat \ FreeBlocks(h), Replaced(h, g, c, d)
  PROVE  ListOK(g)
<1> DEFINE F == FreeBlocks(h)
           G == FreeBlocks(g)
<1>1. G = (F \ {c}) \cup {d}  BY DEF Replaced
<1>2. /\ g.first = IF h.pf[c] = NULL THEN d ELSE h.first
      /\ g.nf = [b \in G |-> IF b = d THEN h.nf[c] ELSE IF b = h.pf[c] THEN d ELSE h.nf[b]]
      /\ g.pf = [b \in G |-> IF b = d THEN h.pf[c] ELSE IF b = h.nf[c] THEN d ELSE h.pf[b]]
  BY <1>1 DEF Replaced, FreeReplace, HasFields, ListOK
<1>3. c # d /\ d # NULL /\ d \notin F  OBVIOUS
<1>4. \A b \in F : h.nf[b] # b /\ h.pf[b] # b
  <2>1. \A b \in F : h.pf[b] # b
    <3> SUFFICES ASSUME NEW b \in F PROVE h.pf[b] # b
      OBVIOUS
    <3>1. \E x \in {b} : h.pf[x] \notin {b}
      BY DEF ListOK, ListComplete
    <3> QED  BY <3>1
  <2> QED  BY <2>1 DEF ListOK, ListLinked
<1>5. ListLinked(g)
  <2>1. g.first # NULL => g.first \in G
    BY <1>1, <1>2, <1>3, <1>4 DEF ListOK, ListLinked
  <2>2. \A b \in G : g.nf[b] # NULL => g.nf[b] \in G /\ g.pf[g.nf[b]] = b
    BY <1>1, <1>2, <1>3, <1>4 DEF ListOK, ListLinked
  <2>3. \A b \in G : g.pf[b] # NULL => g.pf[b] \in G /\ g.nf[g.pf[b]] = b
    BY <1>1, <1>2, <1>3, <1>4 DEF ListOK, ListLinked
  <2>4. \A b \in G : g.pf[b] = NULL <=> b = g.first
    BY <1>1, <1>2, <1>3, <1>4 DEF ListOK, ListLinked
  <2> QED  BY <2>1, <2>2, <2>3, <2>4 DEF ListLinked
<1>6. ListComplete(g)
  <2> SUFFICES ASSUME NEW S \in SUBSET G, S # {}
               PROVE  \E b \in S : g.pf[b] \notin S
    BY DEF ListComplete
  <2> DEFINE T == IF d \in S THEN (S \ {d}) \cup {c} ELSE S
  <2>1. T \in SUBSET F /\ T # {}  BY <1>1
  <2>2. PICK b \in T : h.pf[b] \notin T
    BY <2>1 DEF ListOK, ListComplete
  <2>3. CASE b = c
    <3>1. d \in S  BY <1>1, <1>3, <2>3, <2>2
    <3>2. g.pf[d] = h.pf[c]  BY <1>1, <1>2
    <3>3. h.pf[c] # d  BY <1>3 DEF ListOK, ListLinked
    <3>4. h.pf[c] \notin S  BY <1>1, <2>2, <2>3, <3>1, <3>3
    <3> QED  BY <3>1, <3>2, <3>4
  <2>4. CASE b # c /\ b = h.nf[c]
    <3>1. h.pf[b] = c  BY <2>1, <2>2, <2>4, <1>3 DEF ListOK, ListLinked
    <3>2. c \notin T  BY <3>1, <2>2
    <3>3. d \notin S  BY <3>2
    <3>4. b \in S /\ g.pf[b] = d  BY <1>1, <1>2, <1>3, <2>1, <2>4, <3>3
    <3> QED  BY <3>3, <3>4
  <2>5. CASE b # c /\ b # h.nf[c]
    <3>1. b \in S /\ b # d /\ g.pf[b] = h.pf[b]  BY <1>1, <1>2, <1>3, <2>1, <2>5
    <3>2. h.pf[b] # d /\ h.pf[b] # c
      BY <1>3, <2>1, <2>5 DEF ListOK, ListLinked
    <3>3. h.pf[b] \notin S  BY <2>2, <3>2
    <3> QED  BY <3>1, <3>3
  <2> QED  BY <2>3, <2>4, <2>5
<1>7. \A b \in G : g.nf[b] \in G \cup {NULL} /\ g.pf[b] \in G \cup {NULL}
  BY <1>5 DEF ListLinked
<1>8. G \subseteq Nat
  BY <1>1 DEF ListOK
<1> QED  BY <1>1, <1>2, <1>5, <1>6, <1>7, <1>8 DEF ListOK

\* Putting d before all others keeps the list doubly linked and complete.
LEMMA PushedOK ==
  ASSUME NEW h, NEW g, HasFields(h), ListOK(h),
         NEW d \in Nat \ FreeBlocks(h), Pushed(h, g, d)
  PROVE  ListOK(g)
<1> DEFINE F == FreeBlocks(h)
           G == FreeBlocks(g)
<1>1. G = F \cup {d}  BY DEF Pushed
<1>2. /\ g.first = d
      /\ g.nf = [b \in G |-> IF b = d THEN h.first ELSE h.nf[b]]
      /\ g.pf = [b \in G |-> IF b = d THEN NULL ELSE IF b = h.first THEN d ELSE h.pf[b]]
  BY <1>1 DEF Pushed, FreePush, HasFields, ListOK
<1>3. d # NULL /\ d \notin F  OBVIOUS
<1>4. ListLinked(g)
  BY <1>1, <1>2, <1>3 DEF ListOK, ListLinked
<1>5. ListComplete(g)
  <2> SUFFICES ASSUME NEW S \in SUBSET G, S # {}
               PROVE  \E b \in S : g.pf[b] \notin S
    BY DEF ListComplete
  <2>1. CASE d \in S
    <3>1. g.pf[d] = NULL  BY <1>1, <1>2
    <3>2. NULL \notin S  BY <1>1 DEF ListOK
    <3> QED  BY <2>1, <3>1, <3>2
  <2>2. CASE d \notin S
    <3>1. PICK b \in S : h.pf[b] \notin S
      BY <1>1, <2>2 DEF ListOK, ListComplete
    <3> QED  BY <1>1, <1>2, <2>2, <3>1
  <2> QED  BY <2>1, <2>2
<1>6. \A b \in G : g.nf[b] \in G \cup {NULL} /\ g.pf[b] \in G \cup {NULL}
  BY <1>4 DEF ListLinked
<1>7. G \subseteq Nat
  BY <1>1 DEF ListOK
<1> QED  BY <1>1, <1>2, <1>4, <1>5, <1>6, <1>7 DEF ListOK

-----------------------------------------------------------------------------
(***************************************************************************)
(* The tiling                                                              *)
(***************************************************************************)

\* The part of a well-formed heap that the sizes and back pointers are about.
Layout(h) ==
  /\ h.starts \in SUBSET Addr
  /\ h.size \in [h.starts -> 1 .. HeapSize]
  /\ h.prev \in [h.starts -> Pointer]
  /\ Tiled(h)
  /\ BackLinked(h)

\* Where blocks lie, in arithmetic that needs no definition.
LEMMA LayoutFacts ==
  ASSUME NEW h, Layout(h)
  PROVE  /\ HeapSize \in Nat
         /\ \A b \in h.starts :
              /\ b \in Nat /\ b < HeapSize /\ b # NULL
              /\ h.size[b] \in Nat /\ h.size[b] > 0
              /\ NextBlock(h, b) \in Nat
              /\ NextBlock(h, b) = b + h.size[b]
              /\ b < NextBlock(h, b)
              /\ NextBlock(h, b) <= HeapSize
         /\ \A b, c \in h.starts : b < c => NextBlock(h, b) <= c
         /\ \A b, c \in h.starts : NextBlock(h, b) = NextBlock(h, c) => b = c
         /\ \A b \in h.starts :
              NextBlock(h, b) \in h.starts => h.prev[NextBlock(h, b)] = b
<1>1. HeapSize \in Nat
  BY DEF SizeAssumption
<1>2. \A b \in h.starts : b \in 0 .. HeapSize - 1 /\ h.size[b] \in 1 .. HeapSize
  BY DEF Layout, Addr
<1>3. \A b \in h.starts :
        /\ b \in Nat /\ b < HeapSize /\ b # NULL
        /\ h.size[b] \in Nat /\ h.size[b] > 0
        /\ NextBlock(h, b) = b + h.size[b]
        /\ NextBlock(h, b) \in Nat
        /\ b < NextBlock(h, b)
  BY <1>1, <1>2 DEF NextBlock, NullAssumption
<1>4. \A b \in h.starts : NextBlock(h, b) <= HeapSize
  BY <1>1, <1>3 DEF Layout, Tiled
<1>5. \A b, c \in h.starts : b < c => NextBlock(h, b) <= c
  BY DEF Layout, Tiled
<1>6. \A b, c \in h.starts : NextBlock(h, b) = NextBlock(h, c) => b = c
  <2> SUFFICES ASSUME NEW b \in h.starts, NEW c \in h.starts,
                      NextBlock(h, b) = NextBlock(h, c)
               PROVE  b = c
    OBVIOUS
  <2>1. ~ (b < c)  BY <1>3, <1>5
  <2>2. ~ (c < b)  BY <1>3, <1>5
  <2> QED  BY <1>3, <2>1, <2>2
<1>7. ASSUME NEW b \in h.starts, NextBlock(h, b) \in h.starts
      PROVE  h.prev[NextBlock(h, b)] = b
  BY <1>3, <1>6, <1>7 DEF Layout, BackLinked
<1> QED  BY <1>1, <1>3, <1>4, <1>5, <1>6, <1>7

\* g has the blocks of h, with c cut in two after n units, at r.
Cut(h, g, c, n, r) ==
  /\ r = c + n
  /\ g.starts = h.starts \cup {r}
  /\ g.size = [b \in h.starts \cup {r} |->
                 IF b = c THEN n ELSE IF b = r THEN h.size[c] - n ELSE h.size[b]]
  /\ g.prev = [b \in h.starts \cup {r} |->
                 IF b = r THEN c ELSE IF b = NextBlock(h, c) THEN r ELSE h.prev[b]]

\* g has the blocks of h, with p and the block e after it made one.
Joined(h, g, p, e) ==
  /\ g.starts = h.starts \ {e}
  /\ g.size = [b \in h.starts \ {e} |->
                 IF b = p THEN h.size[p] + h.size[e] ELSE h.size[b]]
  /\ g.prev = FixNext(h, h.starts \ {e}, e, p)

\* Cutting a block in two.
LEMMA SplitLayout ==
  ASSUME NEW h, Layout(h), NEW c \in h.starts, NEW n \in Nat, 0 < n, n < h.size[c],
         NEW r, NEW g, Cut(h, g, c, n, r)
  PROVE  /\ Layout(g)
         /\ r \in Nat /\ r \notin h.starts /\ r \in Addr
         /\ NextBlock(g, c) = r
         /\ NextBlock(g, r) = NextBlock(h, c)
         /\ \A b \in h.starts \ {c} : b # r /\ NextBlock(g, b) = NextBlock(h, b)
<1> USE DEF Cut
<1> DEFINE x == NextBlock(h, c)
<1>1. c \in Nat /\ x \in Nat /\ x = c + h.size[c] /\ x <= HeapSize /\ HeapSize \in Nat
  BY LayoutFacts
<1>2. r \in Nat /\ c < r /\ r < x /\ r < HeapSize /\ r - c = n /\ x - r = h.size[c] - n
  BY <1>1, LayoutFacts
<1>3. r \notin h.starts
  BY <1>1, <1>2, LayoutFacts
<1>4. /\ NextBlock(g, c) = r
      /\ NextBlock(g, r) = x
      /\ \A b \in h.starts \ {c} : b # r /\ NextBlock(g, b) = NextBlock(h, b)
  BY <1>1, <1>2, <1>3, LayoutFacts DEF NextBlock
<1>5. /\ g.starts \in SUBSET Addr
      /\ g.size \in [g.starts -> 1 .. HeapSize]
      /\ g.prev \in [g.starts -> Pointer]
  <2>1. \A b \in g.starts : b \in Addr
    BY <1>2 DEF Layout, Addr
  <2>2. n \in 1 .. HeapSize /\ h.size[c] - n \in 1 .. HeapSize
    BY <1>1, <1>2, LayoutFacts
  <2>3. g.size \in [g.starts -> 1 .. HeapSize]
    BY <2>2 DEF Layout
  <2>4. g.prev \in [g.starts -> Pointer]
    BY <1>2, <2>1 DEF Layout, Pointer
  <2> QED  BY <2>1, <2>3, <2>4
<1>6. Tiled(g)
  <2>1. \A b \in g.starts : NextBlock(g, b) = HeapSize \/ NextBlock(g, b) \in g.starts
    BY <1>4 DEF Layout, Tiled
  <2>2. ASSUME NEW b \in g.starts, NEW d \in g.starts, b < d
        PROVE  NextBlock(g, b) <= d
    <3>1. CASE b = r
      BY <1>1, <1>2, <1>4, <2>2, <3>1, LayoutFacts
    <3>2. CASE b = c
      BY <1>1, <1>2, <1>4, <2>2, <3>2, LayoutFacts
    <3>3. CASE b # r /\ b # c
      BY <1>1, <1>2, <1>4, <2>2, <3>3, LayoutFacts
    <3> QED  BY <3>1, <3>2, <3>3
  <2>3. ASSUME NEW a \in Addr PROVE \E b \in g.starts : b <= a /\ a < NextBlock(g, b)
    <3>1. PICK b \in h.starts : b <= a /\ a < NextBlock(h, b)
      BY DEF Layout, Tiled
    <3>2. CASE b # c  BY <1>4, <3>1, <3>2
    <3>3. CASE b = c /\ a < r  BY <1>4, <3>1, <3>3
    <3>4. CASE b = c /\ ~ (a < r)
      <4>1. a \in Nat  BY DEF Addr, SizeAssumption
      <4> QED  BY <1>2, <1>4, <3>1, <3>4, <4>1
    <3> QED  BY <3>2, <3>3, <3>4
  <2> QED  BY <2>1, <2>2, <2>3 DEF Layout, Tiled
<1>7. BackLinked(g)
  <2> SUFFICES ASSUME NEW b \in g.starts
               PROVE  /\ g.prev[b] = NULL <=> b = 0
                      /\ b # 0 => g.prev[b] \in g.starts /\ NextBlock(g, g.prev[b]) = b
    BY DEF BackLinked
  <2>1. CASE b = r
    BY <1>1, <1>2, <1>4, <2>1 DEF NullAssumption
  <2>2. CASE b = x /\ b # r
    BY <1>1, <1>2, <1>4, <2>2 DEF NullAssumption
  <2>3. CASE b # x /\ b # r
    BY <1>4, <2>3, LayoutFacts DEF Layout, BackLinked
  <2> QED  BY <2>1, <2>2, <2>3
<1> QED  BY <1>2, <1>3, <1>4, <1>5, <1>6, <1>7 DEF Layout, Addr

\* Making one block of two neighbours.
LEMMA MergeLayout ==
  ASSUME NEW h, Layout(h), NEW p \in h.starts, NEW e \in h.starts, NextBlock(h, p) = e,
         NEW g, Joined(h, g, p, e)
  PROVE  /\ Layout(g)
         /\ p # e
         /\ NextBlock(g, p) = NextBlock(h, e)
         /\ \A b \in h.starts \ {p, e} : NextBlock(g, b) = NextBlock(h, b)
<1> USE DEF Joined
<1> DEFINE x == NextBlock(h, e)
<1>1. /\ p \in Nat /\ e \in Nat /\ x \in Nat /\ x <= HeapSize /\ HeapSize \in Nat
      /\ h.size[p] \in Nat /\ h.size[e] \in Nat
      /\ p < e /\ e < x /\ e = p + h.size[p] /\ x = e + h.size[e]
  BY LayoutFacts
<1>2. /\ NextBlock(g, p) = x
      /\ \A b \in h.starts \ {p, e} : NextBlock(g, b) = NextBlock(h, b)
  BY <1>1 DEF NextBlock
<1>3. g.prev = [b \in h.starts \ {e} |-> IF b = x THEN p ELSE h.prev[b]]
  BY DEF FixNext
<1>4. /\ g.starts \in SUBSET Addr
      /\ g.size \in [g.starts -> 1 .. HeapSize]
      /\ g.prev \in [g.starts -> Pointer]
  <2>1. h.size[p] + h.size[e] \in 1 .. HeapSize  BY <1>1
  <2>2. p \in Pointer  BY DEF Layout, Pointer
  <2> QED  BY <1>3, <2>1, <2>2 DEF Layout
<1>5. Tiled(g)
  <2>1. ASSUME NEW b \in g.starts
        PROVE  NextBlock(g, b) = HeapSize \/ NextBlock(g, b) \in g.starts
    <3>1. CASE b = p  BY <1>1, <1>2, <3>1 DEF Layout, Tiled
    <3>2. CASE b # p
      <4>1. NextBlock(h, b) # e  BY <3>2, LayoutFacts
      <4> QED  BY <1>2, <3>2, <4>1 DEF Layout, Tiled
    <3> QED  BY <3>1, <3>2
  <2>2. ASSUME NEW b \in g.starts, NEW d \in g.starts, b < d
        PROVE  NextBlock(g, b) <= d
    <3>1. CASE b = p
      BY <1>1, <1>2, <2>2, <3>1, LayoutFacts
    <3>2. CASE b # p
      BY <1>1, <1>2, <2>2, <3>2, LayoutFacts
    <3> QED  BY <3>1, <3>2
  <2>3. ASSUME NEW a \in Addr PROVE \E b \in g.starts : b <= a /\ a < NextBlock(g, b)
    <3>1. PICK b \in h.starts : b <= a /\ a < NextBlock(h, b)
      BY DEF Layout, Tiled
    <3>2. a \in Nat  BY DEF Addr, SizeAssumption
    <3>3. CASE b = e  BY <1>1, <1>2, <3>1, <3>2, <3>3
    <3>4. CASE b = p  BY <1>1, <1>2, <3>1, <3>2, <3>4
    <3>5. CASE b # e /\ b # p  BY <1>2, <3>1, <3>5
    <3> QED  BY <3>3, <3>4, <3>5
  <2>4. 0 \in g.starts
    BY <1>1 DEF Layout, Tiled
  <2> QED  BY <2>1, <2>2, <2>3, <2>4 DEF Tiled
<1>6. BackLinked(g)
  <2> SUFFICES ASSUME NEW b \in g.starts
               PROVE  /\ g.prev[b] = NULL <=> b = 0
                      /\ b # 0 => g.prev[b] \in g.starts /\ NextBlock(g, g.prev[b]) = b
    BY DEF BackLinked
  <2>1. CASE b = x
    <3>1. g.prev[b] = p  BY <1>3, <2>1
    <3>2. p # NULL /\ p \in g.starts /\ b # 0  BY <1>1, <2>1 DEF NullAssumption
    <3> QED  BY <1>2, <2>1, <3>1, <3>2
  <2>2. CASE b # x
    <3>1. g.prev[b] = h.prev[b]  BY <1>3, <2>2
    <3>2. b # 0 => h.prev[b] # e /\ h.prev[b] # p
      BY <2>2 DEF Layout, BackLinked
    <3> QED  BY <1>2, <3>1, <3>2 DEF Layout, BackLinked
  <2> QED  BY <2>1, <2>2
<1> QED  BY <1>1, <1>2, <1>4, <1>5, <1>6 DEF Layout

-----------------------------------------------------------------------------
(***************************************************************************)
(* Allocating                                                              *)
(***************************************************************************)

\* A well-formed heap but for blocks that are too small: what siheap_mrealloc
\* makes for a moment when it splits off less than MinBlock.
Loose(h) ==
  /\ HeapType(h)
  /\ Tiled(h)
  /\ BackLinked(h)
  /\ Coalesced(h)
  /\ ListLinked(h)
  /\ ListComplete(h)

Fields == {"starts", "used", "size", "prev", "first", "nf", "pf"}

\* Such a heap is a tiling and a list, and its free blocks are no neighbours.
LEMMA LooseParts ==
  ASSUME NEW h
  PROVE  Loose(h) <=> /\ DOMAIN h = Fields
                      /\ h.used \in SUBSET h.starts
                      /\ Layout(h)
                      /\ ListOK(h)
                      /\ Coalesced(h)
<1>1. ASSUME Loose(h)
      PROVE  /\ DOMAIN h = Fields
             /\ h.used \in SUBSET h.starts
             /\ Layout(h)
             /\ ListOK(h)
             /\ Coalesced(h)
  <2>1. FreeBlocks(h) \subseteq Nat
    BY <1>1 DEF Loose, HeapType, FreeBlocks, Addr, SizeAssumption
  <2>2. \A b \in FreeBlocks(h) : /\ h.nf[b] \in FreeBlocks(h) \cup {NULL}
                                 /\ h.pf[b] \in FreeBlocks(h) \cup {NULL}
    BY <1>1 DEF Loose, ListLinked
  <2>3. ListOK(h)
    BY <1>1, <2>1, <2>2 DEF Loose, HeapType, ListOK
  <2>4. Layout(h)
    BY <1>1 DEF Loose, HeapType, Layout
  <2> QED  BY <1>1, <2>3, <2>4 DEF Loose, HeapType, Fields
<1>2. ASSUME DOMAIN h = Fields, h.used \in SUBSET h.starts,
             Layout(h), ListOK(h), Coalesced(h)
      PROVE  Loose(h)
  <2>1. FreeBlocks(h) \cup {NULL} \subseteq Pointer
    BY <1>2 DEF Layout, FreeBlocks, Pointer
  <2>2. h.nf \in [FreeBlocks(h) -> Pointer] /\ h.pf \in [FreeBlocks(h) -> Pointer]
    BY <1>2, <2>1 DEF ListOK
  <2>3. h.first \in Pointer
    BY <1>2, <2>1 DEF ListOK, ListLinked, Pointer
  <2>4. HeapType(h)
    BY <1>2, <2>2, <2>3 DEF HeapType, Layout, Fields
  <2> QED  BY <1>2, <2>4 DEF Loose, Layout, ListOK
<1> QED  BY <1>1, <1>2

LEMMA LooseFacts ==
  ASSUME NEW h, Loose(h)
  PROVE  /\ DOMAIN h = Fields
         /\ HasFields(h)
         /\ h.used \in SUBSET h.starts
         /\ Layout(h)
         /\ ListOK(h)
         /\ Coalesced(h)
         /\ FreeBlocks(h) = h.starts \ h.used
<1>1. DOMAIN h = Fields /\ h.used \in SUBSET h.starts /\ Layout(h) /\ ListOK(h) /\ Coalesced(h)
  BY LooseParts
<1> QED  BY <1>1 DEF HasFields, Fields, FreeBlocks

\* siheap_malloc_split, with a new free block.
LEMMA SplitBlockOK ==
  ASSUME NEW h, Loose(h), NEW c \in FreeBlocks(h), NEW n \in Nat, 0 < n, n < h.size[c],
         NEW g, g = SplitBlock(h, c, n)
  PROVE  /\ Loose(g)
         /\ g.starts = h.starts \cup {c + n} /\ g.used = h.used \cup {c}
         /\ g.size[c] = n /\ g.size[c + n] = h.size[c] - n
         /\ \A b \in h.starts \ {c} : b # c + n /\ g.size[b] = h.size[b]
<1> DEFINE r == c + n
           x == NextBlock(h, c)
<1> HIDE DEF r
<1>0. /\ DOMAIN h = Fields /\ HasFields(h) /\ Layout(h) /\ ListOK(h) /\ Coalesced(h)
      /\ c \in h.starts /\ c \notin h.used /\ h.used \in SUBSET h.starts
      /\ FreeBlocks(h) = h.starts \ h.used
  BY LooseFacts
<1>1. /\ DOMAIN g = Fields
      /\ g.starts = h.starts \cup {r}
      /\ g.used = h.used \cup {c}
      /\ g.size = [b \in h.starts \cup {r} |->
                     IF b = c THEN n ELSE IF b = r THEN h.size[c] - n ELSE h.size[b]]
      /\ g.prev = [b \in h.starts \cup {r} |->
                     IF b = r THEN c ELSE IF b = x THEN r ELSE h.prev[b]]
      /\ g.first = FreeReplace(h, c, r).first
      /\ g.nf = FreeReplace(h, c, r).nf
      /\ g.pf = FreeReplace(h, c, r).pf
  BY <1>0 DEF SplitBlock, FreeReplace, Fields, r
<1>2. /\ Layout(g)
      /\ r \in Nat /\ r \notin h.starts /\ r \in Addr
      /\ NextBlock(g, c) = r
      /\ NextBlock(g, r) = x
      /\ \A b \in h.starts \ {c} : b # r /\ NextBlock(g, b) = NextBlock(h, b)
  <2>1. Cut(h, g, c, n, r)  BY <1>1 DEF Cut, r
  <2>2. Layout(h) /\ c \in h.starts  BY <1>0
  <2> QED  BY <2>1, <2>2, SplitLayout
<1>3. FreeBlocks(g) = (FreeBlocks(h) \ {c}) \cup {r}
  BY <1>0, <1>1, <1>2 DEF FreeBlocks
<1>4. ListOK(g)
  <2>1. r \in Nat \ FreeBlocks(h)  BY <1>0, <1>2
  <2>2. Replaced(h, g, c, r)  BY <1>1, <1>3 DEF Replaced
  <2> QED  BY <1>0, <2>1, <2>2, ReplacedOK
<1>5. Coalesced(g)
  <2> SUFFICES ASSUME NEW b \in FreeBlocks(g) PROVE NextBlock(g, b) \notin FreeBlocks(g)
    BY DEF Coalesced
  <2>1. x \notin FreeBlocks(h) /\ x # r
    <3>1. r \in g.starts  BY <1>1
    <3>2. r < x  BY <1>2, <3>1, LayoutFacts
    <3> QED  BY <1>0, <1>2, <3>2 DEF Coalesced
  <2>2. CASE b = r
    BY <1>2, <1>3, <2>1, <2>2
  <2>3. CASE b # r
    <3>1. b \in FreeBlocks(h) \ {c} /\ b \in h.starts  BY <1>0, <1>3, <2>3
    <3>2. NextBlock(g, b) = NextBlock(h, b)  BY <1>2, <3>1
    <3>3. NextBlock(h, b) # r
      <4>1. NextBlock(h, b) = HeapSize \/ NextBlock(h, b) \in h.starts
        BY <1>0, <3>1 DEF Layout, Tiled
      <4>2. r # HeapSize  BY <1>0, <1>1, <1>2, LayoutFacts
      <4> QED  BY <1>2, <4>1, <4>2
    <3>4. NextBlock(h, b) \notin FreeBlocks(h)  BY <1>0, <3>1 DEF Coalesced
    <3> QED  BY <1>3, <3>2, <3>3, <3>4
  <2> QED  BY <2>2, <2>3
<1>6. Loose(g)
  BY <1>0, <1>1, <1>2, <1>4, <1>5, LooseParts
<1>7. c # r  BY <1>0, <1>2
<1>8. /\ g.size[c] = n /\ g.size[r] = h.size[c] - n
      /\ \A b \in h.starts \ {c} : b # r /\ g.size[b] = h.size[b]
  <2>1. g.size[c] = n  BY <1>0, <1>1
  <2>2. g.size[r] = h.size[c] - n  BY <1>1, <1>7
  <2>3. \A b \in h.starts \ {c} : b # r  BY <1>2
  <2>4. \A b \in h.starts \ {c} : g.size[b] = h.size[b]  BY <1>1, <2>3
  <2> QED  BY <2>1, <2>2, <2>3, <2>4
<1> QED  BY <1>1, <1>6, <1>8 DEF r

\* siheap_malloc_split, of a whole block.
LEMMA TakeBlockOK ==
  ASSUME NEW h, Loose(h), NEW c \in FreeBlocks(h), NEW g, g = TakeBlock(h, c)
  PROVE  /\ Loose(g)
         /\ g.starts = h.starts /\ g.used = h.used \cup {c}
         /\ g.size = h.size /\ g.prev = h.prev
<1>0. /\ DOMAIN h = Fields /\ HasFields(h) /\ Layout(h) /\ ListOK(h) /\ Coalesced(h)
      /\ c \in h.starts /\ c \notin h.used /\ h.used \in SUBSET h.starts
      /\ FreeBlocks(h) = h.starts \ h.used
  BY LooseFacts
<1>1. /\ DOMAIN g = Fields
      /\ g.starts = h.starts /\ g.used = h.used \cup {c}
      /\ g.size = h.size /\ g.prev = h.prev
      /\ g.first = FreeRemove(h, c).first
      /\ g.nf = FreeRemove(h, c).nf
      /\ g.pf = FreeRemove(h, c).pf
  BY <1>0 DEF TakeBlock, FreeRemove, Fields
<1>2. FreeBlocks(g) = FreeBlocks(h) \ {c}
  BY <1>0, <1>1 DEF FreeBlocks
<1>3. ListOK(g)
  <2>1. Unlinked(h, g, c)  BY <1>1, <1>2 DEF Unlinked
  <2> QED  BY <1>0, <2>1, UnlinkedOK
<1>4. Layout(g)
  BY <1>0, <1>1 DEF Layout, Tiled, BackLinked, NextBlock
<1>5. Coalesced(g)
  BY <1>0, <1>1, <1>2 DEF Coalesced, NextBlock
<1> QED  BY <1>0, <1>1, <1>3, <1>4, <1>5, LooseParts

\* siheap_malloc_split: c is allocated with at least the n units asked for, and
\* no other allocated block is touched.
LEMMA MallocSplitOK ==
  ASSUME NEW h, Loose(h), NEW c \in FreeBlocks(h), NEW n \in Nat, 0 < n, n <= h.size[c],
         NEW g, g = MallocSplit(h, c, n)
  PROVE  /\ Loose(g)
         /\ g.used = h.used \cup {c} /\ c \in g.starts /\ c \notin h.used
         /\ n <= g.size[c]
         /\ \A b \in h.used : g.size[b] = h.size[b]
         /\ NoSliver(h) => \A b \in g.starts \ {c} : g.size[b] >= MinBlock
<1>0. h.used \in SUBSET h.starts /\ c \in h.starts /\ c \notin h.used /\ h.size[c] \in Nat
  <2>1. Layout(h) /\ h.used \in SUBSET h.starts /\ c \in h.starts /\ c \notin h.used
    BY LooseFacts
  <2> QED  BY <2>1, LayoutFacts
<1>1. CASE n + MinBlock <= h.size[c]
  <2>1. n < h.size[c]  BY <1>0, <1>1 DEF SizeAssumption
  <2>2. g = SplitBlock(h, c, n)  BY <1>1 DEF MallocSplit
  <2>3. /\ Loose(g)
        /\ g.starts = h.starts \cup {c + n} /\ g.used = h.used \cup {c}
        /\ g.size[c] = n /\ g.size[c + n] = h.size[c] - n
        /\ \A b \in h.starts \ {c} : b # c + n /\ g.size[b] = h.size[b]
    BY <2>1, <2>2, SplitBlockOK
  <2>4. NoSliver(h) => \A b \in g.starts \ {c} : g.size[b] >= MinBlock
    <3> SUFFICES ASSUME NoSliver(h), NEW b \in g.starts \ {c}
                 PROVE  g.size[b] >= MinBlock
      OBVIOUS
    <3>1. CASE b = c + n  BY <1>0, <1>1, <2>3, <3>1 DEF SizeAssumption
    <3>2. CASE b # c + n  BY <2>3, <3>2 DEF NoSliver
    <3> QED  BY <3>1, <3>2
  <2>5. \A b \in h.used : b \in h.starts \ {c}  BY <1>0
  <2>6. c \in g.starts /\ n <= g.size[c]  BY <1>0, <2>3
  <2> QED  BY <1>0, <2>3, <2>4, <2>5, <2>6
<1>2. CASE ~ (n + MinBlock <= h.size[c])
  <2>1. g = TakeBlock(h, c)  BY <1>2 DEF MallocSplit
  <2>2. /\ Loose(g)
        /\ g.starts = h.starts /\ g.used = h.used \cup {c}
        /\ g.size = h.size
    BY <2>1, TakeBlockOK
  <2> QED  BY <1>0, <2>2 DEF NoSliver
<1> QED  BY <1>1, <1>2

-----------------------------------------------------------------------------
(***************************************************************************)
(* Freeing                                                                 *)
(***************************************************************************)

\* g is h after e was freed, and is now part of the free block q: no other
\* allocated block is touched.
Freed(h, g, e, q) ==
  /\ Loose(g)
  /\ g.used = h.used \ {e}
  /\ g.starts \subseteq h.starts
  /\ q \in FreeBlocks(g)
  /\ q <= e /\ e < NextBlock(g, q)
  /\ \A b \in h.used \ {e} : g.size[b] = h.size[b]
  /\ \A b \in g.starts : g.size[b] >= h.size[b]

LEMMA FreeAloneOK ==
  ASSUME NEW h, Loose(h), NEW e \in h.used, ~ NextIsFree(h, e), ~ PrevIsFree(h, e),
         NEW g, g = FreeAlone(h, e)
  PROVE  Freed(h, g, e, e)
<1>0. /\ DOMAIN h = Fields /\ HasFields(h) /\ Layout(h) /\ ListOK(h) /\ Coalesced(h)
      /\ h.used \in SUBSET h.starts /\ e \in h.starts /\ e \in Nat
      /\ FreeBlocks(h) = h.starts \ h.used
  BY LooseFacts, LayoutFacts
<1>1. /\ DOMAIN g = Fields
      /\ g.starts = h.starts /\ g.used = h.used \ {e}
      /\ g.size = h.size /\ g.prev = h.prev
      /\ g.first = FreePush(h, e).first
      /\ g.nf = FreePush(h, e).nf
      /\ g.pf = FreePush(h, e).pf
  BY <1>0 DEF FreeAlone, FreePush, Fields
<1>2. FreeBlocks(g) = FreeBlocks(h) \cup {e} /\ e \notin FreeBlocks(h)
  BY <1>0, <1>1 DEF FreeBlocks
<1>3. ListOK(g)
  <2>1. Pushed(h, g, e)  BY <1>1, <1>2 DEF Pushed
  <2> QED  BY <1>0, <1>2, <2>1, PushedOK
<1>4. Layout(g)
  BY <1>0, <1>1 DEF Layout, Tiled, BackLinked, NextBlock
<1>5. \A b \in h.starts : NextBlock(g, b) = NextBlock(h, b) /\ b < NextBlock(g, b)
  BY <1>0, <1>1, LayoutFacts DEF NextBlock
<1>6. Coalesced(g)
  <2> SUFFICES ASSUME NEW b \in FreeBlocks(g) PROVE NextBlock(h, b) \notin FreeBlocks(g)
    BY <1>0, <1>2, <1>5 DEF Coalesced
  <2>1. CASE b = e
    <3>1. NextBlock(h, e) # e  BY <1>0, LayoutFacts
    <3>2. NextBlock(h, e) \notin FreeBlocks(h)
      BY <1>0, LayoutFacts DEF NextIsFree, InRange
    <3> QED  BY <1>2, <2>1, <3>1, <3>2
  <2>2. CASE b # e
    <3>1. b \in FreeBlocks(h) /\ b \in h.starts  BY <1>0, <1>2, <2>2
    <3>2. NextBlock(h, b) # e
      <4> SUFFICES ASSUME NextBlock(h, b) = e PROVE FALSE
        OBVIOUS
      <4>1. h.prev[e] = b /\ b # NULL  BY <1>0, <3>1, LayoutFacts
      <4> QED  BY <3>1, <4>1 DEF PrevIsFree
    <3> QED  BY <1>0, <1>2, <3>1, <3>2 DEF Coalesced
  <2> QED  BY <2>1, <2>2
<1>7. Loose(g)
  BY <1>0, <1>1, <1>3, <1>4, <1>6, LooseParts
<1>8. \A b \in h.starts : h.size[b] >= h.size[b]
  BY <1>0, LayoutFacts
<1> QED  BY <1>0, <1>1, <1>2, <1>5, <1>7, <1>8 DEF Freed

LEMMA FreeAfterFreeOK ==
  ASSUME NEW h, Loose(h), NEW e \in h.used, ~ NextIsFree(h, e), PrevIsFree(h, e),
         NEW g, g = FreeAfterFree(h, e)
  PROVE  Freed(h, g, e, h.prev[e])
<1> DEFINE p == h.prev[e]
<1>0. /\ DOMAIN h = Fields /\ HasFields(h) /\ Layout(h) /\ ListOK(h) /\ Coalesced(h)
      /\ h.used \in SUBSET h.starts /\ e \in h.starts /\ e \in Nat
      /\ FreeBlocks(h) = h.starts \ h.used
  BY LooseFacts, LayoutFacts
<1>1. p \in FreeBlocks(h) /\ p \in h.starts /\ p # e
  BY <1>0 DEF PrevIsFree
<1>2. NextBlock(h, p) = e
  BY <1>0 DEF PrevIsFree, Layout, BackLinked
<1>3. /\ DOMAIN g = Fields
      /\ g.used = h.used \ {e}
      /\ Joined(h, g, p, e)
      /\ g.first = h.first /\ g.nf = h.nf /\ g.pf = h.pf
  BY <1>0 DEF FreeAfterFree, Joined, Fields
<1>4. /\ Layout(g)
      /\ NextBlock(g, p) = NextBlock(h, e)
      /\ \A b \in h.starts \ {p, e} : NextBlock(g, b) = NextBlock(h, b)
  BY <1>0, <1>1, <1>2, <1>3, MergeLayout
<1>5. FreeBlocks(g) = FreeBlocks(h) /\ g.starts = h.starts \ {e}
  BY <1>0, <1>3 DEF FreeBlocks, Joined
<1>6. ListOK(g)
  BY <1>0, <1>3, <1>5 DEF ListOK, ListLinked, ListComplete
<1>7. Coalesced(g)
  <2> SUFFICES ASSUME NEW b \in FreeBlocks(h) PROVE NextBlock(g, b) \notin FreeBlocks(h)
    BY <1>5 DEF Coalesced
  <2>1. CASE b = p
    BY <1>0, <1>4, <2>1, LayoutFacts DEF NextIsFree, InRange
  <2>2. CASE b # p
    BY <1>0, <1>4, <2>2 DEF Coalesced
  <2> QED  BY <2>1, <2>2
<1>8. p <= e /\ e < NextBlock(g, p)
  BY <1>0, <1>1, <1>2, <1>4, LayoutFacts
<1>9. \A b \in g.starts : g.size[b] >= h.size[b] /\ (b # p => g.size[b] = h.size[b])
  <2>1. \A b \in h.starts : h.size[b] \in Nat  BY <1>0, LayoutFacts
  <2> QED  BY <1>0, <1>1, <1>3, <1>5, <2>1 DEF Joined
<1>10. Loose(g)
  BY <1>0, <1>3, <1>4, <1>5, <1>6, <1>7, LooseParts
<1> QED  BY <1>0, <1>1, <1>3, <1>5, <1>8, <1>9, <1>10 DEF Freed

LEMMA FreeBeforeFreeOK ==
  ASSUME NEW h, Loose(h), NEW e \in h.used, NextIsFree(h, e), ~ PrevIsFree(h, e),
         NEW g, g = FreeBeforeFree(h, e)
  PROVE  Freed(h, g, e, e)
<1> DEFINE x == NextBlock(h, e)
<1> HIDE DEF x
<1>0. /\ DOMAIN h = Fields /\ HasFields(h) /\ Layout(h) /\ ListOK(h) /\ Coalesced(h)
      /\ h.used \in SUBSET h.starts /\ e \in h.starts /\ e \in Nat
      /\ FreeBlocks(h) = h.starts \ h.used
  BY LooseFacts, LayoutFacts
<1>1. x \in FreeBlocks(h) /\ x \in h.starts /\ e < x /\ NextBlock(h, e) = x
  BY <1>0, LayoutFacts DEF NextIsFree, x
<1>2. /\ DOMAIN g = Fields
      /\ g.used = h.used \ {e}
      /\ Joined(h, g, e, x)
      /\ g.first = FreeReplace(h, x, e).first
      /\ g.nf = FreeReplace(h, x, e).nf
      /\ g.pf = FreeReplace(h, x, e).pf
  BY <1>0 DEF FreeBeforeFree, FreeReplace, Joined, Fields, x
<1>3. /\ Layout(g)
      /\ NextBlock(g, e) = NextBlock(h, x)
      /\ \A b \in h.starts \ {e, x} : NextBlock(g, b) = NextBlock(h, b)
  BY <1>0, <1>1, <1>2, MergeLayout
<1>4. /\ FreeBlocks(g) = (FreeBlocks(h) \ {x}) \cup {e} /\ e \notin FreeBlocks(h)
      /\ g.starts = h.starts \ {x} /\ e \in g.starts
  BY <1>0, <1>1, <1>2 DEF FreeBlocks, Joined
<1>5. ListOK(g)
  <2>1. Replaced(h, g, x, e)  BY <1>2, <1>4 DEF Replaced
  <2> QED  BY <1>0, <1>1, <1>4, <2>1, ReplacedOK
<1>6. Coalesced(g)
  <2> SUFFICES ASSUME NEW b \in FreeBlocks(g) PROVE NextBlock(g, b) \notin FreeBlocks(g)
    BY DEF Coalesced
  <2>1. CASE b = e
    <3>1. NextBlock(h, x) \notin FreeBlocks(h)  BY <1>0, <1>1 DEF Coalesced
    <3>2. NextBlock(g, e) # e  BY <1>3, <1>4, LayoutFacts
    <3> QED  BY <1>3, <1>4, <2>1, <3>1, <3>2
  <2>2. CASE b # e
    <3>1. b \in FreeBlocks(h) /\ b \in h.starts /\ b # x  BY <1>0, <1>4, <2>2
    <3>2. NextBlock(h, b) # e
      <4> SUFFICES ASSUME NextBlock(h, b) = e PROVE FALSE
        OBVIOUS
      <4>1. h.prev[e] = b /\ b # NULL  BY <1>0, <3>1, LayoutFacts
      <4> QED  BY <3>1, <4>1 DEF PrevIsFree
    <3>3. NextBlock(h, b) \notin FreeBlocks(h)  BY <1>0, <3>1 DEF Coalesced
    <3>4. NextBlock(g, b) = NextBlock(h, b)  BY <1>3, <2>2, <3>1
    <3> QED  BY <1>4, <3>2, <3>3, <3>4
  <2> QED  BY <2>1, <2>2
<1>7. e < NextBlock(g, e)
  BY <1>3, <1>4, LayoutFacts
<1>8. \A b \in g.starts : g.size[b] >= h.size[b] /\ (b # e => g.size[b] = h.size[b])
  <2>1. \A b \in h.starts : h.size[b] \in Nat  BY <1>0, LayoutFacts
  <2> QED  BY <1>0, <1>1, <1>2, <1>4, <2>1 DEF Joined
<1>9. Loose(g)
  <2>1. g.used \in SUBSET g.starts  BY <1>0, <1>1, <1>2, <1>4
  <2> QED  BY <1>2, <1>3, <1>5, <1>6, <2>1, LooseParts
<1>10. e <= e  BY <1>0
<1>11. h.used \ {e} \subseteq g.starts  BY <1>0, <1>1, <1>4
<1> QED  BY <1>0, <1>2, <1>4, <1>7, <1>8, <1>9, <1>10, <1>11 DEF Freed

LEMMA FreeBetweenOK ==
  ASSUME NEW h, Loose(h), NEW e \in h.used, NextIsFree(h, e), PrevIsFree(h, e),
         NEW g, g = FreeBetween(h, e)
  PROVE  Freed(h, g, e, h.prev[e])
<1> DEFINE p == h.prev[e]
           x == NextBlock(h, e)
           m == [starts |-> h.starts \ {e},
                 size |-> [b \in h.starts \ {e} |->
                            IF b = p THEN h.size[p] + h.size[e] ELSE h.size[b]],
                 prev |-> FixNext(h, h.starts \ {e}, e, p)]
<1> HIDE DEF x, p, m
<1>0. /\ DOMAIN h = Fields /\ HasFields(h) /\ Layout(h) /\ ListOK(h) /\ Coalesced(h)
      /\ h.used \in SUBSET h.starts /\ e \in h.starts /\ e \in Nat
      /\ FreeBlocks(h) = h.starts \ h.used
  BY LooseFacts, LayoutFacts
<1>1. p \in FreeBlocks(h) /\ p \in h.starts /\ p # e /\ NextBlock(h, p) = e /\ p < e
  <2>1. p \in FreeBlocks(h) /\ p # NULL  BY DEF PrevIsFree, p
  <2>2. NextBlock(h, p) = e  BY <1>0, <2>1 DEF Layout, BackLinked, p
  <2> QED  BY <1>0, <2>1, <2>2, LayoutFacts
<1>2. /\ x \in FreeBlocks(h) /\ x \in h.starts /\ e < x /\ NextBlock(h, e) = x /\ x # p
      /\ NextBlock(h, x) # x /\ x < NextBlock(h, x)
  BY <1>0, <1>1, LayoutFacts DEF NextIsFree, x
<1>3. Joined(h, m, p, e)
  BY DEF Joined, m
<1>4. /\ Layout(m)
      /\ NextBlock(m, p) = x
      /\ \A b \in h.starts \ {p, e} : NextBlock(m, b) = NextBlock(h, b)
  BY <1>0, <1>1, <1>2, <1>3, MergeLayout
<1>5. /\ m.starts = h.starts \ {e} /\ p \in m.starts /\ x \in m.starts
      /\ m.size[p] = h.size[p] + h.size[e]
      /\ \A b \in h.starts \ {p, e} : m.size[b] = h.size[b]
  BY <1>1, <1>2 DEF m
<1>6. /\ DOMAIN g = Fields
      /\ g.used = h.used \ {e}
      /\ g.starts = h.starts \ {e, x}
      /\ g.size = [b \in h.starts \ {e, x} |->
                    IF b = p THEN h.size[p] + h.size[e] + h.size[x] ELSE h.size[b]]
      /\ g.prev = FixNext(h, h.starts \ {e, x}, x, p)
      /\ g.first = FreeRemove(h, x).first
      /\ g.nf = FreeRemove(h, x).nf
      /\ g.pf = FreeRemove(h, x).pf
  BY <1>0 DEF FreeBetween, FreeRemove, Fields, x, p
<1>7. Joined(m, g, p, x)
  <2>1. h.starts \ {e, x} = m.starts \ {x}  BY <1>5
  <2>2. \A b \in h.starts \ {e, x} :
           (IF b = p THEN h.size[p] + h.size[e] + h.size[x] ELSE h.size[b])
           = (IF b = p THEN m.size[p] + m.size[x] ELSE m.size[b])
    BY <1>1, <1>2, <1>5
  <2>3. \A b \in h.starts \ {e, x} :
           (IF b = NextBlock(h, x) THEN p ELSE h.prev[b])
           = (IF b = NextBlock(m, x) THEN p ELSE m.prev[b])
    BY <1>1, <1>2, <1>4 DEF m, FixNext
  <2> QED  BY <1>6, <2>1, <2>2, <2>3 DEF Joined, FixNext
<1>8. /\ Layout(g)
      /\ NextBlock(g, p) = NextBlock(h, x)
      /\ \A b \in h.starts \ {p, e, x} : NextBlock(g, b) = NextBlock(h, b)
  <2>1. /\ Layout(g)
        /\ NextBlock(g, p) = NextBlock(m, x)
        /\ \A b \in m.starts \ {p, x} : NextBlock(g, b) = NextBlock(m, b)
    BY <1>4, <1>5, <1>7, MergeLayout
  <2> QED  BY <1>2, <1>4, <1>5, <2>1
<1>9. FreeBlocks(g) = FreeBlocks(h) \ {x}
  BY <1>0, <1>1, <1>2, <1>6 DEF FreeBlocks
<1>10. ListOK(g)
  <2>1. Unlinked(h, g, x)  BY <1>6, <1>9 DEF Unlinked
  <2> QED  BY <1>0, <1>2, <2>1, UnlinkedOK
<1>11. Coalesced(g)
  <2> SUFFICES ASSUME NEW b \in FreeBlocks(g) PROVE NextBlock(g, b) \notin FreeBlocks(g)
    BY DEF Coalesced
  <2>1. CASE b = p  BY <1>0, <1>2, <1>8, <1>9, <2>1 DEF Coalesced
  <2>2. CASE b # p
    <3>1. b \in FreeBlocks(h) /\ b \in h.starts \ {p, e, x}  BY <1>0, <1>9, <2>2
    <3>2. NextBlock(g, b) = NextBlock(h, b)  BY <1>8, <3>1
    <3>3. NextBlock(h, b) \notin FreeBlocks(h)  BY <1>0, <3>1 DEF Coalesced
    <3> QED  BY <1>9, <3>2, <3>3
  <2> QED  BY <2>1, <2>2
<1>12. p <= e /\ e < NextBlock(g, p)
  <2>1. p \in Nat /\ x \in Nat /\ NextBlock(h, x) \in Nat
    BY <1>0, <1>1, <1>2, LayoutFacts
  <2> QED  BY <1>0, <1>1, <1>2, <1>8, <2>1
<1>13. \A b \in g.starts : g.size[b] >= h.size[b] /\ (b # p => g.size[b] = h.size[b])
  <2>1. \A b \in h.starts : h.size[b] \in Nat  BY <1>0, LayoutFacts
  <2> QED  BY <1>0, <1>1, <1>2, <1>6, <2>1
<1>14. Loose(g)
  <2>1. g.used \in SUBSET g.starts  BY <1>0, <1>2, <1>6
  <2> QED  BY <1>6, <1>8, <1>10, <1>11, <2>1, LooseParts
<1>15. /\ g.starts \subseteq h.starts
       /\ p \in FreeBlocks(g)
       /\ \A b \in h.used \ {e} : g.size[b] = h.size[b]
  BY <1>0, <1>1, <1>2, <1>6, <1>9, <1>13
<1> QED  BY <1>6, <1>12, <1>13, <1>14, <1>15 DEF Freed, p

\* siheap_mfree_inner.
LEMMA MFreeInnerOK ==
  ASSUME NEW h, Loose(h), NEW e \in h.used
  PROVE  Freed(h, MFreeInner(h, e), e, MergedBlock(h, e))
BY FreeBetweenOK, FreeBeforeFreeOK, FreeAfterFreeOK, FreeAloneOK DEF MFreeInner, MergedBlock

-----------------------------------------------------------------------------
(***************************************************************************)
(* Growing in place, and the empty heap                                    *)
(***************************************************************************)

LEMMA GrowInPlaceOK ==
  ASSUME NEW h, Loose(h), NEW e \in h.used, NEW n \in Nat,
         h.size[e] < n, CanGrow(h, e, n),
         NEW g, g = GrowInPlace(h, e, n)
  PROVE  /\ Loose(g)
         /\ g.used = h.used
         /\ n <= g.size[e]
         /\ \A b \in h.used \ {e} : g.size[b] = h.size[b]
         /\ NoSliver(h) => NoSliver(g)
<1> DEFINE x == NextBlock(h, e)
           d == n - h.size[e]
           s == MallocSplit(h, x, d)
<1> HIDE DEF s, d, x
<1>0. /\ Layout(h) /\ h.used \in SUBSET h.starts /\ e \in h.starts
      /\ FreeBlocks(h) = h.starts \ h.used
      /\ e \in Nat /\ h.size[e] \in Nat /\ NextBlock(h, e) = e + h.size[e] /\ e < x
      /\ x = NextBlock(h, e)
  BY LooseFacts, LayoutFacts DEF x
<1>1. x \in FreeBlocks(h) /\ x \in h.starts /\ h.size[x] \in Nat
  BY <1>0, LayoutFacts DEF CanGrow, NextIsFree
<1>2. d \in Nat /\ 0 < d /\ d <= h.size[x] /\ d = n - h.size[e]
  BY <1>0, <1>1 DEF CanGrow, d, x
<1>3. /\ Loose(s)
      /\ s.used = h.used \cup {x} /\ x \in s.starts /\ x \notin h.used
      /\ d <= s.size[x]
      /\ \A b \in h.used : s.size[b] = h.size[b]
      /\ NoSliver(h) => \A b \in s.starts \ {x} : s.size[b] >= MinBlock
  BY <1>1, <1>2, MallocSplitOK DEF s
<1>4. /\ DOMAIN s = Fields /\ Layout(s) /\ ListOK(s) /\ Coalesced(s)
      /\ s.used \in SUBSET s.starts
      /\ FreeBlocks(s) = s.starts \ s.used
  BY <1>3, LooseFacts
<1>5. e \in s.starts /\ e # x /\ s.size[e] = h.size[e] /\ NextBlock(s, e) = x
  BY <1>0, <1>3, <1>4 DEF NextBlock
<1>6. /\ DOMAIN g = Fields
      /\ g.used = h.used
      /\ Joined(s, g, e, x)
      /\ g.first = s.first /\ g.nf = s.nf /\ g.pf = s.pf
  <2>1. g = [s EXCEPT
              !.starts = s.starts \ {x},
              !.used = @ \ {x},
              !.size = [b \in s.starts \ {x} |->
                         IF b = e THEN s.size[e] + s.size[x] ELSE @[b]],
              !.prev = FixNext(s, s.starts \ {x}, x, e)]
    BY DEF GrowInPlace, s, d, x
  <2> QED  BY <1>3, <1>4, <2>1 DEF Joined, Fields
<1>7. /\ Layout(g)
      /\ NextBlock(g, e) = NextBlock(s, x)
      /\ \A b \in s.starts \ {e, x} : NextBlock(g, b) = NextBlock(s, b)
  BY <1>3, <1>4, <1>5, <1>6, MergeLayout
<1>8. /\ FreeBlocks(g) = FreeBlocks(s) /\ g.starts = s.starts \ {x}
      /\ e \notin FreeBlocks(s) /\ x \notin FreeBlocks(s)
  BY <1>3, <1>4, <1>6 DEF FreeBlocks, Joined
<1>9. ListOK(g)
  BY <1>4, <1>6, <1>8 DEF ListOK, ListLinked, ListComplete
<1>10. Coalesced(g)
  BY <1>4, <1>7, <1>8 DEF Coalesced
<1>11. Loose(g)
  <2>1. g.used \in SUBSET g.starts  BY <1>0, <1>3, <1>4, <1>6, <1>8
  <2> QED  BY <1>6, <1>7, <1>9, <1>10, <2>1, LooseParts
<1>12. /\ g.size[e] = s.size[e] + s.size[x]
       /\ \A b \in s.starts \ {e, x} : g.size[b] = s.size[b]
  BY <1>5, <1>6 DEF Joined
<1>13. s.size[x] \in Nat
  BY <1>3, <1>4, LayoutFacts
<1>14. n <= g.size[e] /\ g.size[e] >= h.size[e]
  BY <1>0, <1>2, <1>3, <1>5, <1>12, <1>13
<1>15. \A b \in h.used \ {e} : g.size[b] = h.size[b]
  BY <1>3, <1>4, <1>12
<1>16. NoSliver(h) => NoSliver(g)
  <2> SUFFICES ASSUME NoSliver(h), NEW b \in g.starts PROVE g.size[b] >= MinBlock
    BY DEF NoSliver
  <2>1. CASE b = e
    <3>1. h.size[e] >= MinBlock /\ g.size[e] \in Nat
      BY <1>0, <1>5, <1>12, <1>13 DEF NoSliver
    <3> QED  BY <1>0, <1>14, <2>1, <3>1 DEF SizeAssumption
  <2>2. CASE b # e  BY <1>3, <1>8, <1>12, <2>2
  <2> QED  BY <2>1, <2>2
<1> QED  BY <1>6, <1>11, <1>14, <1>15, <1>16

LEMMA InitHeapOK == WellFormed(InitHeap)
<1> DEFINE h == InitHeap
<1>1. /\ h.starts = {0} /\ h.used = {} /\ h.size = [b \in {0} |-> HeapSize]
      /\ h.prev = [b \in {0} |-> NULL] /\ h.first = 0
      /\ h.nf = [b \in {0} |-> NULL] /\ h.pf = [b \in {0} |-> NULL]
      /\ FreeBlocks(h) = {0}
  BY DEF InitHeap, FreeBlocks
<1>2. HeapSize \in Nat /\ HeapSize >= MinBlock /\ HeapSize > 0 /\ 0 \in Addr /\ 0 # NULL
  BY DEF SizeAssumption, NullAssumption, Addr
<1>3. HeapType(h)
  <2>1. DOMAIN h = {"starts", "used", "size", "prev", "first", "nf", "pf"}
    BY DEF InitHeap
  <2> QED  BY <1>1, <1>2, <2>1 DEF HeapType, Pointer
<1>4. Tiled(h)
  BY <1>1, <1>2 DEF Tiled, NextBlock, Addr
<1>5. NoSliver(h) /\ BackLinked(h) /\ Coalesced(h)
  BY <1>1, <1>2 DEF NoSliver, BackLinked, Coalesced, NextBlock
<1>6. ListLinked(h) /\ ListComplete(h)
  BY <1>1, <1>2 DEF ListLinked, ListComplete
<1> QED  BY <1>3, <1>4, <1>5, <1>6 DEF WellFormed

LEMMA WellFormedParts ==
  ASSUME NEW h
  PROVE  WellFormed(h) <=> Loose(h) /\ NoSliver(h)
BY DEF WellFormed, Loose
=============================================================================
