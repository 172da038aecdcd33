------------------------------ MODULE RefHeap ------------------------------
(***************************************************************************)
(* The objects of the Pynter heap and how they are given back: reference   *)
(* counting (siheap_ref, siheap_deref, siheap_mfree of heap.h), and the    *)
(* mark-and-sweep collector (memory.c) that malloc runs when it finds no   *)
(* block, which takes the cycles.                                          *)
(*                                                                         *)
(* A destructor dereferences the fields of its object one after the other, *)
(* and each of them may be freed in turn before the next: the calls are    *)
(* nested.  The sweep runs destructors too, on objects whose counts it has *)
(* set to zero, and in cycles.  So destructors, marking and the sweep are  *)
(* taken one object or one field at a time.                                *)
(*                                                                         *)
(* The program is abstracted to what it does with references.  They are in *)
(* roots (entries of the operand stack, sistate.env) or in fields          *)
(* of objects (entries and parent of an environment, elements of an array, *)
(* the two halves of a string, arguments of a continuation, the            *)
(* environment of a function or of a frame).  Objects are numbered by      *)
(* their address.                                                          *)
(*                                                                         *)
(* An array and its array_data are one object here, although the elements  *)
(* are in a block of their own.  The difference shows in one place: the    *)
(* sweep may come to the data before it comes to the array, and writes the *)
(* links of a free block over the first elements (Overwrite).  Any object  *)
(* may be an array.                                                        *)
(***************************************************************************)
EXTENDS Integers, Sequences, FiniteSets

CONSTANTS
  N,         \* the heap has room for N objects
  Fields,    \* their fields, in the order the destructors take them
  Overlaid,  \* those that are, in an array, elements under the links of a free
             \* block: data[0] and data[1]
  Root,      \* the entries of the stack and sistate.env
  RcMod,     \* 2^16: refcount is an uint16_t
  MaxMissed, \* bound on missed, below
  NULL

ASSUME ObjAssumption == N \in Nat
ASSUME FieldAssumption == Fields \subseteq Nat /\ IsFiniteSet(Fields)
ASSUME OverlaidAssumption == Overlaid \subseteq Fields
ASSUME MissedAssumption == MaxMissed \in Nat
ASSUME RootAssumption == IsFiniteSet(Root) /\ Root \cap ((1 .. N) \X Fields) = {}
ASSUME RcAssumption == RcMod \in Nat /\ RcMod > 2
ASSUME NullAssumption == NULL \notin (1 .. N) \cup Root \cup ((1 .. N) \X Fields)

Obj == 1 .. N
Loc == Root \cup (Obj \X Fields)

VARIABLES
  alloc,      \* the objects in use: type other than sitype_free
  ref,        \* what each location refers to
  rc,         \* refcount
  left,       \* the fields that the destructor has not come to
  destroying, \* the destructors that run, the innermost last (flag_destroying)
  missed,     \* history: of each object, the references to it that have been
              \* overwritten and are counted for ever
  put,        \* the location sienv_put or siarray_put is about to overwrite
  value,      \* and the root its new value is passed in
  mode,       \* "run", "mark" or "sweep"
  gray,       \* the calls of siheap_mark to come
  marked,     \* flag_marked
  cur,        \* the curr pointer of siheap_sweep
  kept        \* history: what was marked when the sweep began

graph == <<alloc, ref>>
counts == <<rc, left, destroying, missed>>
store == <<put, value>>
collector == <<mode, gray, marked, cur, kept>>
vars == <<graph, counts, store, collector>>

Init ==
  /\ alloc = {}
  /\ ref = [l \in Loc |-> NULL]
  /\ rc = [o \in Obj |-> 0]
  /\ left = [o \in Obj |-> {}]
  /\ destroying = <<>>
  /\ missed = [o \in Obj |-> 0]
  /\ put = NULL
  /\ value = NULL
  /\ mode = "run"
  /\ gray = {}
  /\ marked = {}
  /\ cur = 1
  /\ kept = {}

-----------------------------------------------------------------------------
(***************************************************************************)
(* Reference counting                                                      *)
(***************************************************************************)

Destroying == {destroying[i] : i \in DOMAIN destroying}

\* Mutant of Incremented: siheap_ref is forgotten.
Incremented_Forgotten(o) == rc
Incremented(o) == [rc EXCEPT ![o] = (@ + 1) % RcMod]

\* Mutant of Deref: a count that is zero is decremented too.
Deref_BelowZero(o) ==
  IF o \in Destroying
  THEN UNCHANGED <<rc, destroying>>
  ELSE /\ rc' = [rc EXCEPT ![o] = @ - 1]
       /\ destroying' = IF rc[o] = 1 /\ o \in alloc
                        THEN Append(destroying, o) ELSE destroying

\* Mutant of Deref: an object that loses its last reference is left.
Deref_Leak(o) ==
  /\ rc' = IF o \in Destroying \/ rc[o] = 0 THEN rc ELSE [rc EXCEPT ![o] = @ - 1]
  /\ UNCHANGED destroying

\* siheap_deref: nothing for an object that is being destroyed or whose count
\* is zero; the destructor of an object that loses its last reference.
Deref(o) ==
  IF o \in Destroying \/ rc[o] = 0
  THEN UNCHANGED <<rc, destroying>>
  ELSE /\ rc' = [rc EXCEPT ![o] = @ - 1]
       /\ destroying' = IF rc[o] = 1 /\ o \in alloc
                        THEN Append(destroying, o) ELSE destroying

\* siheap_derefbox.
DerefBox(v) == IF v = NULL THEN UNCHANGED <<rc, destroying>> ELSE Deref(v)

\* The innermost destructor dereferences its next field,
DestroyField ==
  /\ destroying # <<>>
  /\ LET o == destroying[Len(destroying)]
     IN  \E f \in left[o] :
           /\ \A g \in left[o] : f <= g
           /\ left' = [left EXCEPT ![o] = @ \ {f}]
           /\ DerefBox(ref[<<o, f>>])
  /\ UNCHANGED <<graph, missed, store, collector>>

\* and returns after the last of them; then siheap_mfree_inner frees the object.
DestroyEnd ==
  /\ destroying # <<>>
  /\ LET o == destroying[Len(destroying)]
     IN  /\ left[o] = {}
         /\ alloc' = alloc \ {o}
  /\ destroying' = SubSeq(destroying, 1, Len(destroying) - 1)
  /\ UNCHANGED <<ref, rc, left, missed, store, collector>>

-----------------------------------------------------------------------------
(***************************************************************************)
(* The program                                                             *)
(***************************************************************************)

Running == mode = "run" /\ destroying = <<>> /\ put = NULL

\* The locations that the program gets at: roots, and fields of what they refer
\* to.  (It gets at others by loading references to their objects first.)
FieldsOf(R) == {<<ref[r], f>> : r \in {q \in R : ref[q] # NULL}, f \in Fields}
Near == Root \cup FieldsOf(Root)

\* siheap_malloc: the new object has one reference, its creator's.  It may get
\* a reference of its own to another one (parent of sienv_new, env of
\* sifunction_new, the halves of sistrpair_new), which is counted.
New(l, o) ==
  /\ Running
  /\ ref[l] = NULL
  /\ o \notin alloc
  /\ alloc' = alloc \cup {o}
  /\ left' = [left EXCEPT ![o] = Fields]
  /\ \/ /\ ref' = [k \in Loc |-> IF k = l THEN o
                                 ELSE IF k \in {o} \X Fields THEN NULL ELSE ref[k]]
        /\ rc' = [rc EXCEPT ![o] = 1]
     \/ \E p \in Near, f \in Fields :
          /\ ref[p] # NULL
          /\ ref' = [k \in Loc |-> IF k = l THEN o
                                   ELSE IF k = <<o, f>> THEN ref[p]
                                   ELSE IF k \in {o} \X Fields THEN NULL ELSE ref[k]]
          /\ rc' = [Incremented(ref[p]) EXCEPT ![o] = 1]
  /\ UNCHANGED <<destroying, missed, store, collector>>

\* A reference is copied to the stack: siheap_refbox, sistack_push (op_ldl,
\* op_ldp, op_lda, op_dup).
Load(l, m) ==
  /\ Running
  /\ ref[l] # NULL
  /\ ref[m] = NULL
  /\ ref' = [ref EXCEPT ![m] = ref[l]]
  /\ rc' = Incremented(ref[l])
  /\ UNCHANGED <<alloc, left, destroying, missed, store, collector>>

\* A reference is moved, and its count stays: arguments from the stack to the
\* new environment, sistate.env to a frame and back, results to the stack.
Move(l, m) ==
  /\ Running
  /\ ref[l] # NULL
  /\ ref[m] = NULL
  /\ ref' = [ref EXCEPT ![m] = ref[l], ![l] = NULL]
  /\ UNCHANGED <<alloc, counts, store, collector>>

\* siheap_derefbox(sistack_pop()), or siheap_deref(sistate.env).
Pop(m) ==
  /\ Running
  /\ ref[m] # NULL
  /\ ref' = [ref EXCEPT ![m] = NULL]
  /\ Deref(ref[m])
  /\ UNCHANGED <<alloc, left, missed, store, collector>>

\* sienv_put, siarray_put: the value in root m is moved to field l of an object
\* that another root refers to.  The old reference is dropped first, and only
\* when all its destructors have returned is the field overwritten.
Put(m, l) ==
  /\ Running
  /\ l \in FieldsOf(Root \ {m})
  /\ put' = l
  /\ value' = m
  /\ DerefBox(ref[l])
  /\ UNCHANGED <<graph, left, missed, collector>>

PutEnd ==
  /\ put # NULL
  /\ destroying = <<>>
  /\ ref' = [ref EXCEPT ![put] = ref[value], ![value] = NULL]
  /\ put' = NULL
  /\ value' = NULL
  /\ UNCHANGED <<alloc, counts, collector>>

-----------------------------------------------------------------------------
(***************************************************************************)
(* The collector                                                           *)
(***************************************************************************)

\* siheap_mark_sweep, called by siheap_malloc_find when no block is large
\* enough, whatever the number of objects: the roots are to be marked.
Collect ==
  /\ Running
  /\ mode' = "mark"
  /\ gray' = {ref[l] : l \in Root} \ {NULL}
  /\ UNCHANGED <<graph, counts, store, marked, cur, kept>>

\* Mutant of MarkStep: what the object refers to is not marked.
MarkStep_Shallow(o) ==
  /\ mode = "mark"
  /\ o \in gray
  /\ marked' = marked \cup {o}
  /\ gray' = gray \ {o}
  /\ UNCHANGED <<graph, counts, store, mode, cur, kept>>

\* Mutant of MarkStep: marked objects are marked again.
MarkStep_Again(o) ==
  /\ mode = "mark"
  /\ o \in gray
  /\ marked' = marked \cup {o}
  /\ gray' = (gray \ {o}) \cup ({ref[<<o, f>>] : f \in Fields} \ {NULL})
  /\ UNCHANGED <<graph, counts, store, mode, cur, kept>>

\* siheap_mark: an object is marked, and what it refers to is to be marked.
MarkStep(o) ==
  /\ mode = "mark"
  /\ o \in gray
  /\ marked' = marked \cup {o}
  /\ gray' = (gray \cup ({ref[<<o, f>>] : f \in Fields} \ {NULL})) \ marked'
  /\ UNCHANGED <<graph, counts, store, mode, cur, kept>>

MarkEnd ==
  /\ mode = "mark"
  /\ gray = {}
  /\ mode' = "sweep"
  /\ cur' = 1
  /\ kept' = marked
  /\ UNCHANGED <<graph, counts, store, gray, marked>>

Sweeping == mode = "sweep" /\ destroying = <<>>

\* Mutant of SweepKeep: it also passes over objects that still have references.
SweepKeep_Counted ==
  /\ Sweeping
  /\ cur <= N
  /\ cur \in marked \/ cur \notin alloc \/ rc[cur] # 0
  /\ marked' = marked \ {cur}
  /\ cur' = cur + 1
  /\ UNCHANGED <<graph, counts, store, mode, gray, kept>>

\* siheap_sweep passes over a free block, or a marked object, which it unmarks.
SweepKeep ==
  /\ Sweeping
  /\ cur <= N
  /\ cur \in marked \/ cur \notin alloc
  /\ marked' = marked \ {cur}
  /\ cur' = cur + 1
  /\ UNCHANGED <<graph, counts, store, mode, gray, kept>>

\* The sweep frees the data of an unmarked array before the array.  The links
\* that siheap_mfree_inner sets are written over element f, so siarray_destroy
\* finds no reference there.  (One to an object that is free is not missed.)
Overwrite(o, f) ==
  /\ Sweeping
  /\ o \in alloc \ kept
  /\ f \in left[o] \cap Overlaid
  /\ ref[<<o, f>>] \in alloc
  /\ missed[ref[<<o, f>>]] < MaxMissed
  /\ left' = [left EXCEPT ![o] = @ \ {f}]
  /\ missed' = [missed EXCEPT ![ref[<<o, f>>]] = @ + 1]
  /\ UNCHANGED <<graph, rc, destroying, store, collector>>

\* Mutant of SweepFree: the mark is not looked at.
SweepFree_Marked ==
  /\ Sweeping
  /\ cur \in alloc
  /\ rc' = [rc EXCEPT ![cur] = 0]
  /\ destroying' = <<cur>>
  /\ missed' = [missed EXCEPT ![cur] = 0]
  /\ cur' = cur + 1
  /\ UNCHANGED <<graph, left, store, mode, gray, marked, kept>>

\* It clears the count of an unmarked object and destroys it.
SweepFree ==
  /\ Sweeping
  /\ cur \in alloc \ marked
  /\ rc' = [rc EXCEPT ![cur] = 0]
  /\ destroying' = <<cur>>
  /\ missed' = [missed EXCEPT ![cur] = 0]
  /\ cur' = cur + 1
  /\ UNCHANGED <<graph, left, store, mode, gray, marked, kept>>

SweepEnd ==
  /\ Sweeping
  /\ cur > N
  /\ mode' = "run"
  /\ cur' = 1
  /\ kept' = {}
  /\ UNCHANGED <<graph, counts, store, gray, marked>>

-----------------------------------------------------------------------------
Program ==
  \/ \E l \in Root, o \in Obj : New(l, o)
  \/ \E l \in Near, m \in Root : Load(l, m)
  \/ \E l \in Near, m \in Near : Move(l, m)
  \/ \E m \in Root : Pop(m)
  \/ \E m \in Root, l \in Obj \X Fields : Put(m, l)
  \/ Collect

Mark == MarkEnd \/ \E o \in Obj : MarkStep(o)
Sweep ==
  \/ SweepKeep \/ SweepFree \/ SweepEnd
  \/ \E o \in Obj, f \in Fields : Overwrite(o, f)
Memory == DestroyField \/ DestroyEnd \/ PutEnd \/ Mark \/ Sweep

Next == Program \/ Memory

Spec == Init /\ [][Next]_vars

\* Memory management runs to its end inside one instruction.
FairSpec == Spec /\ WF_vars(Memory)

-----------------------------------------------------------------------------
(***************************************************************************)
(* Properties                                                              *)
(***************************************************************************)

TypeOK ==
  /\ alloc \in SUBSET Obj
  /\ ref \in [Loc -> Obj \cup {NULL}]
  /\ rc \in [Obj -> 0 .. RcMod - 1]
  /\ left \in [Obj -> SUBSET Fields]
  /\ destroying \in Seq(Obj)
  /\ missed \in [Obj -> 0 .. MaxMissed]
  /\ put \in (Obj \X Fields) \cup {NULL}
  /\ value \in Root \cup {NULL}
  /\ mode \in {"run", "mark", "sweep"}
  /\ gray \in SUBSET Obj
  /\ marked \in SUBSET Obj
  /\ cur \in 1 .. N + 1
  /\ kept \in SUBSET Obj

\* The locations whose reference is counted: not those that a destructor, or
\* the assignment in progress, has already given up.
Held == (Root \cup {l \in Obj \X Fields : l[1] \in alloc /\ l[2] \in left[l[1]]}) \ {put}
RefsTo(o) == {l \in Held : ref[l] = o}

\* The reference count of an object that is not being destroyed is the number of
\* references to it and of those that the sweep has overwritten: nothing else is
\* lost, and nothing is given back twice.
RefcountExact ==
  \A o \in alloc \ Destroying : rc[o] = Cardinality(RefsTo(o)) + missed[o]

\* impl.md:53-54: between two instructions the live reference count
\* tallies with the actual number of references (debug_memorycheck.c:250).
CountsTally == Running => \A o \in alloc : rc[o] = Cardinality(RefsTo(o))

\* No root refers to an object that is free or being destroyed, and neither
\* does a field of an object in use; in a sweep, a field of one that is kept.
NoDangling ==
  \A l \in Held :
    /\ ref[l] # NULL
    /\ l \in Root \/ mode # "sweep" \/ l[1] \in kept
    => ref[l] \in alloc \ Destroying

\* Nothing of all this shows: to the program the heap is a graph of objects in a
\* memory without end.  An assignment shows at once.
Assigned ==
  IF put = NULL THEN ref ELSE [ref EXCEPT ![put] = ref[value], ![value] = NULL]
Seen == INSTANCE ObjectGraph WITH view <- Assigned
Graph == INSTANCE ObjectGraph WITH view <- Seen!Visible(Assigned)
ImplementsGraph == Graph!Spec

\* What the roots lead to.
Reachable == Seen!Reach(ref)

\* The collector marks what the program can reach and nothing else,
MarksReachable == mode = "sweep" => kept = Reachable

\* so a collection leaves no garbage, cycles or not;
CollectionComplete == [][ SweepEnd => alloc = Reachable ]_vars

\* between collections only cycles are left, and what a reference was missed to:
\* any other object that nothing refers to is never in use.
NoOrphan ==
  Running => \A o \in alloc : rc[o] # 0 /\ (missed[o] = 0 => RefsTo(o) # {})

\* Destructors end, however objects refer to each other, and so do the marking
\* and the sweep.
Settles == (~ Running) ~> Running
=============================================================================
