--------------------------- MODULE RefHeap_proof ----------------------------
(***************************************************************************)
(* The counts tally with the references and with those that a sweep wrote  *)
(* over, nothing that the program can reach is freed, a collection frees   *)
(* all else, and nothing of this shows to the program: for any number of   *)
(* objects, fields and roots, as long as no count can wrap around.         *)
(***************************************************************************)
EXTENDS RefHeap, FiniteSetTheorems, SequenceTheorems, TLAPS

USE ObjAssumption, FieldAssumption, RootAssumption, RcAssumption, NullAssumption

\* No object can have so many references that its count wraps around.
CountsFit == Cardinality(Loc) + MaxMissed < RcMod

\* Objects in use whose destructor is not running.
Alive == alloc \ Destroying

\* An object is alive as long as it is referred to, or a reference to it is missed.
CountsOK ==
  /\ \A o \in Alive : rc[o] = Cardinality(RefsTo(o)) + missed[o] /\ rc[o] # 0
  /\ \A o \in Obj \ Alive : rc[o] = 0 /\ missed[o] = 0

\* The fields of what is alive are intact; in a sweep, of what is kept.
WholeOK == \A o \in Alive : (mode = "sweep" => o \in kept) => left[o] = Fields

\* No destructor runs twice at a time.
DestroyOK ==
  /\ Destroying \subseteq alloc
  /\ \A i, j \in DOMAIN destroying : destroying[i] = destroying[j] => i = j
  /\ mode = "mark" => destroying = <<>>

\* What sienv_put and siarray_put write to stays alive: another root refers to it.
PutOK ==
  put # NULL =>
    /\ mode = "run"
    /\ value \in Root
    /\ put \in Obj \X Fields
    /\ \E r \in Root \ {value} : ref[r] = put[1]

RefsOK == mode # "sweep" => \A l \in Held : ref[l] # NULL => ref[l] \in Alive

\* The roots, and the fields of the objects in S, lead to T;
Lead(S, T) ==
  \A l \in Root \cup (S \X Fields) : ref[l] # NULL => ref[l] \in T
\* each object in T is referred to by a root or an object in S.
Supported(S, T) ==
  \A o \in T : \E l \in Root \cup (S \X Fields) : ref[l] = o

MarkOK ==
  mode = "mark" =>
    /\ marked \cup gray \subseteq alloc \cap Reachable
    /\ Lead(marked, marked \cup gray)
    /\ Supported(marked, marked \cup gray)

\* The sweep has passed over what was marked and destroyed all else.
SweepOK ==
  mode = "sweep" =>
    /\ kept \subseteq Alive
    /\ kept = Reachable
    /\ Lead(kept, kept)
    /\ Supported(kept, kept)
    /\ marked = {o \in kept : o >= cur}
    /\ \A o \in alloc : o < cur => o \in kept \cup Destroying

Inv ==
  /\ TypeOK /\ CountsOK /\ WholeOK /\ DestroyOK /\ PutOK /\ RefsOK /\ MarkOK /\ SweepOK
  /\ mode = "run" => marked = {}

-----------------------------------------------------------------------------
(***************************************************************************)
(* Sets of locations and the stack of destructors                          *)
(***************************************************************************)

LEMMA Kinds ==
  /\ NULL \notin Obj /\ NULL \notin Root /\ NULL \notin Obj \X Fields
  /\ Root \cap (Obj \X Fields) = {}
  /\ \A x \in Obj, f \in Fields : <<x, f>> \notin Root /\ <<x, f>> # NULL
<1>1. /\ NULL \notin Obj /\ NULL \notin Root /\ NULL \notin Obj \X Fields
      /\ Root \cap (Obj \X Fields) = {}
  BY DEF Obj
<1>2. \A x \in Obj, f \in Fields : <<x, f>> \in Obj \X Fields  OBVIOUS
<1> QED  BY <1>1, <1>2

LEMMA LocFinite == IsFiniteSet(Loc)
<1>1. IsFiniteSet(Obj)  BY FS_Interval DEF Obj
<1>2. IsFiniteSet(Obj \X Fields)  BY <1>1, FS_Product
<1> QED  BY <1>2, FS_Union DEF Loc

LEMMA LocSet ==
  ASSUME NEW S \in SUBSET Loc
  PROVE  /\ IsFiniteSet(S) /\ Cardinality(S) \in Nat /\ Cardinality(S) <= Cardinality(Loc)
         /\ Cardinality(S) = 0 <=> S = {}
BY LocFinite, FS_Subset, FS_CardinalityType, FS_EmptySet

LEMMA Added ==
  ASSUME NEW S \in SUBSET Loc, NEW l \in Loc \ S
  PROVE  Cardinality(S \cup {l}) = Cardinality(S) + 1
BY LocSet, FS_AddElement

LEMMA Removed ==
  ASSUME NEW S \in SUBSET Loc, NEW l \in S
  PROVE  /\ Cardinality(S \ {l}) = Cardinality(S) - 1
         /\ Cardinality(S) = 1 => S = {l}
<1>1. Cardinality(S \ {l}) = Cardinality(S) - 1  BY LocSet, FS_RemoveElement
<1>2. S \ {l} \in SUBSET Loc  OBVIOUS
<1>3. Cardinality(S \ {l}) = 0 <=> S \ {l} = {}  BY <1>2, LocSet
<1> QED  BY <1>1, <1>3

\* In the place of one reference there is another one.
LEMMA Replaced ==
  ASSUME NEW S \in SUBSET Loc, NEW l \in S, NEW k \in Loc \ S
  PROVE  Cardinality((S \ {l}) \cup {k}) = Cardinality(S)
<1>1. Cardinality(S \ {l}) = Cardinality(S) - 1  BY Removed
<1>2. S \ {l} \in SUBSET Loc /\ k \in Loc \ (S \ {l})  OBVIOUS
<1>3. Cardinality((S \ {l}) \cup {k}) = Cardinality(S \ {l}) + 1  BY <1>2, Added
<1> QED  BY <1>1, <1>3, LocSet

LEMMA HeldIsLoc == Held \subseteq Loc /\ \A o : RefsTo(o) \in SUBSET Loc
BY DEF Held, RefsTo, Loc

LEMMA Appended ==
  ASSUME NEW s \in Seq(Obj), NEW o \in Obj
  PROVE  /\ Append(s, o) \in Seq(Obj)
         /\ {Append(s, o)[i] : i \in DOMAIN Append(s, o)} = {s[i] : i \in DOMAIN s} \cup {o}
         /\ ((\A i, j \in DOMAIN s : s[i] = s[j] => i = j) /\ o \notin {s[i] : i \in DOMAIN s}) =>
              \A i, j \in DOMAIN Append(s, o) : Append(s, o)[i] = Append(s, o)[j] => i = j
<1> DEFINE t == Append(s, o)
<1>1. t \in Seq(Obj) /\ Len(t) = Len(s) + 1 /\ Len(s) \in Nat
  OBVIOUS
<1>2. DOMAIN s = 1 .. Len(s) /\ DOMAIN t = 1 .. Len(s) + 1  BY <1>1
<1>3. \A i \in 1 .. Len(s) : t[i] = s[i]  OBVIOUS
<1>4. t[Len(s) + 1] = o  OBVIOUS
<1> HIDE DEF t
<1>5. {t[i] : i \in DOMAIN t} = {s[i] : i \in DOMAIN s} \cup {o}
  <2>1. \A i \in DOMAIN t : t[i] \in {s[j] : j \in DOMAIN s} \cup {o}
    <3> TAKE i \in DOMAIN t
    <3>1. i \in 1 .. Len(s) \/ i = Len(s) + 1  BY <1>1, <1>2
    <3> QED  BY <3>1, <1>2, <1>3, <1>4
  <2>2. \A i \in DOMAIN s : s[i] \in {t[j] : j \in DOMAIN t}
    <3> TAKE i \in DOMAIN s
    <3>1. i \in DOMAIN t /\ t[i] = s[i]  BY <1>1, <1>2, <1>3
    <3> QED  BY <3>1
  <2>3. o \in {t[j] : j \in DOMAIN t}
    <3>1. Len(s) + 1 \in DOMAIN t  BY <1>1, <1>2
    <3> QED  BY <3>1, <1>4
  <2> QED  BY <2>1, <2>2, <2>3
<1>6. ASSUME \A i, j \in DOMAIN s : s[i] = s[j] => i = j, o \notin {s[i] : i \in DOMAIN s},
             NEW i \in DOMAIN t, NEW j \in DOMAIN t, t[i] = t[j]
      PROVE  i = j
  <2>1. \A k \in 1 .. Len(s) : s[k] # o  BY <1>6, <1>2
  <2>2. /\ i \in 1 .. Len(s) \/ i = Len(s) + 1
        /\ j \in 1 .. Len(s) \/ j = Len(s) + 1
    BY <1>1, <1>2
  <2> QED  BY <1>6, <2>1, <2>2, <1>2, <1>3, <1>4
<1> QED  BY <1>1, <1>5, <1>6 DEF t

LEMMA Cut ==
  ASSUME NEW s \in Seq(Obj), s # <<>>, \A i, j \in DOMAIN s : s[i] = s[j] => i = j
  PROVE  LET t == SubSeq(s, 1, Len(s) - 1)
         IN  /\ t \in Seq(Obj)
             /\ s[Len(s)] \in Obj
             /\ s[Len(s)] \in {s[i] : i \in DOMAIN s}
             /\ {t[i] : i \in DOMAIN t} = {s[i] : i \in DOMAIN s} \ {s[Len(s)]}
             /\ \A i, j \in DOMAIN t : t[i] = t[j] => i = j
<1> DEFINE t == SubSeq(s, 1, Len(s) - 1)
<1>1. Len(s) \in Nat /\ Len(s) # 0 /\ DOMAIN s = 1 .. Len(s)  OBVIOUS
<1>2. /\ t \in Seq(Obj) /\ Len(t) = Len(s) - 1
      /\ \A i \in 1 .. Len(s) - 1 : t[i] = s[i]
  <2>1. \A i \in 1 .. Len(s) - 1 : s[i] \in Obj  OBVIOUS
  <2> QED  BY <2>1, <1>1, SubSeqProperties
<1>3. DOMAIN t = 1 .. Len(s) - 1  BY <1>2
<1> HIDE DEF t
<1>4. s[Len(s)] \in Obj /\ Len(s) \in DOMAIN s  BY <1>1
<1>5. {t[i] : i \in DOMAIN t} = {s[i] : i \in DOMAIN s} \ {s[Len(s)]}
  <2>1. \A i \in DOMAIN t : i \in DOMAIN s /\ t[i] = s[i] /\ s[i] # s[Len(s)]
    BY <1>1, <1>2, <1>3, <1>4
  <2>2. \A i \in DOMAIN s : s[i] # s[Len(s)] => i \in DOMAIN t /\ t[i] = s[i]
    BY <1>1, <1>2, <1>3
  <2> QED  BY <2>1, <2>2
<1>6. \A i, j \in DOMAIN t : t[i] = t[j] => i = j  BY <1>1, <1>2, <1>3
<1> QED  BY <1>2, <1>4, <1>5, <1>6 DEF t

LEMMA NoDestructor == destroying = <<>> => Destroying = {}
BY DEF Destroying

-----------------------------------------------------------------------------
(***************************************************************************)
(* Giving up a reference                                                   *)
(***************************************************************************)

LEMMA AliveFacts ==
  ASSUME TypeOK, DestroyOK
  PROVE  /\ Alive \subseteq Obj /\ Destroying \subseteq Obj
         /\ \A o \in Obj : rc[o] \in Nat /\ rc[o] < RcMod
BY DEF TypeOK, Alive, Destroying

\* The reference from l is given up, whichever way (siheap_deref): the counts still
\* tally, and an object whose destructor starts was referred to from l only.
LEMMA DerefOK ==
  ASSUME TypeOK, CountsOK, DestroyOK, NEW l \in Held, NEW v, v = ref[l],
         \A o \in Obj : RefsTo(o)' = RefsTo(o) \ {l},
         DerefBox(v),
         UNCHANGED <<alloc, missed>>
  PROVE  /\ CountsOK'
         /\ Destroying' \subseteq alloc
         /\ \A i, j \in DOMAIN destroying' : destroying'[i] = destroying'[j] => i = j
         /\ rc' \in [Obj -> 0 .. RcMod - 1]
         /\ destroying' \in Seq(Obj)
         /\ Destroying \subseteq Destroying'
         /\ \A o \in Destroying' \ Destroying : o \in Alive /\ RefsTo(o) = {l}
<1>1. l \in Loc /\ v \in Obj \cup {NULL}  BY HeldIsLoc DEF TypeOK
<1>2. \A o \in Obj : o # v => RefsTo(o)' = RefsTo(o)  BY DEF RefsTo
<1>3. Alive \subseteq Obj /\ destroying \in Seq(Obj) /\ rc \in [Obj -> 0 .. RcMod - 1]
  BY AliveFacts DEF TypeOK
<1>4. CASE UNCHANGED <<rc, destroying>> /\ v \notin Alive
  <2>1. Destroying' = Destroying /\ Alive' = Alive  BY <1>4 DEF Destroying, Alive
  <2>2. CountsOK'  BY <1>4, <1>2, <1>3, <2>1 DEF CountsOK
  <2> QED  BY <1>3, <1>4, <2>1, <2>2 DEF DestroyOK
<1>5. CASE v \in Alive
  <2>1. v \in Obj /\ v \in alloc /\ v \notin Destroying /\ v # NULL
    BY <1>3, <1>5 DEF Alive, Obj
  <2>2. /\ rc[v] = Cardinality(RefsTo(v)) + missed[v] /\ rc[v] # 0 /\ rc[v] \in 0 .. RcMod - 1
        /\ missed[v] \in Nat /\ missed' = missed
    BY <1>3, <1>5, <2>1 DEF CountsOK, TypeOK
  <2>3. /\ rc' = [rc EXCEPT ![v] = @ - 1]
        /\ destroying' = IF rc[v] = 1 THEN Append(destroying, v) ELSE destroying
    BY <2>1, <2>2 DEF DerefBox, Deref
  <2>4. l \in RefsTo(v) /\ RefsTo(v) \in SUBSET Loc  BY HeldIsLoc DEF RefsTo
  <2>5. /\ Cardinality(RefsTo(v)') = Cardinality(RefsTo(v)) - 1
        /\ Cardinality(RefsTo(v)) = 1 => RefsTo(v) = {l}
        /\ Cardinality(RefsTo(v)) \in Nat \ {0}
    BY <2>1, <2>4, Removed, LocSet
  <2>6. rc'[v] = Cardinality(RefsTo(v)') + missed'[v] /\ \A o \in Obj : o # v => rc'[o] = rc[o]
    BY <1>3, <2>1, <2>2, <2>3, <2>5
  <2>7. rc' \in [Obj -> 0 .. RcMod - 1]
    <3>1. rc[v] - 1 \in 0 .. RcMod - 1  BY <2>2
    <3> QED  BY <1>3, <2>3, <3>1
  <2>8. CASE rc[v] = 1
    <3>1. destroying' = Append(destroying, v)  BY <2>3, <2>8
    <3>2. /\ destroying' \in Seq(Obj)
          /\ Destroying' = Destroying \cup {v}
          /\ \A i, j \in DOMAIN destroying' : destroying'[i] = destroying'[j] => i = j
      <4>1. v \notin {destroying[i] : i \in DOMAIN destroying}  BY <2>1 DEF Destroying
      <4>2. \A i, j \in DOMAIN destroying : destroying[i] = destroying[j] => i = j
        BY DEF DestroyOK
      <4> DEFINE t == Append(destroying, v)
      <4>3. /\ t \in Seq(Obj)
            /\ {t[i] : i \in DOMAIN t} = {destroying[i] : i \in DOMAIN destroying} \cup {v}
            /\ \A i, j \in DOMAIN t : t[i] = t[j] => i = j
        BY <1>3, <2>1, <4>1, <4>2, Appended, Zenon
      <4>4. destroying' = t  BY <3>1
      <4>5. Destroying' = {t[i] : i \in DOMAIN t}  BY <4>4 DEF Destroying
      <4>6. Destroying = {destroying[i] : i \in DOMAIN destroying}  BY DEF Destroying
      <4> HIDE DEF t
      <4> QED  BY <4>3, <4>4, <4>5, <4>6
    <3>3. Alive' = Alive \ {v}  BY <3>2 DEF Alive
    <3>4. rc'[v] = 0 /\ missed'[v] = 0  BY <2>2, <2>5, <2>6, <2>8
    <3>5. CountsOK'  BY <1>2, <1>3, <2>2, <2>6, <3>3, <3>4 DEF CountsOK
    <3>6. RefsTo(v) = {l}  BY <2>2, <2>5, <2>8
    <3>7. Destroying' \subseteq alloc /\ Destroying \subseteq Destroying'
      BY <2>1, <3>2 DEF DestroyOK
    <3>8. \A o \in Destroying' \ Destroying : o \in Alive /\ RefsTo(o) = {l}
      BY <1>5, <3>2, <3>6
    <3> QED  BY <2>7, <3>2, <3>5, <3>7, <3>8
  <2>9. CASE rc[v] # 1
    <3>1. destroying' = destroying  BY <2>3, <2>9
    <3>2. Destroying' = Destroying /\ Alive' = Alive  BY <3>1 DEF Destroying, Alive
    <3>3. rc'[v] # 0  BY <2>2, <2>5, <2>6, <2>9
    <3>4. \A o \in Alive' : rc'[o] = Cardinality(RefsTo(o)') + missed'[o] /\ rc'[o] # 0
      <4> TAKE o \in Alive'
      <4>1. CASE o = v  BY <1>5, <2>6, <3>3, <4>1 DEF CountsOK
      <4>2. CASE o # v  BY <1>2, <1>3, <2>2, <2>6, <3>2, <4>2 DEF CountsOK
      <4> QED  BY <4>1, <4>2
    <3>5. \A o \in Obj \ Alive' : rc'[o] = 0 /\ missed'[o] = 0
      BY <1>5, <2>2, <2>6, <3>2 DEF CountsOK
    <3>6. CountsOK'  BY <3>4, <3>5 DEF CountsOK
    <3> QED  BY <1>3, <2>7, <3>1, <3>2, <3>6 DEF DestroyOK
  <2> QED  BY <2>8, <2>9
<1>6. v \notin Alive => UNCHANGED <<rc, destroying>>
  BY <1>1 DEF DerefBox, Deref, CountsOK, Alive
<1> QED  BY <1>4, <1>5, <1>6

LEMMA DerefKeeps ==
  ASSUME TypeOK, CountsOK, DestroyOK, NEW l \in Held, NEW v, v = ref[l],
         \A o \in Obj : RefsTo(o)' = RefsTo(o) \ {l},
         DerefBox(v),
         UNCHANGED <<alloc, missed>>
  PROVE  \A k \in Held \ {l} : ref[k] \in Alive => ref[k] \in Alive'
<1> SUFFICES ASSUME NEW k \in Held \ {l}, ref[k] \in Alive, ref[k] \in Destroying'
             PROVE  FALSE
  BY DEF Alive
<1>1. \A o \in Destroying' \ Destroying : RefsTo(o) = {l}  BY DerefOK
<1>2. RefsTo(ref[k]) = {l}  BY <1>1 DEF Alive
<1>3. k \in RefsTo(ref[k])  BY DEF RefsTo
<1> QED  BY <1>2, <1>3

\* The counts stay when every object keeps as many references as it had.
LEMMA SameCounts ==
  ASSUME TypeOK, CountsOK, UNCHANGED <<rc, missed>>, Alive' = Alive,
         \A o \in Obj : Cardinality(RefsTo(o)') = Cardinality(RefsTo(o))
  PROVE  CountsOK'
BY DEF TypeOK, CountsOK, Alive

\* Fields stay intact when no more objects are alive.
LEMMA SameFields ==
  ASSUME WholeOK, Alive' \subseteq Alive, UNCHANGED <<mode, kept>>,
         \A o \in Alive : left'[o] = left[o]
  PROVE  WholeOK'
BY DEF WholeOK

\* One more reference.
LEMMA MoreCounts ==
  ASSUME CountsFit, TypeOK, CountsOK, NEW v \in Alive, NEW k \in Loc \ RefsTo(v)
  PROVE  /\ Incremented(v) = [rc EXCEPT ![v] = rc[v] + 1]
         /\ Incremented(v) \in [Obj -> 0 .. RcMod - 1]
         /\ rc[v] + 1 = Cardinality(RefsTo(v) \cup {k}) + missed[v]
         /\ rc[v] + 1 # 0
<1>1. v \in Obj /\ rc \in [Obj -> 0 .. RcMod - 1] /\ missed[v] \in 0 .. MaxMissed
  BY DEF TypeOK, Alive
<1>2. RefsTo(v) \in SUBSET Loc /\ RefsTo(v) \cup {k} \in SUBSET Loc  BY HeldIsLoc
<1>3. rc[v] = Cardinality(RefsTo(v)) + missed[v]  BY DEF CountsOK
<1>4. /\ Cardinality(RefsTo(v) \cup {k}) + missed[v] = rc[v] + 1
      /\ Cardinality(RefsTo(v)) \in Nat
  BY <1>1, <1>2, <1>3, Added, LocSet
<1>5. Cardinality(RefsTo(v) \cup {k}) <= Cardinality(Loc)  BY <1>2, LocSet
<1>6. Cardinality(Loc) \in Nat  BY LocSet
<1>7. rc[v] + 1 < RcMod /\ rc[v] \in Nat
  BY <1>1, <1>2, <1>4, <1>5, <1>6, LocSet, MissedAssumption DEF CountsFit
<1>8. (rc[v] + 1) % RcMod = rc[v] + 1  BY <1>7
<1>9. Incremented(v) = [rc EXCEPT ![v] = rc[v] + 1]  BY <1>8 DEF Incremented
<1> QED  BY <1>1, <1>4, <1>7, <1>9

\* Which locations hold a reference.
LEMMA FieldHeld ==
  ASSUME NEW x \in alloc, x \in Obj, NEW f \in Fields, f \in left[x], <<x, f>> # put
  PROVE  <<x, f>> \in Held
<1> DEFINE l == <<x, f>>
<1>1. l \in Obj \X Fields /\ l[1] = x /\ l[2] = f  OBVIOUS
<1> HIDE DEF l
<1>2. l \in Held  BY <1>1 DEF Held, l
<1> QED  BY <1>2 DEF l

LEMMA RootHeld ==
  ASSUME Inv, NEW r \in Root
  PROVE  r \in Held
BY Kinds DEF Inv, PutOK, Held

LEMMA FieldNear ==
  ASSUME NEW S, NEW l \in FieldsOf(S)
  PROVE  \E r \in S, f \in Fields : ref[r] # NULL /\ l = <<ref[r], f>>
BY DEF FieldsOf

\* What the program gets at is alive.
LEMMA NearHeld ==
  ASSUME Inv, Running, NEW p \in Near
  PROVE  /\ p \in Held
         /\ ref[p] # NULL => ref[p] \in Alive
<1>1. mode = "run" /\ put = NULL  BY DEF Running
<1>2. Root \subseteq Held  BY <1>1 DEF Held
<1>3. p \in Held
  <2>1. CASE p \in FieldsOf(Root)
    <3>1. PICK r \in Root, f \in Fields : ref[r] # NULL /\ p = <<ref[r], f>>
      BY <2>1 DEF FieldsOf
    <3>2. ref[r] \in Alive  BY <1>1, <1>2, <3>1 DEF Inv, RefsOK
    <3>3. ref[r] \in Obj /\ ref[r] \in alloc /\ left[ref[r]] = Fields
      BY <1>1, <3>2 DEF Inv, WholeOK, Alive, TypeOK
    <3>4. p # NULL  BY <3>1, <3>3, Kinds
    <3> QED  BY <1>1, <3>1, <3>3, <3>4, FieldHeld
  <2> QED  BY <1>2, <2>1 DEF Near
<1> QED  BY <1>1, <1>3 DEF Inv, RefsOK

-----------------------------------------------------------------------------
(***************************************************************************)
(* Destructors                                                             *)
(***************************************************************************)

\* What is about to be overwritten is a field of an object that is alive.
LEMMA PutAlive ==
  ASSUME Inv, put # NULL
  PROVE  put[1] \in Alive
<1>1. PICK r \in Root : ref[r] = put[1]  BY DEF Inv, PutOK
<1>2. mode # "sweep" /\ put[1] # NULL
  <2>1. mode = "run" /\ put \in Obj \X Fields  BY DEF Inv, PutOK
  <2>2. put[1] \in Obj  BY <2>1
  <2> QED  BY <2>1, <2>2, Kinds
<1>3. r \in Held  BY RootHeld
<1> QED  BY <1>1, <1>2, <1>3 DEF Inv, RefsOK

LEMMA DestroyFieldOK ==
  ASSUME Inv, DestroyField
  PROVE  Inv'
<1> DEFINE d == destroying[Len(destroying)]
<1>1. PICK o, f : /\ o = d
                  /\ f \in left[o]
                  /\ left' = [left EXCEPT ![o] = @ \ {f}]
                  /\ DerefBox(ref[<<o, f>>])
  BY DEF DestroyField
<1>2. /\ destroying # <<>> /\ mode # "mark"
      /\ UNCHANGED <<alloc, ref, missed, put, value, mode, gray, marked, cur, kept>>
  BY DEF DestroyField, Inv, DestroyOK, graph, store, collector
<1>3. o \in Destroying /\ o \in Obj /\ o \in alloc /\ f \in Fields
  <2>1. o \in Destroying /\ o \in Obj  BY <1>1, <1>2, Cut DEF Inv, TypeOK, DestroyOK, Destroying
  <2> QED  BY <1>1, <2>1 DEF Inv, DestroyOK, TypeOK
<1> DEFINE l == <<o, f>>
<1>4. l \in Obj \X Fields /\ l \notin Root /\ l # put
  <2>1. l \in Obj \X Fields /\ l \notin Root /\ l # NULL /\ l[1] = o  BY <1>3, Kinds
  <2>2. o \notin Alive  BY <1>3 DEF Alive
  <2> QED  BY <2>1, <2>2, PutAlive
<1>5. l \in Held  BY <1>1, <1>3, <1>4, FieldHeld
<1>6. Held' = Held \ {l}
  <2>1. left \in [Obj -> SUBSET Fields]  BY DEF Inv, TypeOK
  <2>2. \A x \in Obj, g \in Fields : g \in left'[x] <=> g \in left[x] /\ <<x, g>> # l
    BY <1>1, <1>3, <2>1
  <2>3. \A k \in Obj \X Fields : k[2] \in left'[k[1]] <=> k[2] \in left[k[1]] /\ k # l
    BY <2>2
  <2> QED  BY <1>2, <1>4, <2>3 DEF Held
<1>7. \A x \in Obj : RefsTo(x)' = RefsTo(x) \ {l}  BY <1>2, <1>6 DEF RefsTo
<1>8. \A x \in Alive : left'[x] = left[x]  BY <1>1, <1>3 DEF Inv, TypeOK, Alive
<1>9. /\ CountsOK'
      /\ Destroying' \subseteq alloc
      /\ \A i, j \in DOMAIN destroying' : destroying'[i] = destroying'[j] => i = j
      /\ rc' \in [Obj -> 0 .. RcMod - 1]
      /\ destroying' \in Seq(Obj)
      /\ Destroying \subseteq Destroying'
  BY <1>1, <1>2, <1>5, <1>7, DerefOK DEF Inv
<1>10. \A k \in Held \ {l} : ref[k] \in Alive => ref[k] \in Alive'
  BY <1>1, <1>2, <1>5, <1>7, DerefKeeps DEF Inv
<1>11. TypeOK'
  <2>1. left' \in [Obj -> SUBSET Fields]  BY <1>1, <1>3 DEF Inv, TypeOK
  <2> QED  BY <1>2, <1>9, <2>1 DEF Inv, TypeOK
<1>12. DestroyOK'  BY <1>2, <1>9 DEF DestroyOK
<1>13. PutOK'  BY <1>2 DEF Inv, PutOK
<1>14. RefsOK'  BY <1>2, <1>6, <1>10 DEF Inv, RefsOK
<1>15. MarkOK'  BY <1>2 DEF MarkOK
<1>16. SweepOK'
  <2> SUFFICES ASSUME mode = "sweep"  PROVE SweepOK'  BY <1>2 DEF SweepOK
  <2>1. SweepOK /\ put = NULL  BY DEF Inv, SweepOK, PutOK
  <2>2. \A k \in Root \cup (kept \X Fields) : k \in Held \ {l}
    <3>1. kept \subseteq Alive /\ o \notin kept  BY <1>3, <2>1 DEF SweepOK, Alive
    <3>2. \A x \in kept : x \in Obj /\ x \in alloc /\ left[x] = Fields
      BY <3>1 DEF Inv, WholeOK, TypeOK, Alive
    <3>3. \A x \in kept, g \in Fields : <<x, g>> \in Held /\ <<x, g>> # l
      <4> TAKE x \in kept, g \in Fields
      <4>1. <<x, g>> # NULL  BY <3>2, Kinds
      <4> QED  BY <2>1, <3>1, <3>2, <4>1, FieldHeld
    <3>4. \A r \in Root : r \in Held /\ r # l  BY <1>4, RootHeld
    <3> SUFFICES ASSUME NEW k \in Root \cup (kept \X Fields)  PROVE k \in Held /\ k # l
      OBVIOUS
    <3>5. CASE k \in Root  BY <3>4, <3>5
    <3>6. CASE k \in kept \X Fields
      <4>1. k = <<k[1], k[2]>> /\ k[1] \in kept /\ k[2] \in Fields  BY <3>6
      <4> QED  BY <4>1, <3>3
    <3> QED  BY <3>5, <3>6
  <2>3. kept \subseteq Alive'
    <3> SUFFICES ASSUME NEW x \in kept  PROVE x \in Alive'  OBVIOUS
    <3>1. PICK k \in Root \cup (kept \X Fields) : ref[k] = x  BY <2>1 DEF SweepOK, Supported
    <3> QED  BY <1>10, <2>1, <2>2, <3>1 DEF SweepOK
  <2>4. Reachable' = Reachable  BY <1>2 DEF Reachable, Seen!Reach, Seen!Closed
  <2> QED  BY <1>2, <1>9, <2>1, <2>3, <2>4 DEF SweepOK, Lead, Supported
<1>17. WholeOK'
  <2>1. Alive' \subseteq Alive  BY <1>2, <1>9 DEF Alive
  <2> QED  BY <1>2, <1>8, <2>1, SameFields DEF Inv
<1> QED  BY <1>2, <1>9, <1>11, <1>12, <1>13, <1>14, <1>15, <1>16, <1>17 DEF Inv

LEMMA DestroyEndOK ==
  ASSUME Inv, DestroyEnd
  PROVE  Inv'
<1> DEFINE o == destroying[Len(destroying)]
           t == SubSeq(destroying, 1, Len(destroying) - 1)
<1>1. /\ destroying # <<>> /\ mode # "mark"
      /\ left[o] = {}
      /\ alloc' = alloc \ {o}
      /\ destroying' = t
      /\ UNCHANGED <<ref, rc, left, missed, put, value, mode, gray, marked, cur, kept>>
  BY DEF DestroyEnd, Inv, DestroyOK, store, collector
<1>2. /\ t \in Seq(Obj)
      /\ o \in Obj
      /\ o \in Destroying
      /\ {t[i] : i \in DOMAIN t} = Destroying \ {o}
      /\ \A i, j \in DOMAIN t : t[i] = t[j] => i = j
  BY <1>1, Cut DEF Inv, TypeOK, DestroyOK, Destroying
<1> HIDE DEF t, o
<1>3. Destroying' = Destroying \ {o}
  <2>1. Destroying' = {t[i] : i \in DOMAIN t}  BY <1>1 DEF Destroying
  <2> QED  BY <1>2, <2>1
<1>4. Alive' = Alive  BY <1>1, <1>2, <1>3 DEF Alive
<1>5. Held' = Held  BY <1>1 DEF Held
<1>6. \A x \in Obj : RefsTo(x)' = RefsTo(x)  BY <1>1, <1>5 DEF RefsTo
<1>7. TypeOK'  BY <1>1, <1>2 DEF Inv, TypeOK
<1>8. CountsOK' /\ WholeOK'  BY <1>1, <1>4, <1>6, SameCounts, SameFields DEF Inv
<1>9. DestroyOK'
  <2>1. Destroying' \subseteq alloc'  BY <1>1, <1>3 DEF Inv, DestroyOK
  <2> QED  BY <1>1, <1>2, <2>1 DEF DestroyOK
<1>10. PutOK'  BY <1>1 DEF Inv, PutOK
<1>11. RefsOK'  BY <1>1, <1>4, <1>5 DEF Inv, RefsOK
<1>12. MarkOK'  BY <1>1 DEF MarkOK
<1>13. SweepOK'
  <2>1. Reachable' = Reachable  BY <1>1 DEF Reachable, Seen!Reach, Seen!Closed
  <2> QED  BY <1>1, <1>3, <1>4, <2>1 DEF Inv, SweepOK, Lead, Supported
<1> QED  BY <1>1, <1>7, <1>8, <1>9, <1>10, <1>11, <1>12, <1>13 DEF Inv

-----------------------------------------------------------------------------
(***************************************************************************)
(* The program                                                             *)
(***************************************************************************)

\* Between instructions everything that is in use is alive.
LEMMA RunningFacts ==
  ASSUME Inv, Running
  PROVE  /\ mode = "run" /\ put = NULL /\ destroying = <<>> /\ Destroying = {}
         /\ Alive = alloc
         /\ marked = {}
         /\ Root \subseteq Held
         /\ \A l \in Held : ref[l] # NULL => ref[l] \in alloc
<1>1. mode = "run" /\ put = NULL /\ destroying = <<>>  BY DEF Running
<1>2. Destroying = {}  BY <1>1, NoDestructor
<1>3. Alive = alloc  BY <1>2 DEF Alive
<1>4. Root \subseteq Held  BY RootHeld
<1> QED  BY <1>1, <1>2, <1>3, <1>4 DEF Inv, RefsOK

\* In the steps of the program only references, counts and objects in use change.
LEMMA ProgramStep ==
  ASSUME Inv, Running,
         UNCHANGED <<destroying, missed, put, value, mode, gray, marked, cur, kept>>,
         alloc \subseteq alloc', alloc' \subseteq Obj,
         ref' \in [Loc -> Obj \cup {NULL}],
         rc' \in [Obj -> 0 .. RcMod - 1],
         left' \in [Obj -> SUBSET Fields],
         CountsOK', WholeOK',
         \A l \in Held' : ref'[l] # NULL => ref'[l] \in alloc'
  PROVE  Inv'
<1>1. TypeOK'  BY DEF Inv, TypeOK
<1>2. /\ mode' = "run" /\ put' = NULL /\ destroying' = <<>> /\ marked' = {}
  BY RunningFacts
<1>3. Destroying' = {}  BY <1>2 DEF Destroying
<1>4. DestroyOK'  BY <1>2, <1>3 DEF DestroyOK
<1>5. PutOK' /\ MarkOK' /\ SweepOK'  BY <1>2 DEF PutOK, MarkOK, SweepOK
<1>6. RefsOK'  BY <1>3 DEF RefsOK, Alive
<1> QED  BY <1>1, <1>2, <1>4, <1>5, <1>6 DEF Inv

LEMMA LoadOK ==
  ASSUME CountsFit, Inv, NEW l \in Near, NEW m \in Root, Load(l, m)
  PROVE  Inv'
<1>1. /\ Running /\ ref[l] # NULL /\ ref[m] = NULL
      /\ ref' = [ref EXCEPT ![m] = ref[l]]
      /\ rc' = Incremented(ref[l])
      /\ UNCHANGED <<alloc, left, destroying, missed, put, value, mode, gray, marked, cur, kept>>
  BY DEF Load, store, collector
<1> DEFINE v == ref[l]
<1>2. /\ v \in Alive /\ v \in Obj /\ m \in Held /\ m \in Loc
      /\ ref \in [Loc -> Obj \cup {NULL}]
  BY <1>1, NearHeld, RootHeld DEF Inv, TypeOK, Alive, Loc
<1>3. Held' = Held  BY <1>1 DEF Held
<1>4. ref' = [ref EXCEPT ![m] = v]  BY <1>1
<1> HIDE DEF v
<1>5. \A x \in Obj : RefsTo(x)' = IF x = v THEN RefsTo(x) \cup {m} ELSE RefsTo(x)
  BY <1>1, <1>2, <1>3, <1>4, HeldIsLoc, Kinds DEF RefsTo
<1>6. m \in Loc \ RefsTo(v)  BY <1>1, <1>2, Kinds DEF RefsTo
<1>7. /\ Incremented(v) = [rc EXCEPT ![v] = rc[v] + 1]
      /\ Incremented(v) \in [Obj -> 0 .. RcMod - 1]
      /\ rc[v] + 1 = Cardinality(RefsTo(v) \cup {m}) + missed[v]
      /\ rc[v] + 1 # 0
  BY <1>2, <1>6, MoreCounts DEF Inv
<1>8. rc' = Incremented(v)  BY <1>1 DEF v
<1>9. CountsOK'
  <2>1. Alive' = Alive  BY <1>1 DEF Alive, Destroying
  <2>2. rc'[v] = rc[v] + 1 /\ \A x \in Obj : x # v => rc'[x] = rc[x]
    BY <1>2, <1>7, <1>8 DEF Inv, TypeOK
  <2>3. Alive \subseteq Obj  BY DEF Alive, Inv, TypeOK
  <2> QED  BY <1>1, <1>2, <1>5, <1>7, <2>1, <2>2, <2>3 DEF Inv, CountsOK
<1>10. \A k \in Held' : ref'[k] # NULL => ref'[k] \in alloc'
  BY <1>1, <1>2, <1>3, <1>4, RunningFacts, HeldIsLoc
<1>11. WholeOK'  BY <1>1 DEF Inv, WholeOK, Alive, Destroying
<1>12. ref' \in [Loc -> Obj \cup {NULL}] /\ rc' \in [Obj -> 0 .. RcMod - 1]
  BY <1>2, <1>4, <1>7, <1>8
<1> QED  BY <1>1, <1>9, <1>10, <1>11, <1>12, ProgramStep DEF Inv, TypeOK

LEMMA MoveOK ==
  ASSUME Inv, NEW l \in Near, NEW m \in Near, Move(l, m)
  PROVE  Inv'
<1>1. /\ Running /\ ref[l] # NULL /\ ref[m] = NULL
      /\ ref' = [ref EXCEPT ![m] = ref[l], ![l] = NULL]
      /\ UNCHANGED <<alloc, rc, left, destroying, missed, put, value, mode, gray, marked, cur, kept>>
  BY DEF Move, counts, store, collector
<1> DEFINE v == ref[l]
<1>2. /\ v \in Alive /\ v \in Obj /\ l \in Held /\ m \in Held
      /\ l \in Loc /\ m \in Loc
      /\ ref \in [Loc -> Obj \cup {NULL}]
  BY <1>1, NearHeld, HeldIsLoc DEF Inv, TypeOK, Alive
<1>3. ref' = [ref EXCEPT ![m] = v, ![l] = NULL] /\ v = ref[l] /\ v # NULL /\ l # m
  BY <1>1
<1>4. Held' = Held  BY <1>1 DEF Held
<1> HIDE DEF v
<1>5. \A x \in Obj : RefsTo(x)' = IF x = v THEN (RefsTo(x) \ {l}) \cup {m} ELSE RefsTo(x)
  BY <1>1, <1>2, <1>3, <1>4, HeldIsLoc, Kinds DEF RefsTo
<1>6. l \in RefsTo(v) /\ m \in Loc \ RefsTo(v) /\ RefsTo(v) \in SUBSET Loc
  BY <1>1, <1>2, <1>3, HeldIsLoc, Kinds DEF RefsTo
<1>7. Cardinality((RefsTo(v) \ {l}) \cup {m}) = Cardinality(RefsTo(v))
  BY <1>6, Replaced
<1>8. \A x \in Obj : Cardinality(RefsTo(x)') = Cardinality(RefsTo(x))
  BY <1>5, <1>7
<1>9. Alive' = Alive  BY <1>1 DEF Alive, Destroying
<1>10. CountsOK'  BY <1>1, <1>8, <1>9, SameCounts DEF Inv
<1>11. \A k \in Held' : ref'[k] # NULL => ref'[k] \in alloc'
  BY <1>1, <1>2, <1>3, <1>4, RunningFacts, HeldIsLoc
<1>12. ref' \in [Loc -> Obj \cup {NULL}]  BY <1>2, <1>3
<1>13. WholeOK'  BY <1>1, <1>9 DEF Inv, WholeOK
<1> QED  BY <1>1, <1>10, <1>11, <1>12, <1>13, ProgramStep DEF Inv, TypeOK

LEMMA PopOK ==
  ASSUME Inv, NEW m \in Root, Pop(m)
  PROVE  Inv'
<1>1. /\ Running /\ ref[m] # NULL
      /\ ref' = [ref EXCEPT ![m] = NULL]
      /\ Deref(ref[m])
      /\ UNCHANGED <<alloc, left, missed, put, value, mode, gray, marked, cur, kept>>
  BY DEF Pop, store, collector
<1>2. /\ mode' = "run" /\ put' = NULL /\ marked' = {} /\ mode = "run"
      /\ Alive = alloc
      /\ m \in Held /\ m \in Loc
      /\ \A l \in Held : ref[l] # NULL => ref[l] \in alloc
      /\ ref \in [Loc -> Obj \cup {NULL}]
  BY <1>1, RunningFacts DEF Inv, TypeOK, Loc
<1>3. Held' = Held  BY <1>1 DEF Held
<1>4. \A x \in Obj : RefsTo(x)' = RefsTo(x) \ {m}
  BY <1>1, <1>2, <1>3, HeldIsLoc, Kinds DEF RefsTo
<1>5. DerefBox(ref[m])  BY <1>1 DEF DerefBox
<1>6. /\ CountsOK'
      /\ Destroying' \subseteq alloc
      /\ \A i, j \in DOMAIN destroying' : destroying'[i] = destroying'[j] => i = j
      /\ rc' \in [Obj -> 0 .. RcMod - 1]
      /\ destroying' \in Seq(Obj)
  BY <1>1, <1>2, <1>4, <1>5, DerefOK DEF Inv
<1>7. \A k \in Held \ {m} : ref[k] \in Alive => ref[k] \in Alive'
  BY <1>1, <1>2, <1>4, <1>5, DerefKeeps DEF Inv
<1>8. TypeOK'
  <2>1. ref' \in [Loc -> Obj \cup {NULL}]  BY <1>1, <1>2
  <2> QED  BY <1>1, <1>6, <2>1 DEF Inv, TypeOK
<1>9. DestroyOK'  BY <1>1, <1>2, <1>6 DEF DestroyOK
<1>10. PutOK' /\ MarkOK' /\ SweepOK'  BY <1>2 DEF PutOK, MarkOK, SweepOK
<1>11. RefsOK'
  <2>1. \A k \in Held : k # m => ref'[k] = ref[k]  BY <1>1, <1>2, HeldIsLoc
  <2>2. ref'[m] = NULL  BY <1>1, <1>2
  <2> QED  BY <1>2, <1>3, <1>7, <2>1, <2>2 DEF RefsOK
<1>12. WholeOK'
  <2>1. Alive' \subseteq Alive  BY <1>1, <1>2 DEF Alive
  <2> QED  BY <1>1, <2>1, SameFields DEF Inv
<1> QED  BY <1>2, <1>6, <1>8, <1>9, <1>10, <1>11, <1>12 DEF Inv

LEMMA PutStartOK ==
  ASSUME Inv, NEW m \in Root, NEW l \in Obj \X Fields, Put(m, l)
  PROVE  Inv'
<1>1. /\ Running
      /\ l \in FieldsOf(Root \ {m})
      /\ put' = l /\ value' = m
      /\ DerefBox(ref[l])
      /\ UNCHANGED <<alloc, ref, left, missed, mode, gray, marked, cur, kept>>
  BY DEF Put, graph, collector
<1>2. PICK r \in Root \ {m}, f \in Fields : ref[r] # NULL /\ l = <<ref[r], f>>
  BY <1>1, FieldNear
<1>3. /\ mode' = "run" /\ put = NULL /\ marked' = {} /\ mode = "run"
      /\ Alive = alloc
      /\ \A k \in Held : ref[k] # NULL => ref[k] \in alloc
  BY <1>1, RunningFacts
<1>4. l \in Held
  <2>1. l \in Near  BY <1>1, <1>2 DEF Near, FieldsOf
  <2> QED  BY <1>1, <2>1, NearHeld
<1>5. Held' = Held \ {l}  BY <1>1, <1>3, Kinds DEF Held
<1>6. \A x \in Obj : RefsTo(x)' = RefsTo(x) \ {l}  BY <1>1, <1>5 DEF RefsTo
<1>7. /\ CountsOK'
      /\ Destroying' \subseteq alloc
      /\ \A i, j \in DOMAIN destroying' : destroying'[i] = destroying'[j] => i = j
      /\ rc' \in [Obj -> 0 .. RcMod - 1]
      /\ destroying' \in Seq(Obj)
  BY <1>1, <1>4, <1>6, DerefOK DEF Inv
<1>8. \A k \in Held \ {l} : ref[k] \in Alive => ref[k] \in Alive'
  BY <1>1, <1>4, <1>6, DerefKeeps DEF Inv
<1>9. TypeOK'  BY <1>1, <1>7 DEF Inv, TypeOK
<1>10. DestroyOK'  BY <1>1, <1>3, <1>7 DEF DestroyOK
<1>11. PutOK'
  <2>1. l[1] = ref[r]  BY <1>2
  <2> QED  BY <1>1, <1>2, <1>3, <2>1 DEF PutOK
<1>12. MarkOK' /\ SweepOK'  BY <1>3 DEF MarkOK, SweepOK
<1>13. RefsOK'  BY <1>1, <1>3, <1>5, <1>8 DEF RefsOK
<1>14. WholeOK'
  <2>1. Alive' \subseteq Alive  BY <1>1, <1>3 DEF Alive
  <2> QED  BY <1>1, <2>1, SameFields DEF Inv
<1> QED  BY <1>3, <1>9, <1>7, <1>10, <1>11, <1>12, <1>13, <1>14 DEF Inv

LEMMA PutEndOK ==
  ASSUME Inv, PutEnd
  PROVE  Inv'
<1>1. /\ put # NULL /\ destroying = <<>>
      /\ ref' = [ref EXCEPT ![put] = ref[value], ![value] = NULL]
      /\ put' = NULL /\ value' = NULL
      /\ UNCHANGED <<alloc, rc, left, destroying, missed, mode, gray, marked, cur, kept>>
  BY DEF PutEnd, counts, collector
<1> DEFINE v == ref[value]
<1>2. /\ mode = "run" /\ marked = {} /\ Alive = alloc
      /\ value \in Root /\ put \in Obj \X Fields /\ put # value
      /\ value \in Loc /\ put \in Loc
      /\ v \in Obj \cup {NULL} /\ ref \in [Loc -> Obj \cup {NULL}]
  BY <1>1, NoDestructor, Kinds DEF Inv, PutOK, TypeOK, Alive, Loc
<1>3. value \in Held /\ put \notin Held  BY <1>2, RootHeld DEF Held
<1>4. ref' = [ref EXCEPT ![put] = v, ![value] = NULL] /\ v = ref[value]  BY <1>1
<1> HIDE DEF v
<1>5. Held' = Held \cup {put}
  <2>1. put[1] \in alloc /\ left[put[1]] = Fields /\ put[2] \in Fields
    BY <1>1, <1>2, PutAlive DEF Inv, WholeOK, Alive
  <2>2. put \in Root \cup {l \in Obj \X Fields : l[1] \in alloc /\ l[2] \in left[l[1]]}
    BY <1>2, <2>1
  <2>3. NULL \notin Root \cup {l \in Obj \X Fields : l[1] \in alloc /\ l[2] \in left[l[1]]}
    BY Kinds
  <2> QED  BY <1>1, <2>2, <2>3 DEF Held
<1>6. \A x \in Obj : Cardinality(RefsTo(x)') = Cardinality(RefsTo(x))
  <2> TAKE x \in Obj
  <2>1. CASE x = v
    <3>1. RefsTo(x)' = (RefsTo(x) \ {value}) \cup {put}
      BY <1>2, <1>3, <1>4, <1>5, <2>1, HeldIsLoc, Kinds DEF RefsTo
    <3>2. value \in RefsTo(x) /\ put \in Loc \ RefsTo(x) /\ RefsTo(x) \in SUBSET Loc
      BY <1>2, <1>3, <1>4, <2>1, HeldIsLoc DEF RefsTo
    <3> QED  BY <3>1, <3>2, Replaced
  <2>2. CASE x # v
    <3>1. RefsTo(x)' = RefsTo(x)
      BY <1>2, <1>3, <1>4, <1>5, <2>2, HeldIsLoc, Kinds DEF RefsTo
    <3> QED  BY <3>1
  <2> QED  BY <2>1, <2>2
<1>7. Alive' = Alive  BY <1>1 DEF Alive, Destroying
<1>8. CountsOK'  BY <1>1, <1>6, <1>7, SameCounts DEF Inv
<1>9. TypeOK'
  <2>1. ref' \in [Loc -> Obj \cup {NULL}]  BY <1>2, <1>4
  <2> QED  BY <1>1, <2>1 DEF Inv, TypeOK
<1>10. DestroyOK'  BY <1>1 DEF Inv, DestroyOK, Destroying
<1>11. PutOK' /\ MarkOK' /\ SweepOK'  BY <1>1, <1>2 DEF PutOK, MarkOK, SweepOK
<1>12. RefsOK'
  <2>1. \A k \in Held : ref[k] # NULL => ref[k] \in Alive  BY <1>2 DEF Inv, RefsOK
  <2>2. ref'[put] = v /\ ref'[value] = NULL  BY <1>2, <1>4
  <2>3. \A k \in Held : k # value => ref'[k] = ref[k]  BY <1>2, <1>3, <1>4, HeldIsLoc
  <2>4. v # NULL => v \in Alive'  BY <1>3, <1>4, <1>7, <2>1
  <2>5. \A k \in Held' : ref'[k] # NULL => ref'[k] \in Alive'
    <3> SUFFICES ASSUME NEW k \in Held', ref'[k] # NULL  PROVE ref'[k] \in Alive'
      OBVIOUS
    <3>1. CASE k = put  BY <2>2, <2>4, <3>1
    <3>2. CASE k \in Held  BY <1>7, <2>1, <2>2, <2>3, <3>2
    <3> QED  BY <1>5, <3>1, <3>2
  <2> QED  BY <2>5 DEF RefsOK
<1>13. WholeOK'  BY <1>1, <1>7 DEF Inv, WholeOK
<1> QED  BY <1>1, <1>2, <1>8, <1>9, <1>10, <1>11, <1>12, <1>13 DEF Inv

\* A new object is referred to by its creator, and may refer to one that is near.
LEMMA NewOK ==
  ASSUME CountsFit, Inv, NEW l \in Root, NEW o \in Obj, New(l, o)
  PROVE  Inv'
<1>1. /\ Running /\ ref[l] = NULL /\ o \notin alloc
      /\ alloc' = alloc \cup {o}
      /\ left' = [left EXCEPT ![o] = Fields]
      /\ UNCHANGED <<destroying, missed, put, value, mode, gray, marked, cur, kept>>
  BY DEF New, store, collector
<1> DEFINE Own == {o} \X Fields
<1>2. /\ put = NULL /\ Alive = alloc /\ destroying = <<>>
      /\ \A k \in Held : ref[k] # NULL => ref[k] \in alloc
      /\ ref \in [Loc -> Obj \cup {NULL}] /\ left \in [Obj -> SUBSET Fields]
      /\ rc \in [Obj -> 0 .. RcMod - 1] /\ alloc \subseteq Obj
      /\ l \in Held /\ l \in Loc /\ l \notin Own
  BY <1>1, RunningFacts, Kinds DEF Inv, TypeOK, Loc
<1>3. Held' = Held \cup Own /\ Held \cap Own = {} /\ Own \subseteq Loc
  <2> DEFINE F == {k \in Obj \X Fields : k[1] \in alloc /\ k[2] \in left[k[1]]}
  <2>1. Held = Root \cup F  BY <1>2, Kinds DEF Held
  <2>2. Held' = Root \cup {k \in Obj \X Fields : k[1] \in alloc' /\ k[2] \in left'[k[1]]}
    BY <1>1, <1>2, Kinds DEF Held
  <2>3. \A k \in Obj \X Fields : k \in Own <=> k[1] = o  OBVIOUS
  <2>4. Own \subseteq Obj \X Fields  OBVIOUS
  <2>5. \A k \in Obj \X Fields :
          (k[1] \in alloc' /\ k[2] \in left'[k[1]]) <=> (k \in F \/ k \in Own)
    BY <1>1, <1>2, <2>3
  <2>6. Held \cap Own = {}  BY <1>1, <2>1, <2>3, <2>4, Kinds
  <2> QED  BY <2>1, <2>2, <2>4, <2>5, <2>6 DEF Loc
<1>4. RefsTo(o) = {}  BY <1>1, <1>2, Kinds DEF RefsTo
<1>5. Alive' = Alive \cup {o} /\ o \notin Alive
  BY <1>1, <1>2, NoDestructor DEF Alive, Destroying
<1>6. left' \in [Obj -> SUBSET Fields] /\ WholeOK' /\ missed[o] = 0 /\ missed' = missed
      /\ \A x \in Obj : missed[x] \in Nat
  <2>1. mode # "sweep"  BY <1>1, RunningFacts
  <2>2. \A x \in Alive' : left'[x] = Fields
    BY <1>1, <1>2, <1>5, <2>1 DEF Inv, WholeOK
  <2> QED  BY <1>1, <1>2, <1>5, <2>2 DEF Inv, CountsOK, WholeOK, TypeOK
<1> HIDE DEF Own
<1>7. ASSUME ref' = [k \in Loc |-> IF k = l THEN o ELSE IF k \in Own THEN NULL ELSE ref[k]],
             rc' = [rc EXCEPT ![o] = 1]
      PROVE  Inv'
  <2>1. ref' \in [Loc -> Obj \cup {NULL}] /\ rc' \in [Obj -> 0 .. RcMod - 1]
    BY <1>2, <1>7
  <2>2. \A k \in Held' : ref'[k] # NULL => ref'[k] \in alloc'
    BY <1>1, <1>2, <1>3, <1>7, HeldIsLoc
  <2>3. \A x \in Obj : x # o => RefsTo(x)' = RefsTo(x)
    BY <1>1, <1>2, <1>3, <1>7, HeldIsLoc, Kinds DEF RefsTo
  <2>4. RefsTo(o)' = {l}
    BY <1>1, <1>2, <1>3, <1>4, <1>7, HeldIsLoc, Kinds DEF RefsTo
  <2>5. Cardinality(RefsTo(o)') = 1  BY <2>4, FS_Singleton
  <2>6. rc'[o] = 1 /\ \A x \in Obj : x # o => rc'[x] = rc[x]  BY <1>2, <1>7
  <2>7. CountsOK'
    <3>1. \A x \in Alive' : rc'[x] = Cardinality(RefsTo(x)') + missed'[x] /\ rc'[x] # 0
      <4> TAKE x \in Alive'
      <4>1. CASE x = o  BY <1>6, <2>5, <2>6, <4>1
      <4>2. CASE x # o  BY <1>2, <1>5, <1>6, <2>3, <2>6, <4>2 DEF Inv, CountsOK
      <4> QED  BY <4>1, <4>2
    <3>2. \A x \in Obj \ Alive' : rc'[x] = 0 /\ missed'[x] = 0
      BY <1>5, <1>6, <2>6 DEF Inv, CountsOK
    <3> QED  BY <3>1, <3>2 DEF CountsOK
  <2> QED  BY <1>1, <1>2, <1>6, <2>1, <2>2, <2>7, ProgramStep
<1>8. ASSUME NEW p \in Near, NEW f \in Fields, ref[p] # NULL,
             ref' = [k \in Loc |-> IF k = l THEN o ELSE IF k = <<o, f>> THEN ref[p]
                                   ELSE IF k \in Own THEN NULL ELSE ref[k]],
             rc' = [Incremented(ref[p]) EXCEPT ![o] = 1]
      PROVE  Inv'
  <2> DEFINE v == ref[p]
             n == <<o, f>>
  <2>1. v \in Alive /\ v # o /\ v \in Obj  BY <1>1, <1>2, <1>8, NearHeld DEF Alive
  <2>2. n \in Own /\ n \in Loc /\ n # l
    <3>1. n \in Own  BY DEF Own
    <3> QED  BY <1>2, <1>3, <3>1
  <2>3. /\ ref' = [k \in Loc |-> IF k = l THEN o ELSE IF k = n THEN v
                                 ELSE IF k \in Own THEN NULL ELSE ref[k]]
        /\ rc' = [Incremented(v) EXCEPT ![o] = 1]
    BY <1>8
  <2> HIDE DEF v, n
  <2>4. ref' \in [Loc -> Obj \cup {NULL}]  BY <1>2, <2>1, <2>3
  <2>5. \A k \in Held' : ref'[k] # NULL => ref'[k] \in alloc'
    <3>1. v \in alloc'  BY <1>1, <2>1 DEF Alive
    <3> QED  BY <1>1, <1>2, <1>3, <2>3, <3>1, HeldIsLoc
  <2>6. \A x \in Obj : x # o /\ x # v => RefsTo(x)' = RefsTo(x)
    BY <1>1, <1>2, <1>3, <2>2, <2>3, HeldIsLoc, Kinds DEF RefsTo
  <2>7. RefsTo(o)' = {l}
    BY <1>1, <1>2, <1>3, <1>4, <2>1, <2>2, <2>3, HeldIsLoc, Kinds DEF RefsTo
  <2>8. n \in Loc \ RefsTo(v)  BY <1>3, <2>2 DEF RefsTo
  <2>9. \A x \in Obj : x = v => RefsTo(x)' = RefsTo(x) \cup {n}
    BY <1>1, <1>2, <1>3, <2>1, <2>2, <2>3, HeldIsLoc, Kinds DEF RefsTo
  <2>10. Cardinality(RefsTo(o)') = 1  BY <2>7, FS_Singleton
  <2>11. /\ Incremented(v) = [rc EXCEPT ![v] = rc[v] + 1]
         /\ Incremented(v) \in [Obj -> 0 .. RcMod - 1]
         /\ rc[v] + 1 = Cardinality(RefsTo(v) \cup {n}) + missed[v]
         /\ rc[v] + 1 # 0
    BY <2>1, <2>8, MoreCounts DEF Inv
  <2>12. rc' \in [Obj -> 0 .. RcMod - 1]  BY <2>3, <2>11
  <2>13. /\ rc'[o] = 1 /\ rc'[v] = rc[v] + 1
         /\ \A x \in Obj : x # o /\ x # v => rc'[x] = rc[x]
    BY <1>2, <2>1, <2>3, <2>11
  <2>14. CountsOK'
    <3>1. \A x \in Alive' : rc'[x] = Cardinality(RefsTo(x)') + missed'[x] /\ rc'[x] # 0
      <4> TAKE x \in Alive'
      <4>1. CASE x = o  BY <1>6, <2>10, <2>13, <4>1
      <4>2. CASE x = v  BY <1>6, <2>1, <2>11, <2>13, <2>9, <4>2
      <4>3. CASE x # o /\ x # v
        BY <1>2, <1>5, <1>6, <2>6, <2>13, <4>3 DEF Inv, CountsOK
      <4> QED  BY <4>1, <4>2, <4>3
    <3>2. \A x \in Obj \ Alive' : rc'[x] = 0 /\ missed'[x] = 0
      BY <1>5, <1>6, <2>1, <2>13 DEF Inv, CountsOK
    <3> QED  BY <3>1, <3>2 DEF CountsOK
  <2> QED  BY <1>1, <1>2, <1>6, <2>4, <2>5, <2>12, <2>14, ProgramStep
<1> QED  BY <1>7, <1>8 DEF New, Own

-----------------------------------------------------------------------------
(***************************************************************************)
(* The collector                                                           *)
(***************************************************************************)

References == [Loc -> Obj \cup {NULL}]

\* What is reached is the least closed set.
LEMMA ReachLeast ==
  ASSUME NEW g, NEW S \in SUBSET Obj, Seen!Closed(g, S)
  PROVE  Seen!Reach(g) \subseteq S
BY DEF Seen!Reach

LEMMA ReachClosed ==
  ASSUME NEW g \in References
  PROVE  Seen!Reach(g) \in SUBSET Obj /\ Seen!Closed(g, Seen!Reach(g))
<1> DEFINE R == Seen!Reach(g)
<1>1. R = {o \in Obj : \A S \in SUBSET Obj : Seen!Closed(g, S) => o \in S}
  BY DEF Seen!Reach
<1>2. \A l \in Root : g[l] \in Obj \cup {NULL}  BY DEF References, Loc
<1>3. \A o \in Obj, f \in Fields : g[<<o, f>>] \in Obj \cup {NULL}
  <2> TAKE o \in Obj, f \in Fields
  <2>1. <<o, f>> \in Loc  BY DEF Loc
  <2> QED  BY <2>1 DEF References
<1> HIDE DEF R
<1>4. \A l \in Root : g[l] # NULL => g[l] \in R  BY <1>1, <1>2 DEF Seen!Closed
<1>5. ASSUME NEW o \in R, NEW f \in Fields, g[<<o, f>>] # NULL
      PROVE  g[<<o, f>>] \in R
  <2>1. o \in Obj /\ g[<<o, f>>] \in Obj  BY <1>1, <1>3, <1>5
  <2>2. ASSUME NEW S \in SUBSET Obj, Seen!Closed(g, S)  PROVE g[<<o, f>>] \in S
    <3>1. o \in S  BY <1>1, <2>2
    <3> QED  BY <1>5, <2>2, <3>1 DEF Seen!Closed
  <2> QED  BY <1>1, <2>1, <2>2
<1>6. R \in SUBSET Obj  BY <1>1
<1> QED  BY <1>4, <1>5, <1>6 DEF R, Seen!Closed

\* What the roots refer to is reachable, and so is what reachable objects refer to.
LEMMA ReachableSteps ==
  ASSUME TypeOK
  PROVE  /\ \A l \in Root : ref[l] # NULL => ref[l] \in Reachable
         /\ \A o \in Reachable, f \in Fields : ref[<<o, f>>] # NULL => ref[<<o, f>>] \in Reachable
BY ReachClosed DEF Reachable, TypeOK, References, Seen!Closed

\* A set of objects that the roots and its own fields do not lead out of holds all
\* that is reachable.
LEMMA ReachableLeast ==
  ASSUME NEW S \in SUBSET Obj, Lead(S, S)
  PROVE  Reachable \subseteq S
<1>1. Seen!Closed(ref, S)
  <2>1. \A l \in Root : ref[l] # NULL => ref[l] \in S  BY DEF Lead
  <2>2. \A o \in S, f \in Fields : ref[<<o, f>>] # NULL => ref[<<o, f>>] \in S
    <3> TAKE o \in S, f \in Fields
    <3>1. <<o, f>> \in S \X Fields  OBVIOUS
    <3> QED  BY <3>1 DEF Lead
  <2> QED  BY <2>1, <2>2 DEF Seen!Closed
<1> QED  BY <1>1, ReachLeast DEF Reachable

\* A step of the collector that leaves references, counts and destructors alone.
LEMMA CollectorStep ==
  ASSUME Inv, put = NULL,
         UNCHANGED <<alloc, ref, rc, left, destroying, missed, put, value>>,
         mode' \in {"run", "mark", "sweep"},
         gray' \in SUBSET Obj, marked' \in SUBSET Obj, kept' \in SUBSET Obj,
         cur' \in 1 .. N + 1
  PROVE  /\ TypeOK' /\ CountsOK' /\ PutOK'
         /\ mode' # "mark" => DestroyOK'
         /\ Reachable' = Reachable
         /\ Alive' = Alive
         /\ Held' = Held
<1>1. TypeOK'  BY DEF Inv, TypeOK
<1>2. Alive' = Alive /\ Held' = Held  BY DEF Alive, Destroying, Held
<1>3. \A x \in Obj : RefsTo(x)' = RefsTo(x)  BY <1>2 DEF RefsTo
<1>4. CountsOK'  BY <1>2, <1>3, SameCounts DEF Inv
<1>5. PutOK'  BY DEF PutOK
<1>6. mode' # "mark" => DestroyOK'  BY DEF Inv, DestroyOK, Destroying
<1>7. Reachable' = Reachable  BY DEF Reachable, Seen!Reach, Seen!Closed
<1> QED  BY <1>1, <1>2, <1>4, <1>5, <1>6, <1>7

LEMMA CollectOK ==
  ASSUME Inv, Collect
  PROVE  Inv'
<1>1. /\ Running
      /\ mode' = "mark" /\ gray' = {ref[l] : l \in Root} \ {NULL}
      /\ UNCHANGED <<alloc, ref, rc, left, destroying, missed, put, value, marked, cur, kept>>
  BY DEF Collect, graph, counts, store
<1>2. /\ put = NULL /\ destroying = <<>> /\ marked = {}
      /\ mode = "run" /\ Alive = alloc
      /\ \A l \in Root : ref[l] # NULL => ref[l] \in alloc
  BY <1>1, RunningFacts
<1>3. gray' \in SUBSET alloc /\ alloc \subseteq Obj  BY <1>1, <1>2 DEF Inv, TypeOK
<1>4. /\ TypeOK' /\ CountsOK' /\ PutOK'
      /\ Reachable' = Reachable /\ Alive' = Alive /\ Held' = Held
  BY <1>1, <1>2, <1>3, CollectorStep DEF Inv, TypeOK
<1>5. DestroyOK'  BY <1>1, <1>2 DEF Inv, DestroyOK, Destroying
<1>6. RefsOK'  BY <1>1, <1>2, <1>4 DEF Inv, RefsOK
<1>7. MarkOK'
  <2>1. gray' \subseteq Reachable  BY <1>1, ReachableSteps DEF Inv
  <2>2. \A l \in Root \cup ({} \X Fields) : l \in Root  OBVIOUS
  <2>3. Lead(marked, marked \cup gray)'  BY <1>1, <1>2, <2>2 DEF Lead
  <2>4. Supported(marked, marked \cup gray)'  BY <1>1, <1>2 DEF Supported
  <2> QED  BY <1>1, <1>2, <1>3, <1>4, <2>1, <2>3, <2>4 DEF MarkOK
<1>8. SweepOK'  BY <1>1 DEF SweepOK
<1>9. WholeOK'  BY <1>1, <1>2, <1>4 DEF Inv, WholeOK
<1> QED  BY <1>1, <1>4, <1>5, <1>6, <1>7, <1>8, <1>9 DEF Inv

LEMMA MarkFacts ==
  ASSUME Inv, mode = "mark"
  PROVE  put = NULL /\ destroying = <<>> /\ Destroying = {} /\ Alive = alloc
<1>1. put = NULL /\ destroying = <<>>  BY DEF Inv, PutOK, DestroyOK
<1> QED  BY <1>1, NoDestructor DEF Alive

LEMMA MarkStepOK ==
  ASSUME Inv, NEW o \in Obj, MarkStep(o)
  PROVE  Inv'
<1> DEFINE F == {ref[<<o, f>>] : f \in Fields} \ {NULL}
<1>1. /\ mode = "mark" /\ o \in gray
      /\ marked' = marked \cup {o}
      /\ gray' = (gray \cup F) \ marked'
      /\ UNCHANGED <<alloc, ref, rc, left, destroying, missed, put, value, mode, cur, kept>>
  BY DEF MarkStep, graph, counts, store
<1>2. put = NULL /\ destroying = <<>> /\ Destroying = {} /\ Alive = alloc
  BY <1>1, MarkFacts
<1>3. MarkOK /\ o \in alloc /\ o \in Reachable  BY <1>1 DEF Inv, MarkOK
<1>4. F \subseteq alloc \cap Reachable
  <2> SUFFICES ASSUME NEW f \in Fields, ref[<<o, f>>] # NULL
               PROVE  ref[<<o, f>>] \in alloc \cap Reachable
    OBVIOUS
  <2>1. <<o, f>> # put  BY <1>2, Kinds
  <2>2. left[o] = Fields  BY <1>1, <1>2, <1>3 DEF Inv, WholeOK
  <2>3. <<o, f>> \in Held  BY <1>3, <2>1, <2>2, FieldHeld
  <2>4. ref[<<o, f>>] \in alloc  BY <1>1, <1>2, <2>3 DEF Inv, RefsOK
  <2> QED  BY <1>3, <2>4, ReachableSteps DEF Inv
<1>5. \A f \in Fields : ref[<<o, f>>] # NULL => ref[<<o, f>>] \in F  OBVIOUS
<1>6. \A x \in F : \E f \in Fields : ref[<<o, f>>] = x  OBVIOUS
<1> HIDE DEF F
<1>7. (marked \cup gray)' = marked \cup gray \cup F  BY <1>1
<1>8. /\ alloc \subseteq Obj /\ marked' \in SUBSET Obj /\ gray' \in SUBSET Obj
  BY <1>1, <1>4 DEF Inv, TypeOK
<1>9. /\ TypeOK' /\ CountsOK' /\ PutOK'
      /\ Reachable' = Reachable /\ Alive' = Alive /\ Held' = Held
  BY <1>1, <1>2, <1>8, CollectorStep DEF Inv, TypeOK
<1>10. DestroyOK'  BY <1>1, <1>2 DEF Inv, DestroyOK, Destroying
<1>11. RefsOK'  BY <1>1, <1>9 DEF Inv, RefsOK
<1>12. MarkOK'
  <2>1. (marked \cup gray)' \subseteq alloc \cap Reachable
    BY <1>1, <1>3, <1>4, <1>7 DEF MarkOK
  <2>2. ASSUME NEW l \in Root \cup (marked' \X Fields), ref[l] # NULL
        PROVE  ref[l] \in marked \cup gray \cup F
    <3>1. CASE l \in Root \cup (marked \X Fields)
      BY <1>1, <1>3, <2>2, <3>1 DEF MarkOK, Lead
    <3>2. CASE l \in {o} \X Fields
      <4>1. l = <<o, l[2]>> /\ l[2] \in Fields  BY <3>2
      <4> QED  BY <1>5, <2>2, <4>1
    <3> QED  BY <1>1, <3>1, <3>2
  <2>3. ASSUME NEW x \in marked \cup gray \cup F
        PROVE  \E l \in Root \cup (marked' \X Fields) : ref[l] = x
    <3>1. CASE x \in marked \cup gray
      <4>1. PICK l \in Root \cup (marked \X Fields) : ref[l] = x
        BY <1>1, <1>3, <3>1 DEF MarkOK, Supported
      <4> QED  BY <1>1, <4>1
    <3>2. CASE x \in F
      <4>1. PICK f \in Fields : ref[<<o, f>>] = x  BY <1>6, <3>2
      <4>2. <<o, f>> \in marked' \X Fields  BY <1>1
      <4> QED  BY <4>1, <4>2
    <3> QED  BY <2>3, <3>1, <3>2
  <2> QED  BY <1>1, <1>7, <1>9, <2>1, <2>2, <2>3 DEF MarkOK, Lead, Supported
<1>13. SweepOK'  BY <1>1 DEF SweepOK
<1>14. WholeOK'  BY <1>1, <1>9 DEF Inv, WholeOK
<1> QED  BY <1>1, <1>9, <1>10, <1>11, <1>12, <1>13, <1>14 DEF Inv

LEMMA MarkEndOK ==
  ASSUME Inv, MarkEnd
  PROVE  Inv'
<1>1. /\ mode = "mark" /\ gray = {}
      /\ mode' = "sweep" /\ cur' = 1 /\ kept' = marked
      /\ UNCHANGED <<alloc, ref, rc, left, destroying, missed, put, value, gray, marked>>
  BY DEF MarkEnd, graph, counts, store
<1>2. put = NULL /\ destroying = <<>> /\ Destroying = {} /\ Alive = alloc
  BY <1>1, MarkFacts
<1>3. /\ marked \subseteq Alive \cap Reachable
      /\ Lead(marked, marked) /\ Supported(marked, marked)
  <2>1. marked \cup gray = marked  BY <1>1
  <2> QED  BY <1>1, <1>2, <2>1 DEF Inv, MarkOK
<1>4. marked \in SUBSET Obj  BY DEF Inv, TypeOK
<1>5. Reachable \subseteq marked  BY <1>3, <1>4, ReachableLeast
<1>6. /\ TypeOK' /\ CountsOK' /\ PutOK' /\ DestroyOK'
      /\ Reachable' = Reachable /\ Alive' = Alive
  <2>1. 1 \in 1 .. N + 1  OBVIOUS
  <2> QED  BY <1>1, <1>2, <1>4, <2>1, CollectorStep DEF Inv, TypeOK
<1>7. RefsOK' /\ MarkOK'  BY <1>1 DEF RefsOK, MarkOK
<1>8. SweepOK'
  <2>1. Lead(kept, kept)' /\ Supported(kept, kept)'  BY <1>1, <1>3 DEF Lead, Supported
  <2>2. \A o \in Obj : o >= 1 /\ ~ (o < 1)  BY DEF Obj
  <2>3. marked' = {o \in kept' : o >= cur'}  BY <1>1, <1>4, <2>2
  <2>4. \A o \in alloc' : ~ (o < cur')  BY <1>1, <2>2 DEF Inv, TypeOK
  <2> QED  BY <1>1, <1>3, <1>5, <1>6, <2>1, <2>3, <2>4 DEF SweepOK
<1>9. WholeOK'  BY <1>1, <1>6 DEF Inv, WholeOK
<1> QED  BY <1>1, <1>6, <1>7, <1>8, <1>9 DEF Inv

LEMMA SweepFacts ==
  ASSUME Inv, Sweeping
  PROVE  /\ mode = "sweep" /\ put = NULL /\ destroying = <<>> /\ Destroying = {}
         /\ Alive = alloc /\ cur \in Nat
         /\ alloc \subseteq Obj /\ kept \subseteq alloc
<1>1. mode = "sweep" /\ destroying = <<>>  BY DEF Sweeping
<1>2. put = NULL  BY <1>1 DEF Inv, PutOK
<1>3. Destroying = {} /\ Alive = alloc  BY <1>1, NoDestructor DEF Alive
<1> QED  BY <1>1, <1>2, <1>3 DEF Inv, SweepOK, TypeOK

LEMMA SweepKeepOK ==
  ASSUME Inv, SweepKeep
  PROVE  Inv'
<1>1. /\ Sweeping /\ cur <= N /\ (cur \in marked \/ cur \notin alloc)
      /\ marked' = marked \ {cur} /\ cur' = cur + 1
      /\ UNCHANGED <<alloc, ref, rc, left, destroying, missed, put, value, mode, gray, kept>>
  BY DEF SweepKeep, graph, counts, store
<1>2. /\ mode = "sweep" /\ put = NULL /\ Destroying = {} /\ Alive = alloc /\ cur \in Nat
      /\ alloc \subseteq Obj /\ kept \subseteq alloc
      /\ SweepOK /\ cur \in 1 .. N + 1
  BY <1>1, SweepFacts DEF Inv, TypeOK
<1>3. cur' \in 1 .. N + 1  BY <1>1, <1>2
<1>4. /\ TypeOK' /\ CountsOK' /\ PutOK' /\ DestroyOK'
      /\ Reachable' = Reachable /\ Alive' = Alive
  BY <1>1, <1>2, <1>3, CollectorStep DEF Inv, TypeOK
<1>5. RefsOK' /\ MarkOK'  BY <1>1, <1>2 DEF RefsOK, MarkOK
<1>6. SweepOK'
  <2>1. \A o \in Obj : o \in Nat  BY DEF Obj
  <2>2. marked' = {o \in kept : o >= cur + 1}
    <3>1. marked = {o \in kept : o >= cur}  BY <1>2 DEF SweepOK
    <3>2. \A o \in kept : o >= cur + 1 <=> o >= cur /\ o # cur  BY <1>2, <2>1
    <3> QED  BY <1>1, <3>1, <3>2
  <2>3. \A o \in alloc : o < cur + 1 => o \in kept \cup Destroying
    <3> SUFFICES ASSUME NEW o \in alloc, o < cur + 1  PROVE o \in kept \cup Destroying
      OBVIOUS
    <3>1. o < cur \/ o = cur  BY <1>2, <2>1
    <3> QED  BY <1>1, <1>2, <3>1 DEF SweepOK
  <2>4. Destroying' = Destroying  BY <1>1 DEF Destroying
  <2> QED  BY <1>1, <1>2, <1>4, <2>2, <2>3, <2>4 DEF SweepOK, Lead, Supported
<1>7. WholeOK'  BY <1>1, <1>4 DEF Inv, WholeOK
<1> QED  BY <1>1, <1>2, <1>4, <1>5, <1>6, <1>7 DEF Inv

\* References that the sweep overwrites belong to what it does not keep; each of them
\* is missed.
LEMMA OverwriteOK ==
  ASSUME Inv, NEW o \in Obj, NEW f \in Fields, Overwrite(o, f)
  PROVE  Inv'
<1> DEFINE l == <<o, f>>
<1>0. PICK v : v = ref[l]  OBVIOUS
<1>1. /\ Sweeping /\ o \in alloc \ kept /\ f \in left[o]
      /\ v \in alloc /\ missed[v] < MaxMissed
      /\ left' = [left EXCEPT ![o] = left[o] \ {f}]
      /\ missed' = [missed EXCEPT ![v] = missed[v] + 1]
      /\ UNCHANGED <<alloc, ref, rc, destroying, put, value, mode, gray, marked, cur, kept>>
  BY <1>0 DEF Overwrite, graph, store, collector
<1>2. /\ mode = "sweep" /\ put = NULL /\ Destroying = {} /\ Alive = alloc
      /\ alloc \subseteq Obj /\ kept \subseteq alloc /\ SweepOK
  BY <1>1, SweepFacts DEF Inv
<1>3. /\ missed \in [Obj -> 0 .. MaxMissed] /\ left \in [Obj -> SUBSET Fields]
      /\ rc \in [Obj -> 0 .. RcMod - 1] /\ v \in Obj
  BY <1>1, <1>2 DEF Inv, TypeOK
<1>4. l \in Obj \X Fields /\ l \notin Root /\ l # put  BY <1>2, Kinds
<1>5. l \in Held  BY <1>1, <1>4, FieldHeld
<1>6. Held' = Held \ {l}
  <2>1. \A x \in Obj, g \in Fields : g \in left'[x] <=> g \in left[x] /\ <<x, g>> # l
    BY <1>1, <1>3
  <2>2. ASSUME NEW k \in Obj \X Fields
        PROVE  k[2] \in left'[k[1]] <=> k[2] \in left[k[1]] /\ k # l
    <3>1. k = <<k[1], k[2]>> /\ k[1] \in Obj /\ k[2] \in Fields  OBVIOUS
    <3> QED  BY <2>1, <3>1
  <2> QED  BY <1>1, <1>4, <2>2 DEF Held
<1>7. l \in RefsTo(v) /\ RefsTo(v) \in SUBSET Loc  BY <1>0, <1>5, HeldIsLoc DEF RefsTo
<1> HIDE DEF l
<1>8. \A x \in Obj : RefsTo(x)' = RefsTo(x) \ {l}  BY <1>1, <1>6 DEF RefsTo
<1>9. \A x \in Obj : x # v => RefsTo(x)' = RefsTo(x)  BY <1>0, <1>8 DEF RefsTo
<1>10. Cardinality(RefsTo(v)') = Cardinality(RefsTo(v)) - 1
  BY <1>3, <1>7, <1>8, Removed
<1>11. Cardinality(RefsTo(v)) \in Nat  BY <1>7, LocSet
<1>12. Destroying' = {} /\ Alive' = alloc  BY <1>1, <1>2 DEF Destroying, Alive
<1>13. missed'[v] = missed[v] + 1 /\ missed[v] \in Nat
       /\ \A x \in Obj : x # v => missed'[x] = missed[x]
  BY <1>1, <1>3
<1>14. CountsOK'
  <2>1. rc[v] = Cardinality(RefsTo(v)') + missed'[v]
    BY <1>1, <1>2, <1>10, <1>11, <1>13 DEF Inv, CountsOK
  <2>2. \A x \in Alive' : rc'[x] = Cardinality(RefsTo(x)') + missed'[x] /\ rc'[x] # 0
    <3> TAKE x \in Alive'
    <3>1. rc[x] # 0 /\ rc'[x] = rc[x]  BY <1>1, <1>2, <1>12 DEF Inv, CountsOK
    <3>2. CASE x = v  BY <2>1, <3>1, <3>2
    <3>3. CASE x # v  BY <1>2, <1>9, <1>12, <1>13, <3>1, <3>3 DEF Inv, CountsOK
    <3> QED  BY <3>2, <3>3
  <2>3. \A x \in Obj \ Alive' : rc'[x] = 0 /\ missed'[x] = 0
    BY <1>1, <1>2, <1>12, <1>13 DEF Inv, CountsOK
  <2> QED  BY <2>2, <2>3 DEF CountsOK
<1>15. WholeOK'
  <2>1. \A x \in kept : x \in Obj /\ left'[x] = left[x]  BY <1>1, <1>2, <1>3
  <2> QED  BY <1>1, <1>2, <1>12, <2>1 DEF Inv, WholeOK
<1>16. TypeOK'
  <2>1. left' \in [Obj -> SUBSET Fields] /\ missed' \in [Obj -> 0 .. MaxMissed]
    BY <1>1, <1>3, MissedAssumption
  <2> QED  BY <1>1, <2>1 DEF Inv, TypeOK
<1>17. DestroyOK' /\ PutOK' /\ RefsOK' /\ MarkOK'
  BY <1>1, <1>2, <1>12 DEF Inv, DestroyOK, PutOK, RefsOK, MarkOK
<1>18. SweepOK'
  <2>1. Reachable' = Reachable  BY <1>1 DEF Reachable, Seen!Reach, Seen!Closed
  <2> QED  BY <1>1, <1>2, <1>12, <2>1 DEF SweepOK, Lead, Supported
<1> QED  BY <1>1, <1>2, <1>14, <1>15, <1>16, <1>17, <1>18 DEF Inv

LEMMA SweepFreeOK ==
  ASSUME Inv, SweepFree
  PROVE  Inv'
<1>1. /\ Sweeping /\ cur \in alloc \ marked
      /\ rc' = [rc EXCEPT ![cur] = 0] /\ destroying' = <<cur>> /\ cur' = cur + 1
      /\ missed' = [missed EXCEPT ![cur] = 0]
      /\ UNCHANGED <<alloc, ref, left, put, value, mode, gray, marked, kept>>
  BY DEF SweepFree, graph, store
<1>2. /\ mode = "sweep" /\ put = NULL /\ Destroying = {} /\ Alive = alloc /\ cur \in Nat
      /\ alloc \subseteq Obj /\ kept \subseteq alloc
      /\ SweepOK /\ cur \in Obj
      /\ marked = {o \in kept : o >= cur}
  BY <1>1, SweepFacts DEF Inv, TypeOK, SweepOK
<1>3. Destroying' = {cur}
  <2>1. DOMAIN <<cur>> = {1} /\ <<cur>>[1] = cur  OBVIOUS
  <2> QED  BY <1>1, <2>1 DEF Destroying
<1>4. Alive' = alloc \ {cur}  BY <1>1, <1>3 DEF Alive
<1>5. Held' = Held  BY <1>1 DEF Held
<1>6. \A x \in Obj : RefsTo(x)' = RefsTo(x)  BY <1>1, <1>5 DEF RefsTo
<1>7. /\ rc' \in [Obj -> 0 .. RcMod - 1] /\ missed' \in [Obj -> 0 .. MaxMissed]
      /\ rc'[cur] = 0 /\ missed'[cur] = 0
      /\ \A x \in Obj : x # cur => rc'[x] = rc[x] /\ missed'[x] = missed[x]
  BY <1>1, <1>2, MissedAssumption DEF Inv, TypeOK
<1>8. TypeOK'
  <2>1. cur' \in 1 .. N + 1  BY <1>1, <1>2 DEF Obj
  <2>2. destroying' \in Seq(Obj)  BY <1>1, <1>2
  <2> QED  BY <1>1, <1>7, <2>1, <2>2 DEF Inv, TypeOK
<1>9. CountsOK'  BY <1>1, <1>2, <1>4, <1>6, <1>7 DEF Inv, CountsOK
<1>10. DestroyOK'
  <2>1. \A i, j \in DOMAIN destroying' : i = j
    <3>1. DOMAIN <<cur>> = {1}  OBVIOUS
    <3> QED  BY <1>1, <3>1
  <2> QED  BY <1>1, <1>2, <1>3, <2>1 DEF DestroyOK
<1>11. PutOK' /\ RefsOK' /\ MarkOK'  BY <1>1, <1>2 DEF PutOK, RefsOK, MarkOK
<1>12. SweepOK'
  <2>1. \A o \in Obj : o \in Nat  BY DEF Obj
  <2>2. cur \notin kept  BY <1>1, <1>2
  <2>3. marked' = {o \in kept : o >= cur + 1}
    <3>1. \A o \in kept : o >= cur + 1 <=> o >= cur  BY <1>2, <2>1, <2>2
    <3> QED  BY <1>1, <1>2, <3>1
  <2>4. \A o \in alloc : o < cur + 1 => o \in kept \cup {cur}
    <3> SUFFICES ASSUME NEW o \in alloc, o < cur + 1, o # cur  PROVE o \in kept
      OBVIOUS
    <3>1. o < cur  BY <1>2, <2>1
    <3> QED  BY <1>2, <3>1 DEF SweepOK
  <2>5. Reachable' = Reachable  BY <1>1 DEF Reachable, Seen!Reach, Seen!Closed
  <2> QED  BY <1>1, <1>2, <1>3, <1>4, <2>2, <2>3, <2>4, <2>5 DEF SweepOK, Lead, Supported
<1>13. WholeOK'  BY <1>1, <1>2, <1>4 DEF Inv, WholeOK
<1> QED  BY <1>1, <1>2, <1>8, <1>9, <1>10, <1>11, <1>12, <1>13 DEF Inv

\* The sweep has come to the end: what is left is what it has kept.
LEMMA SweepEndAll ==
  ASSUME Inv, SweepEnd
  PROVE  alloc = kept /\ kept = Reachable
<1>1. Sweeping /\ cur > N  BY DEF SweepEnd
<1>2. SweepOK /\ mode = "sweep" /\ Destroying = {} /\ kept \subseteq alloc /\ cur \in Nat
  BY <1>1, SweepFacts DEF Inv
<1>3. \A o \in alloc : o < cur  BY <1>1, <1>2 DEF Inv, TypeOK, Obj
<1> QED  BY <1>2, <1>3 DEF SweepOK

LEMMA SweepEndOK ==
  ASSUME Inv, SweepEnd
  PROVE  Inv'
<1>1. /\ Sweeping /\ cur > N
      /\ mode' = "run" /\ cur' = 1 /\ kept' = {}
      /\ UNCHANGED <<alloc, ref, rc, left, destroying, missed, put, value, gray, marked>>
  BY DEF SweepEnd, graph, counts, store
<1>2. /\ mode = "sweep" /\ put = NULL /\ Alive = alloc /\ cur \in Nat /\ alloc \subseteq Obj
      /\ SweepOK
  BY <1>1, SweepFacts DEF Inv
<1>3. alloc = kept  BY SweepEndAll
<1>4. /\ TypeOK' /\ CountsOK' /\ PutOK' /\ DestroyOK'
      /\ Alive' = Alive /\ Held' = Held
  <2>1. 1 \in 1 .. N + 1  OBVIOUS
  <2> QED  BY <1>1, <1>2, <2>1, CollectorStep DEF Inv, TypeOK
<1>5. RefsOK'
  <2>1. \A l \in Held : l \in Root \cup (kept \X Fields)
    BY <1>3 DEF Held, Inv, TypeOK
  <2>2. Lead(kept, kept)  BY <1>2 DEF SweepOK
  <2> QED  BY <1>1, <1>2, <1>3, <1>4, <2>1, <2>2 DEF RefsOK, Lead
<1>6. MarkOK' /\ SweepOK'  BY <1>1 DEF MarkOK, SweepOK
<1>7. marked' = {}
  <2>1. marked = {o \in kept : o >= cur}  BY <1>2 DEF SweepOK
  <2>2. \A o \in alloc : ~ (o >= cur)  BY <1>1, <1>2 DEF Obj
  <2> QED  BY <1>1, <1>3, <2>1, <2>2
<1>8. WholeOK'  BY <1>1, <1>2, <1>3, <1>4 DEF Inv, WholeOK
<1> QED  BY <1>4, <1>5, <1>6, <1>7, <1>8 DEF Inv

-----------------------------------------------------------------------------
(***************************************************************************)
(* The invariant                                                           *)
(***************************************************************************)

LEMMA InitOK ==
  ASSUME Init
  PROVE  Inv
<1>1. Destroying = {} /\ Alive = {}  BY NoDestructor DEF Init, Alive
<1>2. TypeOK
  <2>1. 0 \in 0 .. RcMod - 1 /\ 0 \in 0 .. MaxMissed /\ 1 \in 1 .. N + 1 /\ <<>> \in Seq(Obj)
    BY MissedAssumption
  <2> QED  BY <2>1 DEF Init, TypeOK
<1>3. CountsOK /\ WholeOK  BY <1>1 DEF Init, CountsOK, WholeOK
<1>4. DestroyOK  BY <1>1 DEF Init, DestroyOK
<1>5. RefsOK  BY HeldIsLoc DEF Init, RefsOK
<1> QED  BY <1>2, <1>3, <1>4, <1>5 DEF Init, Inv, PutOK, MarkOK, SweepOK

LEMMA StutterOK ==
  ASSUME Inv, UNCHANGED vars
  PROVE  Inv'
<1>1. UNCHANGED <<alloc, ref, rc, left, destroying, missed, put, value, mode, gray, marked, cur, kept>>
  BY DEF vars, graph, counts, store, collector
<1>2. Destroying' = Destroying /\ Alive' = Alive /\ Held' = Held
  BY <1>1 DEF Destroying, Alive, Held
<1>3. \A x \in Obj : RefsTo(x)' = RefsTo(x)  BY <1>1, <1>2 DEF RefsTo
<1>4. Reachable' = Reachable  BY <1>1 DEF Reachable, Seen!Reach, Seen!Closed
<1>5. CountsOK' /\ WholeOK'
  BY <1>1, <1>2, <1>3, SameCounts DEF Inv, WholeOK
<1>6. TypeOK' /\ DestroyOK' /\ PutOK' /\ RefsOK'
  BY <1>1, <1>2 DEF Inv, TypeOK, DestroyOK, PutOK, RefsOK
<1>7. MarkOK' /\ SweepOK'
  BY <1>1, <1>2, <1>4 DEF Inv, MarkOK, SweepOK, Lead, Supported
<1> QED  BY <1>1, <1>5, <1>6, <1>7 DEF Inv

LEMMA NextOK ==
  ASSUME CountsFit, Inv, [Next]_vars
  PROVE  Inv'
<1>1. CASE \E l \in Root, o \in Obj : New(l, o)  BY <1>1, NewOK
<1>2. CASE \E l \in Near, m \in Root : Load(l, m)  BY <1>2, LoadOK
<1>3. CASE \E l \in Near, m \in Near : Move(l, m)  BY <1>3, MoveOK
<1>4. CASE \E m \in Root : Pop(m)  BY <1>4, PopOK
<1>5. CASE \E m \in Root, l \in Obj \X Fields : Put(m, l)  BY <1>5, PutStartOK
<1>6. CASE Collect  BY <1>6, CollectOK
<1>7. CASE DestroyField  BY <1>7, DestroyFieldOK
<1>8. CASE DestroyEnd  BY <1>8, DestroyEndOK
<1>9. CASE PutEnd  BY <1>9, PutEndOK
<1>10. CASE MarkEnd  BY <1>10, MarkEndOK
<1>11. CASE \E o \in Obj : MarkStep(o)  BY <1>11, MarkStepOK
<1>12. CASE SweepKeep  BY <1>12, SweepKeepOK
<1>13. CASE SweepFree  BY <1>13, SweepFreeOK
<1>14. CASE SweepEnd  BY <1>14, SweepEndOK
<1>15. CASE UNCHANGED vars  BY <1>15, StutterOK
<1>16. CASE \E o \in Obj, f \in Fields : Overwrite(o, f)  BY <1>16, OverwriteOK
<1> QED
  BY <1>1, <1>2, <1>3, <1>4, <1>5, <1>6, <1>7, <1>8, <1>9, <1>10, <1>11, <1>12, <1>13,
     <1>14, <1>15, <1>16
  DEF Next, Program, Memory, Mark, Sweep

\* Counts, destructors, assignments, marking and the sweep agree with each other in
\* every reachable state (heap.h, memory.c).
THEOREM RefHeapInvariant == CountsFit => (Spec => []Inv)
<1> SUFFICES ASSUME CountsFit  PROVE Spec => []Inv  OBVIOUS
<1>1. Init => Inv  BY InitOK
<1>2. Inv /\ [Next]_vars => Inv'  BY NextOK
<1> QED  BY <1>1, <1>2, PTL DEF Spec

\* The variables keep their types; no count goes below zero or wraps around
\* (siheap_ref, siheap_deref).
THEOREM RefHeapTypes == CountsFit => (Spec => []TypeOK)
<1>1. Inv => TypeOK  BY DEF Inv
<1> QED  BY <1>1, RefHeapInvariant, PTL

\* The count of every object that is not being destroyed is the number of references to
\* it and of those that a sweep wrote over, in the middle of an assignment, of destructors
\* and of a sweep as well (siheap_ref, siheap_deref, siheap_sweep, siarray_destroy).
THEOREM CountsExact == CountsFit => (Spec => []RefcountExact)
<1>1. Inv => RefcountExact  BY DEF Inv, CountsOK, RefcountExact, Alive
<1> QED  BY <1>1, RefHeapInvariant, PTL

\* Nothing that the program can reach is free or being destroyed (siheap_mfree_inner,
\* sienv_put, siarray_put).
THEOREM NeverDangling == CountsFit => (Spec => []NoDangling)
<1>1. ASSUME Inv, NEW l \in Held, ref[l] # NULL,
             l \in Root \/ mode # "sweep" \/ l[1] \in kept
      PROVE  ref[l] \in Alive
  <2>1. CASE mode # "sweep"  BY <1>1, <2>1 DEF Inv, RefsOK
  <2>2. CASE mode = "sweep"
    <3>1. l \in Root \/ (l \in Obj \X Fields /\ l[1] \in kept)  BY <1>1, <2>2 DEF Held
    <3>2. l \in Obj \X Fields /\ l[1] \in kept => l \in kept \X Fields  OBVIOUS
    <3>3. l \in Root \cup (kept \X Fields)  BY <3>1, <3>2
    <3> QED  BY <1>1, <2>2, <3>3 DEF Inv, SweepOK, Lead
  <2> QED  BY <2>1, <2>2
<1>2. Inv => NoDangling  BY <1>1 DEF NoDangling, Alive
<1> QED  BY <1>2, RefHeapInvariant, PTL

\* The collector keeps what the roots lead to, and nothing else (siheap_mark).
THEOREM MarkingExact == CountsFit => (Spec => []MarksReachable)
<1>1. Inv => MarksReachable  BY DEF Inv, SweepOK, MarksReachable
<1> QED  BY <1>1, RefHeapInvariant, PTL

\* Between collections, whatever is not in a cycle is freed at its last reference
\* (siheap_deref), unless a sweep wrote over a reference to it.
THEOREM NeverOrphan == CountsFit => (Spec => []NoOrphan)
<1>1. ASSUME Inv, Running, NEW o \in alloc
      PROVE  rc[o] # 0 /\ (missed[o] = 0 => RefsTo(o) # {})
  <2>1. o \in Alive  BY <1>1, RunningFacts
  <2>2. rc[o] = Cardinality(RefsTo(o)) + missed[o] /\ rc[o] # 0
    BY <1>1, <2>1 DEF Inv, CountsOK
  <2> QED  BY <2>2, FS_EmptySet
<1>2. Inv => NoOrphan  BY <1>1 DEF NoOrphan
<1> QED  BY <1>2, RefHeapInvariant, PTL

\* A collection frees all that the roots do not lead to, cycles included
\* (siheap_mark_sweep).
THEOREM CollectsAll == CountsFit => (Spec => CollectionComplete)
<1>1. Inv => [SweepEnd => alloc = Reachable]_vars  BY SweepEndAll
<1> QED  BY <1>1, RefHeapInvariant, PTL DEF Spec, CollectionComplete

-----------------------------------------------------------------------------
(***************************************************************************)
(* What the program sees                                                   *)
(***************************************************************************)

\* The two instances of ObjectGraph have the same operators.
LEMMA OneGraph ==
  ASSUME NEW g
  PROVE  /\ Graph!Reach(g) = Seen!Reach(g)
         /\ Graph!Visible(g) = Seen!Visible(g)
BY DEF Graph!Reach, Seen!Reach, Graph!Closed, Seen!Closed,
       Graph!Visible, Seen!Visible, Graph!Loc, Seen!Loc

LEMMA VisibleAt ==
  ASSUME NEW g \in References
  PROVE  /\ Seen!Visible(g) \in References
         /\ \A l \in Root : Seen!Visible(g)[l] = g[l]
         /\ \A o \in Obj, f \in Fields :
              Seen!Visible(g)[<<o, f>>] = IF o \in Seen!Reach(g) THEN g[<<o, f>>] ELSE NULL
<1> DEFINE R == Seen!Reach(g)
<1>1. Seen!Visible(g) = [l \in Loc |-> IF l \in Root \cup (R \X Fields) THEN g[l] ELSE NULL]
  BY DEF Seen!Visible, Seen!Loc, Loc
<1> HIDE DEF R
<1>2. Root \subseteq Loc /\ \A o \in Obj, f \in Fields : <<o, f>> \in Loc  BY DEF Loc
<1>3. \A o \in Obj, f \in Fields : <<o, f>> \in Root \cup (R \X Fields) <=> o \in R
  <2> TAKE o \in Obj, f \in Fields
  <2>1. <<o, f>> \notin Root  BY Kinds
  <2> QED  BY <2>1
<1>4. Seen!Visible(g) \in References  BY <1>1 DEF References
<1> QED  BY <1>1, <1>2, <1>3, <1>4 DEF R

\* Two graphs are alike to the program when they agree on a closed set of one of them.
LEMMA Alike ==
  ASSUME NEW g \in References, NEW h \in References, NEW S \in SUBSET Obj,
         Seen!Closed(g, S),
         \A l \in Root : g[l] = h[l],
         \A o \in S, f \in Fields : g[<<o, f>>] = h[<<o, f>>]
  PROVE  Seen!Reach(g) = Seen!Reach(h) /\ Seen!Visible(g) = Seen!Visible(h)
<1>1. Seen!Reach(g) \subseteq S  BY ReachLeast
<1>2. Seen!Closed(g, Seen!Reach(g)) /\ Seen!Reach(g) \in SUBSET Obj  BY ReachClosed
<1>3. Seen!Closed(h, Seen!Reach(g))  BY <1>1, <1>2 DEF Seen!Closed
<1>4. Seen!Reach(h) \subseteq Seen!Reach(g)  BY <1>2, <1>3, ReachLeast
<1>5. Seen!Closed(h, Seen!Reach(h)) /\ Seen!Reach(h) \in SUBSET Obj  BY ReachClosed
<1>6. Seen!Closed(g, Seen!Reach(h))  BY <1>1, <1>4, <1>5 DEF Seen!Closed
<1>7. Seen!Reach(g) = Seen!Reach(h)  BY <1>4, <1>5, <1>6, ReachLeast
<1> DEFINE v == Seen!Visible(g)
           w == Seen!Visible(h)
<1>8. /\ \A l \in Root : v[l] = w[l]
      /\ \A o \in Obj, f \in Fields : v[<<o, f>>] = w[<<o, f>>]
  BY <1>1, <1>7, VisibleAt
<1>9. v \in References /\ w \in References  BY VisibleAt
<1> HIDE DEF v, w
<1>10. \A l \in Loc : v[l] = w[l]
  <2> TAKE l \in Loc
  <2>1. l \in Root \/ (l = <<l[1], l[2]>> /\ l[1] \in Obj /\ l[2] \in Fields)  BY DEF Loc
  <2> QED  BY <1>8, <2>1
<1>11. v = w  BY <1>9, <1>10 DEF References
<1> QED  BY <1>7, <1>11 DEF v, w

\* The locations that the program can get at.
InSight(g) == Root \cup (Seen!Reach(g) \X Fields)

LEMMA InSightFacts ==
  ASSUME NEW g \in References
  PROVE  /\ InSight(g) \subseteq Loc
         /\ \A l \in InSight(g) : /\ Seen!Visible(g)[l] = g[l]
                                  /\ g[l] # NULL => g[l] \in Seen!Reach(g)
         /\ \A l \in Root : l \in InSight(g)
         /\ \A o \in Seen!Reach(g), f \in Fields : <<o, f>> \in InSight(g)
<1> DEFINE R == Seen!Reach(g)
<1>1. R \in SUBSET Obj /\ Seen!Closed(g, R)  BY ReachClosed
<1>2. ASSUME NEW l \in InSight(g)
      PROVE  l \in Root \/ (l = <<l[1], l[2]>> /\ l[1] \in R /\ l[2] \in Fields)
  BY <1>2 DEF InSight
<1> HIDE DEF R
<1>3. ASSUME NEW l \in InSight(g)
      PROVE  l \in Loc /\ Seen!Visible(g)[l] = g[l] /\ (g[l] # NULL => g[l] \in R)
  <2>1. CASE l \in Root  BY <1>1, <2>1, VisibleAt DEF Loc, Seen!Closed
  <2>2. CASE l = <<l[1], l[2]>> /\ l[1] \in R /\ l[2] \in Fields
    <3>1. <<l[1], l[2]>> \in Obj \X Fields  BY <1>1, <2>2
    <3>2. l \in Loc  BY <2>2, <3>1 DEF Loc
    <3> DEFINE o == l[1]
               f == l[2]
    <3>3. o \in Obj /\ o \in R /\ f \in Fields /\ l = <<o, f>>  BY <1>1, <2>2
    <3> HIDE DEF o, f
    <3>4. Seen!Visible(g)[<<o, f>>] = g[<<o, f>>]  BY <3>3, VisibleAt DEF R
    <3>5. g[<<o, f>>] # NULL => g[<<o, f>>] \in R  BY <1>1, <3>3 DEF Seen!Closed
    <3> QED  BY <3>2, <3>3, <3>4, <3>5
  <2> QED  BY <1>2, <2>1, <2>2
<1>4. \A o \in R, f \in Fields : <<o, f>> \in InSight(g)  BY DEF R, InSight
<1> QED  BY <1>3, <1>4 DEF R, InSight

\* A reference is moved between two locations in sight.
LEMMA MovedView ==
  ASSUME NEW g \in References, NEW l \in InSight(g), NEW m \in InSight(g)
  PROVE  Graph!Shift(Seen!Visible(g), Seen!Visible([g EXCEPT ![m] = g[l], ![l] = NULL]))
<1> DEFINE h == [g EXCEPT ![m] = g[l], ![l] = NULL]
           v == Seen!Visible(g)
           w == [v EXCEPT ![m] = v[l], ![l] = NULL]
           R == Seen!Reach(g)
<1>1. l \in Loc /\ m \in Loc /\ v[l] = g[l] /\ (g[l] # NULL => g[l] \in R)
  BY InSightFacts
<1>2. R \in SUBSET Obj /\ Seen!Closed(g, R) /\ v \in References  BY ReachClosed, VisibleAt
<1>3. h \in References /\ w \in References  BY <1>1, <1>2 DEF References
<1>4. \A k \in InSight(g) : /\ h[k] = w[k]
                            /\ h[k] # NULL => h[k] \in R
  <2> TAKE k \in InSight(g)
  <2>1. k \in Loc /\ v[k] = g[k] /\ (g[k] # NULL => g[k] \in R)  BY InSightFacts
  <2> QED  BY <1>1, <1>2, <2>1 DEF References
<1> HIDE DEF v, w, h
<1>5. /\ \A k \in Root : h[k] = w[k] /\ (h[k] # NULL => h[k] \in R)
      /\ \A o \in R, f \in Fields : /\ h[<<o, f>>] = w[<<o, f>>]
                                    /\ h[<<o, f>>] # NULL => h[<<o, f>>] \in R
  BY <1>4, InSightFacts
<1> HIDE DEF R
<1>6. Seen!Closed(h, R)  BY <1>5 DEF Seen!Closed
<1>7. Seen!Visible(h) = Seen!Visible(w)
  <2>1. /\ \A k \in Root : h[k] = w[k]
        /\ \A o \in R, f \in Fields : h[<<o, f>>] = w[<<o, f>>]
    BY <1>5
  <2> QED  BY <1>2, <1>3, <1>6, <2>1, Alike
<1>8. Seen!Visible(h) = Graph!Visible([v EXCEPT ![m] = v[l], ![l] = NULL])
  BY <1>7, OneGraph DEF w
<1> QED  BY <1>1, <1>8 DEF Graph!Shift, Graph!Loc, Loc, v, h

\* A root drops its reference.
LEMMA DroppedView ==
  ASSUME NEW g \in References, NEW l \in Root
  PROVE  Graph!Drop(Seen!Visible(g), Seen!Visible([g EXCEPT ![l] = NULL]))
<1> DEFINE h == [g EXCEPT ![l] = NULL]
           v == Seen!Visible(g)
           w == [v EXCEPT ![l] = NULL]
           R == Seen!Reach(g)
<1>1. R \in SUBSET Obj /\ Seen!Closed(g, R) /\ v \in References /\ l \in Loc
  BY ReachClosed, VisibleAt DEF Loc
<1>2. h \in References /\ w \in References  BY <1>1 DEF References
<1>3. \A k \in InSight(g) : /\ h[k] = w[k]
                            /\ h[k] # NULL => h[k] \in R
  <2> TAKE k \in InSight(g)
  <2>1. k \in Loc /\ v[k] = g[k] /\ (g[k] # NULL => g[k] \in R)  BY InSightFacts
  <2> QED  BY <1>1, <2>1 DEF References
<1> HIDE DEF v, w, h
<1>4. /\ \A k \in Root : h[k] = w[k] /\ (h[k] # NULL => h[k] \in R)
      /\ \A o \in R, f \in Fields : /\ h[<<o, f>>] = w[<<o, f>>]
                                    /\ h[<<o, f>>] # NULL => h[<<o, f>>] \in R
  BY <1>3, InSightFacts
<1> HIDE DEF R
<1>5. Seen!Closed(h, R)  BY <1>4 DEF Seen!Closed
<1>6. Seen!Visible(h) = Seen!Visible(w)
  <2>1. /\ \A k \in Root : h[k] = w[k]
        /\ \A o \in R, f \in Fields : h[<<o, f>>] = w[<<o, f>>]
    BY <1>4
  <2> QED  BY <1>1, <1>2, <1>5, <2>1, Alike
<1>7. Seen!Visible(h) = Graph!Visible([v EXCEPT ![l] = NULL])  BY <1>6, OneGraph DEF w
<1> QED  BY <1>7 DEF Graph!Drop, v, h

\* Graphs that hold the same references are the same.
LEMMA SameReferences ==
  ASSUME NEW v \in References, NEW w \in References,
         \A l \in Root : v[l] = w[l],
         \A o \in Obj, f \in Fields : v[<<o, f>>] = w[<<o, f>>]
  PROVE  v = w
<1>1. \A l \in Loc : v[l] = w[l]
  <2> TAKE l \in Loc
  <2>1. l \in Root \/ (l = <<l[1], l[2]>> /\ l[1] \in Obj /\ l[2] \in Fields)  BY DEF Loc
  <2> QED  BY <2>1
<1> QED  BY <1>1 DEF References

\* A reference in sight is copied to a root.
LEMMA CopiedView ==
  ASSUME NEW g \in References, NEW l \in InSight(g), NEW m \in Root, g[m] = NULL
  PROVE  Graph!Copy(Seen!Visible(g), Seen!Visible([g EXCEPT ![m] = g[l]]))
<1> DEFINE h == [g EXCEPT ![m] = g[l]]
           v == Seen!Visible(g)
           w == [v EXCEPT ![m] = v[l]]
           R == Seen!Reach(g)
<1>1. l \in Loc /\ m \in Loc /\ v[l] = g[l] /\ (g[l] # NULL => g[l] \in R)
      /\ v[m] = NULL
  BY InSightFacts, VisibleAt DEF Loc
<1>2. R \in SUBSET Obj /\ Seen!Closed(g, R) /\ v \in References  BY ReachClosed, VisibleAt
<1>3. h \in References /\ w \in References  BY <1>1, <1>2 DEF References
<1>4. /\ \A k \in Root : h[k] = IF k = m THEN g[l] ELSE g[k]
      /\ \A o \in Obj, f \in Fields : h[<<o, f>>] = g[<<o, f>>]
  <2>1. \A k \in Loc : h[k] = IF k = m THEN g[l] ELSE g[k]  BY DEF References
  <2>2. \A o \in Obj, f \in Fields : <<o, f>> \in Loc /\ <<o, f>> # m  BY Kinds DEF Loc
  <2> QED  BY <2>1, <2>2 DEF Loc
<1>5. /\ \A k \in Root : w[k] = IF k = m THEN v[l] ELSE v[k]
      /\ \A o \in Obj, f \in Fields : w[<<o, f>>] = v[<<o, f>>]
  <2>1. \A k \in Loc : w[k] = IF k = m THEN v[l] ELSE v[k]  BY <1>2 DEF References
  <2>2. \A o \in Obj, f \in Fields : <<o, f>> \in Loc /\ <<o, f>> # m  BY Kinds DEF Loc
  <2> QED  BY <2>1, <2>2 DEF Loc
<1> HIDE DEF v, w, R, h
<1>6. Seen!Reach(h) = R
  <2>1. Seen!Closed(h, R)  BY <1>1, <1>2, <1>4 DEF Seen!Closed
  <2>2. Seen!Reach(h) \in SUBSET Obj /\ Seen!Closed(h, Seen!Reach(h))  BY <1>3, ReachClosed
  <2>3. Seen!Closed(g, Seen!Reach(h))  BY <2>2, <1>4 DEF Seen!Closed
  <2>4. Seen!Reach(h) \subseteq R  BY <1>2, <2>1, ReachLeast
  <2>5. Seen!Reach(g) \subseteq Seen!Reach(h)  BY <2>2, <2>3, ReachLeast
  <2> QED  BY <2>4, <2>5 DEF R
<1>7. Seen!Visible(h) = w
  <2>1. Seen!Visible(h) \in References /\ \A k \in Root : Seen!Visible(h)[k] = w[k]
    BY <1>1, <1>3, <1>4, <1>5, VisibleAt DEF v
  <2>2. \A o \in Obj, f \in Fields : Seen!Visible(h)[<<o, f>>] = w[<<o, f>>]
    <3> TAKE o \in Obj, f \in Fields
    <3>1. Seen!Visible(h)[<<o, f>>] = IF o \in R THEN h[<<o, f>>] ELSE NULL
      BY <1>3, <1>6, VisibleAt
    <3>2. v[<<o, f>>] = IF o \in R THEN g[<<o, f>>] ELSE NULL  BY VisibleAt DEF v, R
    <3> QED  BY <1>4, <1>5, <3>1, <3>2
  <2> QED  BY <1>3, <2>1, <2>2, SameReferences
<1> QED  BY <1>1, <1>7 DEF Graph!Copy, Graph!Loc, Loc, v, w, h

\* A new object in a root, whose fields are n.
LEMMA MadeView ==
  ASSUME NEW g \in References, NEW l \in Root, NEW o \in Obj \ Seen!Reach(g),
         g[l] = NULL,
         NEW n \in [Fields -> Obj \cup {NULL}],
         \A f \in Fields : n[f] # NULL => n[f] \in Seen!Reach(g),
         NEW h \in References,
         \A k \in Root : h[k] = IF k = l THEN o ELSE g[k],
         \A x \in Obj, f \in Fields : h[<<x, f>>] = IF x = o THEN n[f] ELSE g[<<x, f>>]
  PROVE  /\ \A k \in Root : Seen!Visible(h)[k] = IF k = l THEN o ELSE Seen!Visible(g)[k]
         /\ \A x \in Obj, f \in Fields :
              Seen!Visible(h)[<<x, f>>] = IF x = o THEN n[f] ELSE Seen!Visible(g)[<<x, f>>]
<1> DEFINE R == Seen!Reach(g)
           H == Seen!Reach(h)
<1>1. R \in SUBSET Obj /\ Seen!Closed(g, R) /\ H \in SUBSET Obj /\ Seen!Closed(h, H)
  BY ReachClosed
<1>2. o \notin R /\ \A f \in Fields : n[f] # NULL => n[f] \in R  OBVIOUS
<1> HIDE DEF R, H
<1>3. H \subseteq R \cup {o}
  <2>1. \A k \in Root : h[k] # NULL => h[k] \in R \cup {o}  BY <1>1 DEF Seen!Closed
  <2>2. \A x \in R \cup {o}, f \in Fields : h[<<x, f>>] # NULL => h[<<x, f>>] \in R \cup {o}
    BY <1>1, <1>2 DEF Seen!Closed
  <2>3. Seen!Closed(h, R \cup {o})  BY <2>1, <2>2 DEF Seen!Closed
  <2> QED  BY <1>1, <2>3, ReachLeast DEF H
<1>4. R \subseteq H
  <2>1. \A k \in Root : g[k] # NULL => g[k] \in R \cap H  BY <1>1 DEF Seen!Closed
  <2>2. \A x \in R \cap H, f \in Fields : g[<<x, f>>] # NULL => g[<<x, f>>] \in R \cap H
    BY <1>1, <1>2 DEF Seen!Closed
  <2>3. Seen!Closed(g, R \cap H) /\ R \cap H \in SUBSET Obj
    BY <1>1, <2>1, <2>2 DEF Seen!Closed
  <2>4. R \subseteq R \cap H  BY <2>3, ReachLeast DEF R
  <2> QED  BY <2>4
<1>5. o \in H
  <2>1. h[l] = o /\ o # NULL  BY Kinds
  <2> QED  BY <1>1, <2>1 DEF Seen!Closed
<1>6. H = R \cup {o}  BY <1>3, <1>4, <1>5
<1>7. \A k \in Root : Seen!Visible(h)[k] = IF k = l THEN o ELSE Seen!Visible(g)[k]
  BY VisibleAt
<1>8. /\ \A x \in Obj, f \in Fields :
           Seen!Visible(h)[<<x, f>>] = IF x \in H THEN h[<<x, f>>] ELSE NULL
      /\ \A x \in Obj, f \in Fields :
           Seen!Visible(g)[<<x, f>>] = IF x \in R THEN g[<<x, f>>] ELSE NULL
  BY VisibleAt, Zenon DEF H, R
<1>9. ASSUME NEW x \in Obj, NEW f \in Fields
      PROVE  Seen!Visible(h)[<<x, f>>] = IF x = o THEN n[f] ELSE Seen!Visible(g)[<<x, f>>]
  BY <1>6, <1>8
<1> QED  BY <1>7, <1>9

\* The program sees as many objects in its own view as in the heap.
LEMMA ReachView ==
  ASSUME NEW g \in References
  PROVE  Graph!Reach(Seen!Visible(g)) = Seen!Reach(g)
<1>1. Seen!Visible(g) \in References  BY VisibleAt
<1>2. Seen!Reach(g) \in SUBSET Obj /\ Seen!Closed(g, Seen!Reach(g))  BY ReachClosed
<1>3. \A k \in Root : g[k] = Seen!Visible(g)[k]  BY VisibleAt
<1>4. \A x \in Seen!Reach(g), f \in Fields : g[<<x, f>>] = Seen!Visible(g)[<<x, f>>]
  BY <1>2, VisibleAt
<1>5. Seen!Reach(g) = Seen!Reach(Seen!Visible(g))  BY <1>1, <1>2, <1>3, <1>4, Alike
<1> QED  BY <1>5, OneGraph

\* An object with no references of its own,
LEMMA MadeEmpty ==
  ASSUME NEW g \in References, NEW l \in Root, NEW o \in Obj \ Seen!Reach(g),
         g[l] = NULL,
         NEW h \in References,
         \A k \in Root : h[k] = IF k = l THEN o ELSE g[k],
         \A x \in Obj, f \in Fields : h[<<x, f>>] = IF x = o THEN NULL ELSE g[<<x, f>>]
  PROVE  Graph!Make(Seen!Visible(g), Seen!Visible(h))
<1> DEFINE v == Seen!Visible(g)
           w == [v EXCEPT ![l] = o]
           n == [f \in Fields |-> NULL]
<1>1. v \in References /\ Seen!Visible(h) \in References  BY VisibleAt
<1>2. n \in [Fields -> Obj \cup {NULL}] /\ \A f \in Fields : n[f] = NULL  OBVIOUS
<1> HIDE DEF n
<1>3. /\ \A k \in Root : Seen!Visible(h)[k] = IF k = l THEN o ELSE v[k]
      /\ \A x \in Obj, f \in Fields :
           Seen!Visible(h)[<<x, f>>] = IF x = o THEN n[f] ELSE v[<<x, f>>]
  BY <1>2, MadeView
<1>4. \A f \in Fields : v[<<o, f>>] = NULL  BY VisibleAt
<1>5. v[l] = NULL  BY VisibleAt
<1> HIDE DEF v
<1>6. /\ w \in References
      /\ \A k \in Root : w[k] = IF k = l THEN o ELSE v[k]
      /\ \A x \in Obj, f \in Fields : w[<<x, f>>] = v[<<x, f>>]
  <2>1. w \in References /\ \A k \in Loc : w[k] = IF k = l THEN o ELSE v[k]
    BY <1>1 DEF References
  <2>2. \A x \in Obj, f \in Fields : <<x, f>> \in Loc /\ <<x, f>> # l  BY Kinds DEF Loc
  <2> QED  BY <2>1, <2>2 DEF Loc
<1> HIDE DEF w
<1>7. Seen!Visible(h) = w
  <2>1. \A k \in Root : Seen!Visible(h)[k] = w[k]  BY <1>3, <1>6
  <2>2. \A x \in Obj, f \in Fields : Seen!Visible(h)[<<x, f>>] = w[<<x, f>>]
    <3> TAKE x \in Obj, f \in Fields
    <3>1. CASE x = o  BY <1>2, <1>3, <1>4, <1>6, <3>1
    <3>2. CASE x # o  BY <1>3, <1>6, <3>2
    <3> QED  BY <3>1, <3>2
  <2> QED  BY <1>1, <1>6, <2>1, <2>2, SameReferences
<1>8. o \in Obj \ Graph!Reach(v)  BY ReachView DEF v
<1>9. l \in {k \in Root : v[k] = NULL}  BY <1>5
<1> QED  BY <1>7, <1>8, <1>9 DEF Graph!Make, v, w

\* and one with a reference to an object in sight.
LEMMA MadeLinked ==
  ASSUME NEW g \in References, NEW l \in Root, NEW o \in Obj \ Seen!Reach(g),
         g[l] = NULL,
         NEW p \in InSight(g), NEW d \in Fields, g[p] # NULL,
         NEW h \in References,
         \A k \in Root : h[k] = IF k = l THEN o ELSE g[k],
         \A x \in Obj, f \in Fields :
           h[<<x, f>>] = IF x = o THEN IF f = d THEN g[p] ELSE NULL ELSE g[<<x, f>>]
  PROVE  Graph!Make(Seen!Visible(g), Seen!Visible(h))
<1> DEFINE v == Seen!Visible(g)
           w == [v EXCEPT ![l] = o, ![<<o, d>>] = v[p]]
           n == [f \in Fields |-> IF f = d THEN g[p] ELSE NULL]
<1>1. v \in References /\ Seen!Visible(h) \in References  BY VisibleAt
<1>2. p \in Loc /\ v[p] = g[p] /\ g[p] \in Seen!Reach(g) /\ g[p] \in Obj
  BY InSightFacts, ReachClosed
<1>3. /\ n \in [Fields -> Obj \cup {NULL}]
      /\ \A f \in Fields : n[f] = IF f = d THEN g[p] ELSE NULL
      /\ \A f \in Fields : n[f] # NULL => n[f] \in Seen!Reach(g)
  BY <1>2
<1> HIDE DEF n
<1>4. /\ \A k \in Root : Seen!Visible(h)[k] = IF k = l THEN o ELSE v[k]
      /\ \A x \in Obj, f \in Fields :
           Seen!Visible(h)[<<x, f>>] = IF x = o THEN n[f] ELSE v[<<x, f>>]
  <2>1. \A x \in Obj, f \in Fields : h[<<x, f>>] = IF x = o THEN n[f] ELSE g[<<x, f>>]
    BY <1>3
  <2> QED  BY <1>3, <2>1, MadeView
<1>5. \A f \in Fields : v[<<o, f>>] = NULL  BY VisibleAt
<1>6. v[l] = NULL  BY VisibleAt
<1> HIDE DEF v
<1>7. /\ w \in References
      /\ \A k \in Root : w[k] = IF k = l THEN o ELSE v[k]
      /\ \A x \in Obj, f \in Fields :
           w[<<x, f>>] = IF x = o /\ f = d THEN v[p] ELSE v[<<x, f>>]
  <2>1. \A x \in Obj, f \in Fields :
          <<x, f>> \in Loc /\ <<x, f>> # l /\ <<x, f>> \notin Root
    BY Kinds DEF Loc
  <2>2. /\ w \in References
        /\ \A k \in Loc : w[k] = IF k = <<o, d>> THEN v[p] ELSE IF k = l THEN o ELSE v[k]
    BY <1>1, <1>2, <2>1 DEF References
  <2>3. \A k \in Root : w[k] = IF k = l THEN o ELSE v[k]
    <3> TAKE k \in Root
    <3>1. k \in Loc /\ k # <<o, d>>  BY <2>1 DEF Loc
    <3> QED  BY <2>2, <3>1
  <2>4. \A x \in Obj, f \in Fields :
          w[<<x, f>>] = IF x = o /\ f = d THEN v[p] ELSE v[<<x, f>>]
    <3> TAKE x \in Obj, f \in Fields
    <3>1. <<x, f>> = <<o, d>> <=> x = o /\ f = d  OBVIOUS
    <3> QED  BY <2>1, <2>2, <3>1
  <2> QED  BY <2>2, <2>3, <2>4
<1> HIDE DEF w
<1>8. Seen!Visible(h) = w
  <2>1. \A k \in Root : Seen!Visible(h)[k] = w[k]  BY <1>4, <1>7
  <2>2. \A x \in Obj, f \in Fields : Seen!Visible(h)[<<x, f>>] = w[<<x, f>>]
    <3> TAKE x \in Obj, f \in Fields
    <3>1. CASE x = o  BY <1>2, <1>3, <1>4, <1>5, <1>7, <3>1
    <3>2. CASE x # o  BY <1>4, <1>7, <3>2
    <3> QED  BY <3>1, <3>2
  <2> QED  BY <1>1, <1>7, <2>1, <2>2, SameReferences
<1>9. o \in Obj \ Graph!Reach(v)  BY ReachView DEF v
<1>10. l \in {k \in Root : v[k] = NULL} /\ p \in Graph!Loc  BY <1>2, <1>6 DEF Graph!Loc, Loc
<1>11. \E q \in Graph!Loc, e \in Fields :
         Seen!Visible(h) = [v EXCEPT ![l] = o, ![<<o, e>>] = v[q]]
  BY <1>8, <1>10 DEF w
<1> QED  BY <1>9, <1>10, <1>11 DEF Graph!Make, v

\* The program gets at what is in its sight only.
LEMMA NearInSight ==
  ASSUME TypeOK
  PROVE  ref \in References /\ Near \subseteq InSight(ref)
<1>1. ref \in References  BY DEF TypeOK, References
<1>2. \A r \in Root : r \in InSight(ref)  BY <1>1, InSightFacts
<1>3. ASSUME NEW r \in Root, NEW f \in Fields, ref[r] # NULL
      PROVE  <<ref[r], f>> \in InSight(ref)
  <2>1. ref[r] \in Seen!Reach(ref)  BY <1>1, <1>2, <1>3, InSightFacts
  <2> QED  BY <1>1, <2>1, InSightFacts
<1> QED  BY <1>1, <1>2, <1>3 DEF Near, FieldsOf

\* Between instructions everything the program can reach is in use.
LEMMA ReachInUse ==
  ASSUME Inv, Running
  PROVE  Seen!Reach(ref) \subseteq alloc
<1>1. alloc \in SUBSET Obj  BY DEF Inv, TypeOK
<1>2. \A l \in Root : ref[l] # NULL => ref[l] \in alloc  BY RunningFacts
<1>3. ASSUME NEW o \in alloc, NEW f \in Fields, ref[<<o, f>>] # NULL
      PROVE  ref[<<o, f>>] \in alloc
  <2>1. left[o] = Fields /\ put = NULL  BY RunningFacts DEF Inv, WholeOK
  <2>2. <<o, f>> # put  BY <1>1, <2>1, Kinds
  <2>3. <<o, f>> \in Held  BY <1>1, <2>1, <2>2, FieldHeld
  <2> QED  BY <1>3, <2>3, RunningFacts
<1>4. Seen!Closed(ref, alloc)  BY <1>2, <1>3 DEF Seen!Closed
<1> QED  BY <1>1, <1>4, ReachLeast

LEMMA NewSeen ==
  ASSUME CountsFit, Inv, Inv', NEW l \in Root, NEW o \in Obj, New(l, o)
  PROVE  Graph!Make(Seen!Visible(ref), Seen!Visible(ref'))
<1>1. Running /\ ref[l] = NULL /\ o \notin alloc  BY DEF New
<1>2. o \in Obj \ Seen!Reach(ref)  BY <1>1, ReachInUse
<1>3. ref \in References /\ ref' \in References /\ Near \subseteq InSight(ref)
  BY NearInSight DEF Inv, TypeOK, References
<1>4. /\ \A k \in Root : k \in Loc /\ k \notin {o} \X Fields
      /\ \A x \in Obj, f \in Fields : /\ <<x, f>> \in Loc /\ <<x, f>> # l
                                      /\ <<x, f>> \in {o} \X Fields <=> x = o
  BY Kinds DEF Loc
<1>5. CASE ref' = [k \in Loc |-> IF k = l THEN o
                                 ELSE IF k \in {o} \X Fields THEN NULL ELSE ref[k]]
  <2>1. \A k \in Root : ref'[k] = IF k = l THEN o ELSE ref[k]  BY <1>4, <1>5
  <2>2. \A x \in Obj, f \in Fields : ref'[<<x, f>>] = IF x = o THEN NULL ELSE ref[<<x, f>>]
    BY <1>4, <1>5
  <2> QED  BY <1>1, <1>2, <1>3, <2>1, <2>2, MadeEmpty
<1>6. ASSUME NEW p \in Near, NEW d \in Fields, ref[p] # NULL,
             \A k \in Root : ref'[k] = IF k = l THEN o ELSE ref[k],
             \A x \in Obj, f \in Fields :
               ref'[<<x, f>>] = IF x = o THEN IF f = d THEN ref[p] ELSE NULL ELSE ref[<<x, f>>]
      PROVE  Graph!Make(Seen!Visible(ref), Seen!Visible(ref'))
  <2>1. p \in InSight(ref)  BY <1>3
  <2> QED  BY <1>1, <1>2, <1>3, <1>6, <2>1, MadeLinked
<1>7. ASSUME NEW p \in Near, NEW d \in Fields, ref[p] # NULL,
             ref' = [k \in Loc |-> IF k = l THEN o
                                   ELSE IF k = <<o, d>> THEN ref[p]
                                   ELSE IF k \in {o} \X Fields THEN NULL ELSE ref[k]]
      PROVE  Graph!Make(Seen!Visible(ref), Seen!Visible(ref'))
  <2>1. \A k \in Root : ref'[k] = IF k = l THEN o ELSE ref[k]
    <3> TAKE k \in Root
    <3>1. k # <<o, d>>  BY Kinds
    <3> QED  BY <1>4, <1>7, <3>1
  <2>2. \A x \in Obj, f \in Fields :
          ref'[<<x, f>>] = IF x = o THEN IF f = d THEN ref[p] ELSE NULL ELSE ref[<<x, f>>]
    <3> TAKE x \in Obj, f \in Fields
    <3>1. <<x, f>> = <<o, d>> <=> x = o /\ f = d  OBVIOUS
    <3> QED  BY <1>4, <1>7, <3>1
  <2> QED  BY <1>6, <1>7, <2>1, <2>2
<1> QED  BY <1>5, <1>7 DEF New

\* While no assignment is in progress the program sees what is in the heap.
LEMMA AssignedNone ==
  /\ put = NULL => Assigned = ref
  /\ put' = NULL => Assigned' = ref'
BY DEF Assigned

LEMMA SeenStep ==
  ASSUME CountsFit, Inv, Inv', Next
  PROVE  \/ Graph!Step(Seen!Visible(Assigned), Seen!Visible(Assigned'))
         \/ Assigned' = Assigned
<1>1. ref \in References /\ Near \subseteq InSight(ref)
  BY NearInSight DEF Inv
<1>2. \A r \in Root : r \in InSight(ref)  BY <1>1, InSightFacts
<1>3. ASSUME NEW l \in Root, NEW o \in Obj, New(l, o)
      PROVE  Graph!Step(Seen!Visible(Assigned), Seen!Visible(Assigned'))
  <2>1. put = NULL /\ put' = NULL  BY <1>3 DEF New, Running, store
  <2>2. Graph!Make(Seen!Visible(ref), Seen!Visible(ref'))  BY <1>3, NewSeen
  <2> QED  BY <2>1, <2>2, AssignedNone DEF Graph!Step
<1>4. ASSUME NEW l \in Near, NEW m \in Root, Load(l, m)
      PROVE  Graph!Step(Seen!Visible(Assigned), Seen!Visible(Assigned'))
  <2>1. /\ put = NULL /\ put' = NULL /\ ref[m] = NULL
        /\ ref' = [ref EXCEPT ![m] = ref[l]]
    BY <1>4 DEF Load, Running, store
  <2>2. l \in InSight(ref)  BY <1>1
  <2>3. Graph!Copy(Seen!Visible(ref), Seen!Visible([ref EXCEPT ![m] = ref[l]]))
    BY <1>1, <2>1, <2>2, CopiedView
  <2> QED  BY <2>1, <2>3, AssignedNone DEF Graph!Step
<1>5. ASSUME NEW l \in Near, NEW m \in Near, Move(l, m)
      PROVE  Graph!Step(Seen!Visible(Assigned), Seen!Visible(Assigned'))
  <2>1. /\ put = NULL /\ put' = NULL
        /\ ref' = [ref EXCEPT ![m] = ref[l], ![l] = NULL]
    BY <1>5 DEF Move, Running, store
  <2>2. l \in InSight(ref) /\ m \in InSight(ref)  BY <1>1
  <2>3. Graph!Shift(Seen!Visible(ref), Seen!Visible([ref EXCEPT ![m] = ref[l], ![l] = NULL]))
    BY <1>1, <2>2, MovedView
  <2> QED  BY <2>1, <2>3, AssignedNone DEF Graph!Step
<1>6. ASSUME NEW m \in Root, Pop(m)
      PROVE  Graph!Step(Seen!Visible(Assigned), Seen!Visible(Assigned'))
  <2>1. put = NULL /\ put' = NULL /\ ref' = [ref EXCEPT ![m] = NULL]
    BY <1>6 DEF Pop, Running, store
  <2>2. Graph!Drop(Seen!Visible(ref), Seen!Visible([ref EXCEPT ![m] = NULL]))
    BY <1>1, DroppedView
  <2> QED  BY <2>1, <2>2, AssignedNone DEF Graph!Step
<1>7. ASSUME NEW m \in Root, NEW l \in Obj \X Fields, Put(m, l)
      PROVE  Graph!Step(Seen!Visible(Assigned), Seen!Visible(Assigned'))
  <2>1. /\ put = NULL /\ put' = l /\ value' = m /\ ref' = ref
        /\ l \in FieldsOf(Root \ {m})
    BY <1>7 DEF Put, Running, graph
  <2>2. Assigned' = [ref EXCEPT ![l] = ref[m], ![m] = NULL]
    BY <2>1, Kinds DEF Assigned
  <2>3. l \in InSight(ref) /\ m \in InSight(ref)
    <3>1. l \in Near  BY <2>1 DEF Near, FieldsOf
    <3> QED  BY <1>1, <1>2, <3>1
  <2>4. Graph!Shift(Seen!Visible(ref), Seen!Visible([ref EXCEPT ![l] = ref[m], ![m] = NULL]))
    BY <1>1, <2>3, MovedView
  <2> QED  BY <2>1, <2>2, <2>4, AssignedNone DEF Graph!Step
<1>8. CASE PutEnd  BY <1>8 DEF PutEnd, Assigned
<1>9. CASE Collect \/ DestroyField \/ DestroyEnd \/ Mark \/ Sweep
  <2>1. UNCHANGED <<ref, put, value>>
    BY <1>9 DEF Collect, DestroyField, DestroyEnd, Mark, MarkEnd, MarkStep,
                Sweep, SweepKeep, SweepFree, SweepEnd, Overwrite, graph, store
  <2> QED  BY <2>1 DEF Assigned
<1> QED
  BY <1>3, <1>4, <1>5, <1>6, <1>7, <1>8, <1>9 DEF Next, Program, Memory

\* To the program the heap is a graph of objects that nothing else changes, in a memory
\* without end: counts, destructors and collections do not show (heap.h, memory.c).
THEOREM HeapIsGraph == CountsFit => (Spec => ImplementsGraph)
<1> SUFFICES ASSUME CountsFit  PROVE Spec => ImplementsGraph  OBVIOUS
<1>1. Init => Graph!Init
  <2> SUFFICES ASSUME Init  PROVE Seen!Visible(Assigned) = [l \in Loc |-> NULL]
    BY DEF Graph!Init, Graph!Loc, Loc
  <2>1. Assigned = [l \in Loc |-> NULL]  BY DEF Init, Assigned
  <2> QED  BY <2>1 DEF Seen!Visible, Seen!Loc, Loc
<1>2. Inv /\ Inv' /\ [Next]_vars => [Graph!Next]_(Seen!Visible(Assigned))
  <2> SUFFICES ASSUME Inv, Inv', [Next]_vars
               PROVE  Graph!Next \/ Seen!Visible(Assigned)' = Seen!Visible(Assigned)
    OBVIOUS
  <2>1. CASE Next  BY <2>1, SeenStep DEF Graph!Next
  <2>2. CASE UNCHANGED vars
    <3>1. Assigned' = Assigned  BY <2>2 DEF vars, graph, store, Assigned
    <3> QED  BY <3>1
  <2> QED  BY <2>1, <2>2
<1> QED  BY <1>1, <1>2, RefHeapInvariant, PTL DEF Spec, ImplementsGraph, Graph!Spec
=============================================================================
