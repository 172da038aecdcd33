---------------------------- MODULE ObjectGraph ----------------------------
(***************************************************************************)
(* What memory management promises the program: a graph of objects that    *)
(* nothing but the program changes, in a memory without counts, collector  *)
(* or end.  The state is what the program can get at: what its roots refer *)
(* to, and the fields of the objects these references lead to.  RefHeap    *)
(* implements this specification.                                          *)
(***************************************************************************)
CONSTANTS Obj, Fields, Root, NULL

VARIABLE view   \* location -> the object it refers to, or NULL

Loc == Root \cup (Obj \X Fields)

\* What the roots of a graph lead to: the least set that holds what they refer
\* to and is closed under the references of its members.
Closed(g, S) ==
  /\ \A l \in Root : g[l] # NULL => g[l] \in S
  /\ \A o \in S, f \in Fields : g[<<o, f>>] # NULL => g[<<o, f>>] \in S
Reach(g) == {o \in Obj : \A S \in SUBSET Obj : Closed(g, S) => o \in S}

\* The part of a graph that the program can get at.
Visible(g) ==
  LET R == Reach(g) IN [l \in Loc |-> IF l \in Root \cup (R \X Fields) THEN g[l] ELSE NULL]

Init == view = [l \in Loc |-> NULL]

\* w is v with a new object in a root, which has at most one reference in its
\* fields.
Make(v, w) ==
  \E l \in {k \in Root : v[k] = NULL}, o \in Obj \ Reach(v) :
    \/ w = [v EXCEPT ![l] = o]
    \/ \E p \in Loc, f \in Fields : w = [v EXCEPT ![l] = o, ![<<o, f>>] = v[p]]

\* A reference is copied to a root,
Copy(v, w) ==
  \E l \in Loc, m \in {k \in Root : v[k] = NULL} : w = [v EXCEPT ![m] = v[l]]

\* or moved to another location, in the place of what was there,
Shift(v, w) == \E l, m \in Loc : w = Visible([v EXCEPT ![m] = v[l], ![l] = NULL])

\* or dropped.
Drop(v, w) == \E l \in Root : w = Visible([v EXCEPT ![l] = NULL])

Step(v, w) == Make(v, w) \/ Copy(v, w) \/ Shift(v, w) \/ Drop(v, w)
Next == Step(view, view')

Spec == Init /\ [][Next]_view
=============================================================================
