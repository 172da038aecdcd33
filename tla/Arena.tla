------------------------------- MODULE Arena -------------------------------
(***************************************************************************)
(* What the heap promises its clients, with no blocks, lists or sweeps: an *)
(* arena of addresses, some extents of which are owned.  A request for n   *)
(* units is granted with a fresh extent of at least n units that overlaps  *)
(* no owned one, or it is refused, and then no n units in a row are free.  *)
(* Between the request and the answer extents may only be given back (the  *)
(* collector does that).  Allocator implements this specification.         *)
(***************************************************************************)
EXTENDS Integers

CONSTANT HeapSize

VARIABLES
  owned,    \* start address -> length, for every extent handed out
  asked,    \* the size that is being looked for, 0 when there is no request
  refused   \* the last request was refused

arenaVars == <<owned, asked, refused>>

Addr == 0 .. HeapSize - 1
Units(a, n) == a .. a + n - 1

\* No unit of the n units from a is owned, and all of them exist.
Gap(a, n) ==
  /\ a + n <= HeapSize
  /\ \A b \in DOMAIN owned : b + owned[b] <= a \/ a + n <= b

Give(b, n) ==
  [x \in DOMAIN owned \cup {b} |-> IF x = b THEN n ELSE owned[x]]
Without(e) == [x \in DOMAIN owned \ {e} |-> owned[x]]

Init ==
  /\ owned = [x \in {} |-> 0]
  /\ asked = 0
  /\ refused = FALSE

\* A request; one that is going to move the extent e may give e back first.
Ask ==
  /\ asked = 0
  /\ asked' > 0
  /\ \/ owned' = owned
     \/ \E e \in DOMAIN owned : owned' = Without(e)
  /\ UNCHANGED refused

\* The answer; one that moves an extent e gives e back at the same time.
Grant ==
  /\ asked > 0
  /\ \E b \in Addr, n \in asked .. HeapSize :
       /\ Gap(b, n)
       /\ \/ owned' = Give(b, n)
          \/ \E e \in DOMAIN owned :
               owned' = [x \in (DOMAIN owned \ {e}) \cup {b} |-> Give(b, n)[x]]
  /\ asked' = 0
  /\ UNCHANGED refused

Refuse ==
  /\ \A a \in Addr : ~ Gap(a, asked')
  /\ asked > 0 => asked' = asked
  /\ refused' = TRUE
  /\ UNCHANGED owned

\* An extent is given back, while there is a request or not.
Reclaim ==
  /\ \E e \in DOMAIN owned : owned' = Without(e)
  /\ UNCHANGED <<asked, refused>>

\* An extent is made longer where it is.
Extend ==
  /\ asked = 0
  /\ \E e \in DOMAIN owned, n \in 1 .. HeapSize :
       /\ Gap(e + owned[e], n)
       /\ owned' = [owned EXCEPT ![e] = @ + n]
  /\ UNCHANGED <<asked, refused>>

\* A new run starts with an empty arena.
Reset ==
  /\ owned' = [x \in {} |-> 0]
  /\ asked' = 0
  /\ refused' = FALSE

Next == Ask \/ Grant \/ Refuse \/ Reclaim \/ Extend \/ Reset

Spec == Init /\ [][Next]_arenaVars
=============================================================================
