------------------------------ MODULE CStrings ------------------------------
(***************************************************************************)
(* C's functions on strings, which are sequences of bytes.                 *)
(***************************************************************************)
EXTENDS Integers, Sequences, SequencesExt

\* They see a text as far as its first NUL.
CString(text) ==
  LET nul == SelectInSeq(text, LAMBDA b : b = 0)
  IN IF nul = 0 THEN text ELSE SubSeq(text, 1, nul - 1)

strcmp(s, t) ==
  IF s = t THEN 0
  ELSE IF \E i \in DOMAIN t : /\ i <= Len(s) + 1
                              /\ SubSeq(s, 1, i - 1) = SubSeq(t, 1, i - 1)
                              /\ i <= Len(s) => s[i] < t[i]
       THEN -1 ELSE 1
=============================================================================
