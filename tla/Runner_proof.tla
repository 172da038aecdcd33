---------------------------- MODULE Runner_proof ----------------------------
(***************************************************************************)
(* Whatever a program prints, through a buffer of whatever size, arrives   *)
(* in order, and the buffer is not overrun.                                *)
(***************************************************************************)
EXTENDS Runner, SequenceTheorems, WellFoundedInduction, TLAPS

Byte == Nat
Bytes == Seq(Byte)

-----------------------------------------------------------------------------
(***************************************************************************)
(* Induction up to a bound                                                 *)
(***************************************************************************)

\* The natural numbers are well founded.
LEMMA Descending == IsWellFoundedOn({p \in Nat \X Nat : p[1] < p[2]}, Nat)
BY NatLessThanWellFounded DEF OpToRel

\* A set of them has a least element.
LEMMA Least ==
  ASSUME NEW T, T \subseteq Nat, T # {}
  PROVE  \E m \in T : \A k \in T : m <= k
<1> DEFINE R == {p \in Nat \X Nat : p[1] < p[2]}
<1>1. IsWellFoundedOn(R, Nat)  BY Descending
<1>2. PICK m \in T : \A k \in T : ~ (<<k, m>> \in R)
  <2> HIDE DEF R
  <2> QED  BY <1>1, WFMin
<1>3. ASSUME NEW k \in T  PROVE m <= k
  <2>1. k \in Nat /\ m \in Nat  OBVIOUS
  <2>2. <<k, m>> \in R <=> k < m  BY <2>1
  <2> QED  BY <1>2, <2>1, <2>2
<1> QED  BY <1>3

\* What holds of 1, and of n + 1 if it holds of n, holds up to N.
LEMMA FromOneTo ==
  ASSUME NEW N \in Nat, NEW T, 1 \in T, \A n \in 1 .. N : n < N /\ n \in T => n + 1 \in T
  PROVE  \A n \in 1 .. N : n \in T
<1> DEFINE U == {n \in 1 .. N : n \notin T}
<1> SUFFICES ASSUME U # {}  PROVE FALSE
  OBVIOUS
<1>1. U \subseteq Nat  OBVIOUS
<1>2. PICK m \in U : \A k \in U : m <= k
  <2> HIDE DEF U
  <2> QED  BY <1>1, Least
<1>3. m \in 1 .. N /\ m \notin T /\ m # 1  OBVIOUS
<1>4. m - 1 \in 1 .. N /\ m - 1 < N /\ (m - 1) + 1 = m /\ ~ (m <= m - 1)  BY <1>3
<1>5. m - 1 \in T  BY <1>2, <1>4
<1> QED  BY <1>3, <1>4, <1>5

-----------------------------------------------------------------------------
(***************************************************************************)
(* FlattenSeq, which has a recursive function for the parts that have been *)
(* put together so far.                                                    *)
(***************************************************************************)
Grows(f, s, N) ==
  f = [i \in 1 .. N |-> IF i = 1 THEN s[i] ELSE f[i - 1] \o s[i]]

\* Such a function exists.
LEMMA GrowsExists ==
  ASSUME NEW s, NEW N \in Nat \ {0}
  PROVE  \E f : Grows(f, s, N)
<1> DEFINE T == {n \in 1 .. N : \E f : Grows(f, s, n)}
<1>1. 1 \in T
  <2> DEFINE f == [i \in 1 .. 1 |-> s[1]]
  <2>1. f = [i \in 1 .. 1 |-> IF i = 1 THEN s[i] ELSE f[i - 1] \o s[i]]  OBVIOUS
  <2>2. 1 \in 1 .. N  OBVIOUS
  <2> HIDE DEF f
  <2> QED  BY <2>1, <2>2 DEF Grows
<1>2. ASSUME NEW n \in 1 .. N, n < N, n \in T  PROVE n + 1 \in T
  <2>1. PICK g : Grows(g, s, n)  BY <1>2
  <2> DEFINE f == [i \in 1 .. n + 1 |-> IF i = n + 1 THEN g[n] \o s[n + 1] ELSE g[i]]
  <2>2. ASSUME NEW i \in 1 .. n + 1
        PROVE  f[i] = IF i = 1 THEN s[i] ELSE f[i - 1] \o s[i]
    <3>1. CASE i = n + 1
      <4>1. i # 1 /\ i - 1 = n /\ n \in 1 .. n + 1 /\ n # n + 1  BY <3>1
      <4>2. f[n] = g[n] /\ f[i] = g[n] \o s[i]  BY <3>1, <4>1
      <4> QED  BY <4>1, <4>2
    <3>2. CASE i # n + 1
      <4>1. i \in 1 .. n  BY <3>2
      <4>2. g[i] = IF i = 1 THEN s[i] ELSE g[i - 1] \o s[i]  BY <2>1, <4>1 DEF Grows
      <4>3. i # 1 => i - 1 \in 1 .. n + 1 /\ i - 1 # n + 1  BY <3>2
      <4>4. i # 1 => f[i - 1] = g[i - 1]  BY <4>3
      <4>5. f[i] = g[i]  BY <3>2
      <4> QED  BY <4>2, <4>4, <4>5
    <3> QED  BY <3>1, <3>2
  <2>3. Grows(f, s, n + 1)
    <3>1. f = [i \in 1 .. n + 1 |-> f[i]]  OBVIOUS
    <3> HIDE DEF f
    <3> QED  BY <2>2, <3>1 DEF Grows
  <2>4. n + 1 \in 1 .. N  BY <1>2
  <2> HIDE DEF f
  <2> QED  BY <2>3, <2>4
<1>3. \A n \in 1 .. N : n \in T
  <2> HIDE DEF T
  <2> QED  BY <1>1, <1>2, FromOneTo
<1> QED  BY <1>3

\* The text of parts is in a function of the texts of its beginnings.
LEMMA Flattened ==
  ASSUME NEW s \in Seq(Bytes), s # <<>>
  PROVE  \E f \in [1 .. Len(s) -> Bytes] :
           /\ f[1] = s[1]
           /\ \A i \in 1 .. Len(s) : i # 1 => f[i] = f[i - 1] \o s[i]
           /\ FlattenSeq(s) = f[Len(s)]
<1> DEFINE N == Len(s)
           f == CHOOSE g : g = [i \in 1 .. Len(s) |-> IF i = 1 THEN s[i] ELSE g[i - 1] \o s[i]]
<1>1. N \in Nat \ {0} /\ \A i \in 1 .. N : s[i] \in Bytes  OBVIOUS
<1>2. Grows(f, s, N)
  <2>1. \E g : g = [i \in 1 .. Len(s) |-> IF i = 1 THEN s[i] ELSE g[i - 1] \o s[i]]
    BY <1>1, GrowsExists DEF Grows
  <2> QED  BY <2>1 DEF Grows
<1>3. FlattenSeq(s) = f[Len(s)]  BY <1>1 DEF FlattenSeq
<1> HIDE DEF f
<1>4. \A i \in 1 .. N : f[i] = IF i = 1 THEN s[i] ELSE f[i - 1] \o s[i]  BY <1>2 DEF Grows
<1> DEFINE T == {i \in 1 .. N : f[i] \in Bytes}
<1>5. 1 \in T  BY <1>1, <1>4
<1>6. ASSUME NEW i \in 1 .. N, i < N, i \in T  PROVE i + 1 \in T
  <2>1. i + 1 \in 1 .. N /\ i + 1 # 1 /\ (i + 1) - 1 = i  BY <1>1, <1>6
  <2>2. f[i + 1] = f[i] \o s[i + 1]  BY <1>4, <2>1
  <2>3. f[i] \in Bytes /\ s[i + 1] \in Bytes  BY <1>1, <1>6, <2>1
  <2>4. f[i] \o s[i + 1] \in Bytes  BY <2>3, ConcatProperties DEF Bytes
  <2> QED  BY <2>1, <2>2, <2>4
<1>7. \A i \in 1 .. N : i \in T
  <2> HIDE DEF T
  <2> QED  BY <1>1, <1>5, <1>6, FromOneTo
<1>8. f \in [1 .. N -> Bytes]
  <2>1. f = [i \in 1 .. N |-> f[i]]  BY <1>2 DEF Grows
  <2> QED  BY <1>7, <2>1
<1>9. f[1] = s[1] /\ \A i \in 1 .. Len(s) : i # 1 => f[i] = f[i - 1] \o s[i]
  <2>1. 1 \in 1 .. N  BY <1>1
  <2> QED  BY <2>1, <1>4, Zenon
<1> QED  BY <1>3, <1>8, <1>9

\* A part more.
LEMMA FlattenAppend ==
  ASSUME NEW s \in Seq(Bytes), NEW x \in Bytes
  PROVE  FlattenSeq(Append(s, x)) = FlattenSeq(s) \o x
<1> DEFINE t == Append(s, x)
<1>1. /\ t \in Seq(Bytes) /\ t # <<>> /\ Len(t) = Len(s) + 1 /\ Len(s) \in Nat
      /\ \A i \in 1 .. Len(s) : t[i] = s[i]
      /\ t[Len(s) + 1] = x
  BY AppendProperties
<1> HIDE DEF t
<1>2. PICK g \in [1 .. Len(t) -> Bytes] :
        /\ g[1] = t[1]
        /\ \A i \in 1 .. Len(t) : i # 1 => g[i] = g[i - 1] \o t[i]
        /\ FlattenSeq(t) = g[Len(t)]
  BY <1>1, Flattened
<1>3. CASE s = <<>>
  <2>1. FlattenSeq(s) = s  BY <1>3 DEF FlattenSeq
  <2>2. FlattenSeq(t) = x  BY <1>1, <1>2, <1>3
  <2>3. <<>> \o x = x  BY ConcatEmptySeq DEF Bytes
  <2> QED  BY <1>3, <2>1, <2>2, <2>3 DEF t
<1>4. CASE s # <<>>
  <2>1. PICK f \in [1 .. Len(s) -> Bytes] :
          /\ f[1] = s[1]
          /\ \A i \in 1 .. Len(s) : i # 1 => f[i] = f[i - 1] \o s[i]
          /\ FlattenSeq(s) = f[Len(s)]
    BY <1>4, Flattened
  <2>2. Len(s) \in Nat \ {0}  BY <1>1, <1>4
  <2> DEFINE T == {i \in 1 .. Len(s) : f[i] = g[i]}
  <2>3. 1 \in T  BY <1>1, <1>2, <2>1, <2>2
  <2>4. ASSUME NEW i \in 1 .. Len(s), i < Len(s), i \in T  PROVE i + 1 \in T
    <3>1. i + 1 \in 1 .. Len(s) /\ i + 1 \in 1 .. Len(t) /\ i + 1 # 1 /\ (i + 1) - 1 = i
      BY <1>1, <2>2, <2>4
    <3>2. f[i + 1] = f[i] \o s[i + 1]  BY <2>1, <3>1
    <3>3. g[i + 1] = g[i] \o t[i + 1]  BY <1>2, <3>1
    <3>4. t[i + 1] = s[i + 1] /\ f[i] = g[i]  BY <1>1, <2>4, <3>1
    <3> QED  BY <3>1, <3>2, <3>3, <3>4
  <2>5. \A i \in 1 .. Len(s) : i \in T
    <3> HIDE DEF T
    <3> QED  BY <2>2, <2>3, <2>4, FromOneTo
  <2>6. f[Len(s)] = g[Len(s)]  BY <2>2, <2>5
  <2>7. Len(t) \in 1 .. Len(t) /\ Len(t) # 1 /\ Len(t) - 1 = Len(s)  BY <1>1, <2>2
  <2>8. g[Len(t)] = g[Len(s)] \o x  BY <1>1, <1>2, <2>7
  <2> QED  BY <1>2, <2>1, <2>6, <2>8 DEF t
<1> QED  BY <1>3, <1>4

-----------------------------------------------------------------------------
(***************************************************************************)
(* What has been printed is in the messages and the buffer                 *)
(***************************************************************************)
Buffer == [1 .. BufSize -> Byte]
Message == [error : BOOLEAN, text : Bytes, ends : BOOLEAN]
BufferState ==
  [buf : Buffer, index : 0 .. BufSize - 1, fragmented : BOOLEAN, sent : Seq(Message)]
Line == [text : Bytes, error : BOOLEAN, state : {"none", "open", "ended", "blank"}]

TextsOf(sent) == [i \in DOMAIN sent |-> sent[i].text]
SentOf(d) == FlattenSeq(TextsOf(d.sent))
Collected(d) == SubSeq(d.buf, 1, d.index)

\* No byte of a text in the buffer is NUL.
Solid(buf, n) == \A i \in 1 .. n : buf[i] # 0

\* No message of the line ends it.
Unended(d, error) ==
  \A i \in DOMAIN d.sent : ~ d.sent[i].ends /\ d.sent[i].error = error

\* Of an open line, which has this text so far: it is in the messages and in the
\* buffer, and there are no messages unless it was too long.
Holding(d, text, error) ==
  /\ d \in BufferState
  /\ \E i \in 1 .. BufSize : d.buf[i] = 0
  /\ Solid(d.buf, d.index)
  /\ SentOf(d) \o Collected(d) = text
  /\ Unended(d, error)
  /\ d.fragmented => FromSling /\ Len(text) >= BufSize
  /\ FromSling /\ ~ d.fragmented => d.sent = <<>>
  /\ ~ FromSling => d.index = 0

\* After a piece the text in the buffer ends with a NUL, unless it is empty.
Terminated(d) == FromSling /\ ~ d.fragmented => d.buf[d.index + 1] = 0

\* The texts of messages are texts.
LEMMA TextsType ==
  ASSUME NEW sent \in Seq(Message)
  PROVE  TextsOf(sent) \in Seq(Bytes)
<1>1. DOMAIN sent = 1 .. Len(sent) /\ Len(sent) \in Nat /\ \A i \in 1 .. Len(sent) : sent[i] \in Message
  OBVIOUS
<1>2. \A i \in 1 .. Len(sent) : sent[i].text \in Bytes  BY <1>1 DEF Message
<1>3. TextsOf(sent) \in [1 .. Len(sent) -> Bytes]
  BY <1>1, <1>2 DEF TextsOf
<1> QED  BY <1>1, <1>3

\* The messages of a sequence, and a message more, put together.
LEMMA SentAppend ==
  ASSUME NEW sent \in Seq(Message), NEW m \in Message
  PROVE  FlattenSeq(TextsOf(Append(sent, m))) = FlattenSeq(TextsOf(sent)) \o m.text
<1>1. TextsOf(sent) \in Seq(Bytes) /\ m.text \in Bytes  BY TextsType DEF Message
<1>2. TextsOf(Append(sent, m)) = Append(TextsOf(sent), m.text)
  BY <1>1 DEF TextsOf
<1> QED  BY <1>1, <1>2, FlattenAppend

\* Together they are a text.
LEMMA SentType ==
  ASSUME NEW sent \in Seq(Message)
  PROVE  FlattenSeq(TextsOf(sent)) \in Bytes
<1>1. TextsOf(sent) \in Seq(Bytes)  BY TextsType
<1>2. CASE TextsOf(sent) = <<>>  BY <1>2, EmptySeq DEF FlattenSeq, Bytes
<1>3. CASE TextsOf(sent) # <<>>
  <2>1. Len(TextsOf(sent)) \in 1 .. Len(TextsOf(sent))  BY <1>1, <1>3
  <2> QED  BY <1>1, <1>3, <2>1, Flattened
<1> QED  BY <1>2, <1>3

\* C sees a text up to its first NUL.
LEMMA CStringUpTo ==
  ASSUME NEW text \in Bytes, NEW n \in 0 .. Len(text), Solid(text, n),
         n < Len(text) => text[n + 1] = 0
  PROVE  CString(text) = SubSeq(text, 1, n)
<1> DEFINE I == {i \in 1 .. Len(text) : text[i] = 0}
<1>1. CString(text) = LET nul == IF I # {} THEN Min(I) ELSE 0
                      IN IF nul = 0 THEN text ELSE SubSeq(text, 1, nul - 1)
  BY DEF CString, SelectInSeq
<1>2. Len(text) \in Nat  BY DEF Bytes
<1>3. CASE n = Len(text)
  <2>1. I = {}  BY <1>3 DEF Solid
  <2>2. CString(text) = text  BY <1>1, <2>1
  <2> QED  BY <1>3, <2>2, SubSeqFull DEF Bytes
<1>4. CASE n < Len(text)
  <2>1. n + 1 \in I /\ \A j \in I : n + 1 <= j  BY <1>2, <1>4 DEF Solid
  <2>2. Min(I) \in I /\ \A j \in I : Min(I) <= j
    <3> HIDE DEF I
    <3> QED  BY <2>1 DEF Min
  <2>3. I \subseteq Nat /\ n + 1 \in Nat  OBVIOUS
  <2>4. Min(I) = n + 1
    <3> HIDE DEF I
    <3>1. n + 1 <= Min(I) /\ Min(I) <= n + 1 /\ Min(I) \in Nat  BY <2>1, <2>2, <2>3
    <3> QED  BY <2>3, <3>1
  <2>5. Min(I) # 0 /\ Min(I) - 1 = n /\ I # {}
    <3> HIDE DEF I
    <3> QED  BY <2>1, <2>4
  <2> QED
    <3> HIDE DEF I
    <3> QED  BY <1>1, <2>5
<1> QED  BY <1>2, <1>3, <1>4

\* And that is a text.
LEMMA CStringType ==
  ASSUME NEW text \in Bytes
  PROVE  CString(text) \in Bytes
<1> DEFINE I == {i \in 1 .. Len(text) : text[i] = 0}
<1>1. Len(text) \in Nat /\ \A i \in 1 .. Len(text) : text[i] \in Byte  BY DEF Bytes
<1>2. \E n \in 0 .. Len(text) : Solid(text, n) /\ (n < Len(text) => text[n + 1] = 0)
  <2>1. CASE I = {}
    <3>1. Len(text) \in 0 .. Len(text) /\ Solid(text, Len(text))  BY <1>1, <2>1 DEF Solid
    <3> QED  BY <1>1, <3>1
  <2>2. CASE I # {}
    <3>1. I \subseteq Nat  OBVIOUS
    <3>2. PICK m \in I : \A k \in I : m <= k
      <4> HIDE DEF I
      <4> QED  BY <2>2, <3>1, Least
    <3>3. m - 1 \in 0 .. Len(text) /\ (m - 1) + 1 = m /\ text[m] = 0  BY <1>1
    <3>4. Solid(text, m - 1)  BY <1>1, <3>2, <3>3 DEF Solid
    <3> QED  BY <3>3, <3>4
  <2> QED  BY <2>1, <2>2
<1>3. PICK n \in 0 .. Len(text) : Solid(text, n) /\ (n < Len(text) => text[n + 1] = 0)
  BY <1>2
<1>4. CString(text) = SubSeq(text, 1, n)  BY <1>3, CStringUpTo
<1>5. \A i \in 1 .. n : text[i] \in Byte  BY <1>1
<1> QED  BY <1>4, <1>5, SubSeqProperties DEF Bytes

\* A piece has no NUL.
LEMMA CStringPiece ==
  ASSUME NEW text \in Piece
  PROVE  CString(text) = text /\ text \in Bytes
<1>1. text \in Bytes /\ Len(text) \in 0 .. Len(text) /\ Solid(text, Len(text))
  BY DEF Piece, Bytes, Byte, Solid
<1> QED  BY <1>1, CStringUpTo, SubSeqFull DEF Bytes

\* What the buffer has collected.
LEMMA CStringBuffer ==
  ASSUME NEW buf \in Buffer, NEW n \in 0 .. BufSize - 1, Solid(buf, n)
  PROVE  /\ SubSeq(buf, 1, n) \in Bytes
         /\ Len(SubSeq(buf, 1, n)) = n
         /\ buf[n + 1] = 0 => CString(buf) = SubSeq(buf, 1, n)
<1>1. buf \in Bytes /\ Len(buf) = BufSize /\ n \in 0 .. Len(buf)
  BY BufSizeAssumption DEF Buffer, Bytes
<1>2. SubSeq(buf, 1, n) \in Bytes /\ Len(SubSeq(buf, 1, n)) = n
  <2>1. \A i \in 1 .. n : buf[i] \in Byte  BY BufSizeAssumption DEF Buffer
  <2> QED  BY <2>1, SubSeqProperties DEF Bytes
<1>3. ASSUME buf[n + 1] = 0  PROVE CString(buf) = SubSeq(buf, 1, n)
  BY <1>1, <1>3, CStringUpTo
<1> QED  BY <1>2, <1>3

-----------------------------------------------------------------------------
(***************************************************************************)
(* vsnprintf                                                               *)
(***************************************************************************)

\* It stays in the buffer, and leaves alone what is there already.
LEMMA WrittenPart ==
  ASSUME NEW buf \in Buffer, NEW index \in 0 .. BufSize - 1, NEW text \in Bytes
  PROVE  /\ vsnprintf(buf, index, text) \in Buffer
         /\ \A i \in 1 .. index : vsnprintf(buf, index, text)[i] = buf[i]
<1> DEFINE room == BufSize - index - 1
           n == IF Len(text) <= room THEN Len(text) ELSE room
           Entry(i) == IF i \in index + 1 .. index + n THEN text[i - index]
                       ELSE IF i = index + n + 1 THEN 0 ELSE buf[i]
<1>1. vsnprintf(buf, index, text) = [i \in 1 .. BufSize |-> Entry(i)]  BY DEF vsnprintf
<1>2. n \in 0 .. Len(text) /\ index \in Nat /\ BufSize \in Nat /\ Len(text) \in Nat
  BY BufSizeAssumption DEF Bytes
<1>3. ASSUME NEW i \in 1 .. BufSize  PROVE Entry(i) \in Byte
  <2>1. CASE i \in index + 1 .. index + n
    <3>1. i - index \in 1 .. Len(text)  BY <1>2, <2>1
    <3>2. text[i - index] \in Byte  BY <3>1 DEF Bytes
    <3> QED  BY <2>1, <3>2
  <2>2. CASE i \notin index + 1 .. index + n  BY <2>2 DEF Buffer, Byte
  <2> QED  BY <2>1, <2>2
<1>4. ASSUME NEW i \in 1 .. index  PROVE Entry(i) = buf[i] /\ i \in 1 .. BufSize
  BY <1>2
<1> HIDE DEF Entry
<1> QED  BY <1>1, <1>3, <1>4 DEF Buffer

\* A text that fits is added to what is there, with a NUL behind it.
Followed(w, buf, index, text) ==
  /\ index + Len(text) \in 0 .. BufSize - 1
  /\ w[index + Len(text) + 1] = 0
  /\ Solid(w, index + Len(text))
  /\ SubSeq(w, 1, index + Len(text)) = SubSeq(buf, 1, index) \o text

\* vsnprintf adds a text that fits.
LEMMA Written ==
  ASSUME NEW buf \in Buffer, NEW index \in 0 .. BufSize - 1, NEW text \in Piece,
         Len(text) < BufSize - index, Solid(buf, index)
  PROVE  Followed(vsnprintf(buf, index, text), buf, index, text)
<1> DEFINE w == vsnprintf(buf, index, text)
<1> DEFINE n == Len(text)
<1>1. n \in Nat /\ index \in Nat /\ BufSize \in Nat  BY BufSizeAssumption DEF Piece
<1>2. index + n \in 0 .. BufSize - 1 /\ index + n + 1 \in 1 .. BufSize /\ n <= BufSize - index - 1
  BY <1>1
<1>3. \A i \in 1 .. BufSize : w[i] = IF i \in index + 1 .. index + n THEN text[i - index]
                                    ELSE IF i = index + n + 1 THEN 0 ELSE buf[i]
  BY <1>1, <1>2 DEF vsnprintf
<1>4. w[index + n + 1] = 0  BY <1>1, <1>2, <1>3
<1>5. ASSUME NEW i \in 1 .. index + n
      PROVE  w[i] = (IF i <= index THEN buf[i] ELSE text[i - index]) /\ w[i] # 0 /\ w[i] \in Byte
  <2>1. i \in 1 .. BufSize  BY <1>1, <1>2
  <2>2. CASE i <= index
    <3>1. w[i] = buf[i]  BY <1>1, <1>3, <2>1, <2>2
    <3> QED  BY <1>1, <2>1, <2>2, <3>1 DEF Solid, Buffer
  <2>3. CASE ~ (i <= index)
    <3>1. i \in index + 1 .. index + n /\ i - index \in 1 .. n  BY <1>1, <2>3
    <3>2. w[i] = text[i - index]  BY <1>3, <2>1, <3>1
    <3>3. text[i - index] \in Nat \ {0}  BY <3>1 DEF Piece
    <3> QED  BY <2>3, <3>2, <3>3 DEF Byte
  <2> QED  BY <2>2, <2>3
<1> DEFINE a == SubSeq(w, 1, index + n)
           b == SubSeq(buf, 1, index)
<1>6. a \in Bytes /\ Len(a) = index + n /\ \A i \in 1 .. index + n : a[i] = w[i]
  BY <1>1, <1>5, SubSeqProperties DEF Bytes
<1>7. b \in Bytes /\ Len(b) = index /\ \A i \in 1 .. index : b[i] = buf[i]
  <2>1. \A i \in 1 .. index : buf[i] \in Byte  BY <1>1 DEF Buffer
  <2> QED  BY <1>1, <2>1, SubSeqProperties DEF Bytes
<1>8. text \in Bytes  BY CStringPiece
<1> HIDE DEF a, b
<1>9. /\ b \o text \in Bytes /\ Len(b \o text) = index + n
      /\ \A i \in 1 .. index + n : (b \o text)[i] = IF i <= index THEN b[i] ELSE text[i - index]
  BY <1>7, <1>8, ConcatProperties DEF Bytes
<1>10. ASSUME NEW i \in 1 .. index + n  PROVE a[i] = (b \o text)[i]
  BY <1>1, <1>5, <1>6, <1>7, <1>9
<1>11. a = b \o text  BY <1>6, <1>9, <1>10, SeqEqual DEF Bytes
<1>12. Followed(w, buf, index, text)  BY <1>2, <1>4, <1>5, <1>11 DEF Followed, Solid, a, b
<1> QED  BY <1>12

-----------------------------------------------------------------------------
(***************************************************************************)
(* A piece                                                                 *)
(***************************************************************************)

\* All of a text has been sent, as fragments.
Emptied(d, text, error) ==
  /\ d \in BufferState
  /\ \E i \in 1 .. BufSize : d.buf[i] = 0
  /\ d.index = 0
  /\ d.fragmented
  /\ SentOf(d) = text
  /\ Unended(d, error)

\* f is d after a message more.
OneSent(f, d, text, error, ends) ==
  /\ f \in BufferState
  /\ f.buf = d.buf /\ f.index = d.index /\ f.fragmented = d.fragmented
  /\ SentOf(f) = SentOf(d) \o CString(text)
  /\ Len(f.sent) = Len(d.sent) + 1
  /\ \A i \in DOMAIN f.sent :
       \/ i \in DOMAIN d.sent /\ i # Len(f.sent) /\ f.sent[i] = d.sent[i]
       \/ i = Len(f.sent) /\ f.sent[i].ends = ends /\ f.sent[i].error = error

\* send_display_string adds one.
LEMMA SendOK ==
  ASSUME NEW d \in BufferState, NEW text, CString(text) \in Bytes,
         NEW error \in BOOLEAN, NEW ends \in BOOLEAN
  PROVE  OneSent(send_display_string(d, text, error, ends), d, text, error, ends)
<1> DEFINE f == send_display_string(d, text, error, ends)
<1> DEFINE m == [error |-> error, text |-> CString(text), ends |-> ends]
<1>1. m \in Message  BY DEF Message
<1>2. d.sent \in Seq(Message)  BY DEF BufferState
<1>3. f = [d EXCEPT !.sent = Append(d.sent, m)]  BY DEF send_display_string
<1> HIDE DEF m, f
<1>4. /\ Append(d.sent, m) \in Seq(Message) /\ Append(d.sent, m) # <<>>
      /\ Len(Append(d.sent, m)) = Len(d.sent) + 1
      /\ \A i \in 1 .. Len(d.sent) : Append(d.sent, m)[i] = d.sent[i]
      /\ Append(d.sent, m)[Len(d.sent) + 1] = m
  BY <1>1, <1>2, AppendProperties
<1>5. /\ f \in BufferState /\ f.sent = Append(d.sent, m)
      /\ f.buf = d.buf /\ f.index = d.index /\ f.fragmented = d.fragmented
  BY <1>3, <1>4 DEF BufferState
<1>6. SentOf(f) = SentOf(d) \o m.text  BY <1>1, <1>2, <1>5, SentAppend DEF SentOf
<1>7. ASSUME NEW i \in DOMAIN f.sent
      PROVE  \/ i \in DOMAIN d.sent /\ i # Len(f.sent) /\ f.sent[i] = d.sent[i]
             \/ i = Len(f.sent) /\ f.sent[i] = m
  <2>1. DOMAIN f.sent = 1 .. Len(d.sent) + 1 /\ DOMAIN d.sent = 1 .. Len(d.sent) /\ Len(d.sent) \in Nat
    BY <1>2, <1>4, <1>5
  <2>2. CASE i \in 1 .. Len(d.sent)  BY <1>4, <1>5, <2>1, <2>2
  <2>3. CASE i = Len(d.sent) + 1  BY <1>4, <1>5, <2>3
  <2> QED  BY <2>1, <2>2, <2>3
<1>8. m.text = CString(text) /\ m.ends = ends /\ m.error = error  BY DEF m
<1>9. OneSent(f, d, text, error, ends)  BY <1>4, <1>5, <1>6, <1>7, <1>8 DEF OneSent
<1> QED  BY <1>9 DEF f

\* A fragment takes along what the buffer holds, whatever has been written behind it.
LEMMA FragmentOK ==
  ASSUME NEW d, NEW text, NEW error \in BOOLEAN, Holding(d, text, error),
         NEW w \in Buffer, \A i \in 1 .. d.index : w[i] = d.buf[i],
         NEW f, f = Fragment([d EXCEPT !.buf = w], error)
  PROVE  Emptied(f, text, error)
<1> DEFINE tried == [d EXCEPT !.buf = w]
           buf == [w EXCEPT ![d.index + 1] = 0]
           cut == [d EXCEPT !.buf = buf, !.fragmented = TRUE]
           sent == send_display_string(cut, cut.buf, error, FALSE)
<1>1. d \in BufferState /\ d.index \in 0 .. BufSize - 1 /\ d.index + 1 \in 1 .. BufSize
  BY BufSizeAssumption DEF Holding, BufferState
<1>2. buf \in Buffer /\ buf[d.index + 1] = 0 /\ \A i \in 1 .. d.index : buf[i] = d.buf[i]
  BY <1>1 DEF Buffer, Byte
<1>3. cut = [tried EXCEPT !.fragmented = TRUE, !.buf[tried.index + 1] = 0]
  BY <1>1 DEF BufferState
<1>4. cut \in BufferState /\ cut.buf = buf /\ cut.sent = d.sent /\ cut.fragmented
  BY <1>1, <1>2 DEF BufferState
<1>5. f = [sent EXCEPT !.index = 0]  BY <1>3 DEF Fragment
<1> HIDE DEF buf
<1>6. CString(buf) = Collected(d) /\ CString(buf) \in Bytes
  <2>1. Solid(buf, d.index)  BY <1>2 DEF Holding, Solid
  <2>2. CString(buf) = SubSeq(buf, 1, d.index) /\ CString(buf) \in Bytes
    BY <1>1, <1>2, <2>1, CStringBuffer
  <2>3. SubSeq(buf, 1, d.index) = SubSeq(d.buf, 1, d.index)
    <3>1. \A i \in 1 .. d.index : buf[i] \in Byte /\ d.buf[i] \in Byte
      <4>1. \A i \in 1 .. d.index : i \in 1 .. BufSize  BY <1>1, BufSizeAssumption
      <4>2. d.buf \in Buffer  BY <1>1 DEF BufferState
      <4> QED  BY <1>2, <4>1, <4>2 DEF Buffer
    <3> DEFINE a == SubSeq(buf, 1, d.index)
               b == SubSeq(d.buf, 1, d.index)
    <3>2. a \in Bytes /\ Len(a) = d.index /\ \A i \in 1 .. d.index : a[i] = buf[i]
      BY <1>1, <3>1, SubSeqProperties DEF Bytes
    <3>3. b \in Bytes /\ Len(b) = d.index /\ \A i \in 1 .. d.index : b[i] = d.buf[i]
      BY <1>1, <3>1, SubSeqProperties DEF Bytes
    <3> HIDE DEF a, b
    <3>4. a = b  BY <1>2, <3>2, <3>3, SeqEqual DEF Bytes
    <3> QED  BY <3>4 DEF a, b
  <2> QED  BY <2>2, <2>3 DEF Collected
<1>8. sent = send_display_string(cut, buf, error, FALSE)  BY <1>4
<1> HIDE DEF cut, sent
<1>9. /\ sent \in BufferState /\ sent.buf = buf /\ sent.fragmented
      /\ SentOf(sent) = SentOf(cut) \o Collected(d)
      /\ \A i \in DOMAIN sent.sent :
           \/ i \in DOMAIN d.sent /\ sent.sent[i] = d.sent[i]
           \/ sent.sent[i].ends = FALSE /\ sent.sent[i].error = error
  <2>1. OneSent(sent, cut, buf, error, FALSE)
    <3>1. FALSE \in BOOLEAN  OBVIOUS
    <3> QED  BY <1>4, <1>6, <1>8, <3>1, SendOK
  <2>2. SentOf(sent) = SentOf(cut) \o Collected(d)  BY <1>6, <2>1 DEF OneSent
  <2> QED  BY <1>4, <2>1, <2>2 DEF OneSent
<1>10. SentOf(cut) = SentOf(d)  BY <1>4 DEF SentOf
<1>11. /\ f \in BufferState /\ f.buf = buf /\ f.index = 0 /\ f.fragmented /\ f.sent = sent.sent
  <2>1. 0 \in 0 .. BufSize - 1  BY BufSizeAssumption
  <2> QED  BY <1>5, <1>9, <2>1 DEF BufferState
<1>12. SentOf(f) = text  BY <1>9, <1>10, <1>11 DEF SentOf, Holding
<1>13. Unended(f, error)
  BY <1>9, <1>11 DEF Holding, Unended
<1> QED  BY <1>1, <1>2, <1>11, <1>12, <1>13 DEF Emptied

\* What the buffer holds.
LEMMA CollectedType ==
  ASSUME NEW d \in BufferState, Solid(d.buf, d.index)
  PROVE  /\ SentOf(d) \in Bytes
         /\ Collected(d) \in Bytes
         /\ Len(Collected(d)) = d.index
         /\ d.index = 0 => Collected(d) = <<>>
<1>1. SentOf(d) \in Bytes  BY SentType DEF SentOf, BufferState
<1>2. Collected(d) \in Bytes /\ Len(Collected(d)) = d.index
  BY CStringBuffer DEF Collected, BufferState
<1>3. d.index = 0 => Collected(d) = <<>>  BY SubSeqEmpty DEF Collected
<1> QED  BY <1>1, <1>2, <1>3

\* A piece is added to the text in the buffer.
Extended(d, text) ==
  [d EXCEPT !.buf = vsnprintf(d.buf, d.index, text), !.index = d.index + Len(text)]

\* A piece that fits.
LEMMA FittingPiece ==
  ASSUME NEW d, NEW t, NEW error \in BOOLEAN, Holding(d, t, error), FromSling,
         NEW text \in Piece, Fits(d, text)
  PROVE  Holding(Extended(d, text), t \o text, error) /\ Terminated(Extended(d, text))
<1> DEFINE f == Extended(d, text)
           w == vsnprintf(d.buf, d.index, text)
           n == d.index + Len(text)
<1>1. /\ d \in BufferState /\ Solid(d.buf, d.index)
      /\ d.buf \in Buffer /\ d.index \in 0 .. BufSize - 1 /\ d.sent \in Seq(Message)
  BY DEF Holding, BufferState
<1>2. text \in Bytes  BY CStringPiece
<1>3. w \in Buffer  BY <1>1, <1>2, WrittenPart
<1>4. /\ n \in 0 .. BufSize - 1 /\ w[n + 1] = 0 /\ Solid(w, n)
      /\ SubSeq(w, 1, n) = SubSeq(d.buf, 1, d.index) \o text
  <2>1. Followed(w, d.buf, d.index, text)  BY <1>1, Written DEF Fits
  <2> QED  BY <2>1 DEF Followed
<1> HIDE DEF w, n
<1>5. f = [d EXCEPT !.buf = w, !.index = n]  BY DEF w, n, Extended
<1> HIDE DEF f
<1>6. /\ f \in BufferState /\ f.buf = w /\ f.index = n
      /\ f.sent = d.sent /\ f.fragmented = d.fragmented
  BY <1>1, <1>3, <1>4, <1>5 DEF BufferState
<1>7. n + 1 \in 1 .. BufSize  BY <1>4, BufSizeAssumption
<1>8. SentOf(d) \in Bytes /\ Collected(d) \in Bytes  BY <1>1, CollectedType
<1>9. SentOf(f) \o Collected(f) = t \o text
  <2>1. SentOf(f) = SentOf(d) /\ Collected(f) = Collected(d) \o text
    BY <1>4, <1>6 DEF SentOf, Collected
  <2>2. SentOf(d) \o (Collected(d) \o text) = (SentOf(d) \o Collected(d)) \o text
    BY <1>2, <1>8, ConcatAssociative DEF Bytes
  <2> QED  BY <2>1, <2>2 DEF Holding
<1>10. f.fragmented => Len(t \o text) >= BufSize
  <2>1. t \in Bytes  BY <1>8, ConcatProperties DEF Bytes, Holding
  <2>2. Len(t \o text) = Len(t) + Len(text) /\ Len(t) \in Nat /\ Len(text) \in Nat
    BY <1>2, <2>1, ConcatProperties DEF Bytes
  <2> QED  BY <1>6, <2>2, BufSizeAssumption DEF Holding
<1>11. Holding(f, t \o text, error) /\ Terminated(f)
  BY <1>4, <1>6, <1>7, <1>9, <1>10 DEF Holding, Terminated, Unended
<1> QED  BY <1>11 DEF f

\* A piece that does not fit is longer than the rest of the buffer.
LEMMA TooLong ==
  ASSUME NEW d, NEW t, NEW error \in BOOLEAN, Holding(d, t, error), FromSling,
         NEW text \in Piece, ~ Fits(d, text)
  PROVE  t \in Bytes /\ t \o text \in Bytes /\ Len(t \o text) >= BufSize
<1>1. d \in BufferState /\ Solid(d.buf, d.index) /\ d.index \in Nat  BY DEF Holding, BufferState
<1>2. text \in Bytes  BY CStringPiece
<1>3. /\ SentOf(d) \in Bytes /\ Collected(d) \in Bytes
      /\ Len(Collected(d)) = d.index
  BY <1>1, CollectedType
<1>4. t \in Bytes /\ Len(t) = Len(SentOf(d)) + d.index
  <2>1. t = SentOf(d) \o Collected(d)  BY DEF Holding
  <2> QED  BY <1>3, <2>1, ConcatProperties DEF Bytes
<1>5. t \o text \in Bytes /\ Len(t \o text) = Len(t) + Len(text)
  BY <1>2, <1>4, ConcatProperties DEF Bytes
<1>6. Len(text) \in Nat /\ Len(SentOf(d)) \in Nat  BY <1>2, <1>3 DEF Bytes
<1>7. Len(text) >= BufSize - d.index  BY <1>1, <1>6, BufSizeAssumption DEF Fits
<1> QED  BY <1>1, <1>4, <1>5, <1>6, <1>7, BufSizeAssumption

\* A piece that fits the buffer once that has been sent.
LEMMA NextFragment ==
  ASSUME NEW d, NEW t \in Bytes, NEW error \in BOOLEAN, Emptied(d, t, error), FromSling,
         NEW text \in Piece, Len(text) < BufSize, Len(t \o text) >= BufSize,
         NEW f, f = [d EXCEPT !.buf = vsnprintf(d.buf, 0, text), !.index = Len(text)]
  PROVE  Holding(f, t \o text, error) /\ Terminated(f)
<1> DEFINE w == vsnprintf(d.buf, 0, text)
           n == Len(text)
<1>1. d \in BufferState /\ d.buf \in Buffer /\ d.sent \in Seq(Message) /\ d.fragmented
  BY DEF Emptied, BufferState
<1>2. text \in Bytes /\ n \in Nat /\ 0 \in 0 .. BufSize - 1 /\ BufSize - 0 = BufSize /\ 0 + n = n
  BY CStringPiece, BufSizeAssumption DEF Piece
<1>3. w \in Buffer  BY <1>1, <1>2, WrittenPart
<1>4. /\ n \in 0 .. BufSize - 1 /\ w[n + 1] = 0 /\ Solid(w, n)
      /\ SubSeq(w, 1, n) = SubSeq(d.buf, 1, 0) \o text
  <2>1. Solid(d.buf, 0)  BY DEF Solid
  <2>2. Followed(w, d.buf, 0, text)  BY <1>1, <1>2, <2>1, Written
  <2> QED  BY <1>2, <2>2 DEF Followed
<1>5. SubSeq(w, 1, n) = text
  <2>1. SubSeq(d.buf, 1, 0) = <<>>  BY SubSeqEmpty
  <2> QED  BY <1>2, <1>4, <2>1, ConcatEmptySeq DEF Bytes
<1> HIDE DEF w, n
<1>6. f = [d EXCEPT !.buf = w, !.index = n]  BY DEF w, n
<1>7. /\ f \in BufferState /\ f.buf = w /\ f.index = n
      /\ f.sent = d.sent /\ f.fragmented
  BY <1>1, <1>3, <1>4, <1>6 DEF BufferState
<1>8. n + 1 \in 1 .. BufSize  BY <1>4, BufSizeAssumption
<1>9. SentOf(f) \o Collected(f) = t \o text
  BY <1>5, <1>7 DEF SentOf, Collected, Emptied
<1> QED  BY <1>4, <1>7, <1>8, <1>9 DEF Holding, Terminated, Emptied, Unended

\* A piece that is longer than the buffer, and one without sling, are sent as they are.
LEMMA SentPiece ==
  ASSUME NEW d, NEW t \in Bytes, NEW error \in BOOLEAN, NEW text \in Piece,
         d \in BufferState, d.index = 0, SentOf(d) = t,
         \E i \in 1 .. BufSize : d.buf[i] = 0,
         Unended(d, error),
         FromSling => d.fragmented,
         d.fragmented => FromSling /\ Len(t \o text) >= BufSize
  PROVE  /\ Holding(send_display_string(d, text, error, FALSE), t \o text, error)
         /\ Terminated(send_display_string(d, text, error, FALSE))
<1> DEFINE f == send_display_string(d, text, error, FALSE)
<1>1. text \in Bytes /\ CString(text) = text /\ FALSE \in BOOLEAN  BY CStringPiece
<1>2. OneSent(f, d, text, error, FALSE)  BY <1>1, SendOK
<1> HIDE DEF f
<1>3. f \in BufferState /\ f.buf = d.buf /\ f.index = 0 /\ f.fragmented = d.fragmented
  BY <1>2 DEF OneSent
<1>4. Solid(f.buf, f.index)  BY <1>3 DEF Solid
<1>5. SentOf(f) \o Collected(f) = t \o text
  <2>1. SentOf(f) = t \o text  BY <1>1, <1>2 DEF OneSent
  <2>2. Collected(f) = <<>> /\ SentOf(f) \in Bytes  BY <1>3, <1>4, CollectedType
  <2> QED  BY <2>1, <2>2, ConcatEmptySeq DEF Bytes
<1>6. Unended(f, error)  BY <1>2 DEF OneSent, Unended
<1>7. Holding(f, t \o text, error) /\ Terminated(f)
  BY <1>3, <1>4, <1>5, <1>6 DEF Holding, Terminated
<1> QED  BY <1>7 DEF f

\* print_string adds a piece to the text of the line.
LEMMA PieceOK ==
  ASSUME NEW d, NEW t, NEW error \in BOOLEAN, Holding(d, t, error), NEW text \in Piece
  PROVE  /\ Holding(print_string(d, text, error), t \o text, error)
         /\ Terminated(print_string(d, text, error))
<1> DEFINE w == vsnprintf(d.buf, d.index, text)
           tried == [d EXCEPT !.buf = w]
           emptied == Fragment(tried, error)
<1>1. d \in BufferState /\ Solid(d.buf, d.index) /\ d.buf \in Buffer /\ d.index \in 0 .. BufSize - 1
  BY DEF Holding, BufferState
<1>2. text \in Bytes  BY CStringPiece
<1>3. w \in Buffer /\ \A i \in 1 .. d.index : w[i] = d.buf[i]  BY <1>1, <1>2, WrittenPart
<1>4. CASE ~ FromSling
  <2>1. print_string(d, text, error) = send_display_string(d, text, error, FALSE)
    BY <1>4 DEF print_string
  <2>2. SentOf(d) = t /\ t \in Bytes /\ d.index = 0 /\ ~ d.fragmented
    <3>1. SentOf(d) \in Bytes /\ Collected(d) = <<>> /\ d.index = 0
      BY <1>1, <1>4, CollectedType DEF Holding
    <3>2. SentOf(d) \o <<>> = SentOf(d)  BY <3>1, ConcatEmptySeq DEF Bytes
    <3> QED  BY <1>4, <3>1, <3>2 DEF Holding
  <2>3. /\ \E i \in 1 .. BufSize : d.buf[i] = 0
        /\ Unended(d, error)
    BY DEF Holding
  <2> QED  BY <1>1, <1>4, <2>1, <2>2, <2>3, SentPiece
<1>5. CASE FromSling /\ Fits(d, text)
  <2>1. print_string(d, text, error) = Extended(d, text)
    BY <1>1, <1>5 DEF print_string, printf_buf, Extended, BufferState
  <2> QED  BY <1>5, <2>1, FittingPiece
<1>6. CASE FromSling /\ ~ Fits(d, text)
  <2>1. t \in Bytes /\ Len(t \o text) >= BufSize  BY <1>6, TooLong
  <2>2. Emptied(emptied, t, error)
    <3> HIDE DEF w
    <3> QED  BY <1>3, FragmentOK
  <2>3. CASE Len(text) >= BufSize
    <3>1. print_string(d, text, error) = send_display_string(emptied, text, error, FALSE)
      BY <1>6, <2>3 DEF print_string, printf_buf
    <3> HIDE DEF emptied
    <3> QED  BY <1>6, <2>1, <2>2, <3>1, SentPiece DEF Emptied
  <2>4. CASE Len(text) < BufSize
    <3>1. print_string(d, text, error)
            = [emptied EXCEPT !.buf = vsnprintf(emptied.buf, 0, text), !.index = Len(text)]
      <4>1. ~ (Len(text) >= BufSize)  BY <1>2, <2>4, BufSizeAssumption DEF Bytes
      <4> QED  BY <1>6, <4>1 DEF print_string, printf_buf
    <3> HIDE DEF emptied
    <3> QED  BY <1>6, <2>1, <2>2, <2>4, <3>1, NextFragment
  <2> QED  BY <1>2, <2>3, <2>4, BufSizeAssumption DEF Bytes
<1> QED  BY <1>4, <1>5, <1>6

-----------------------------------------------------------------------------
(***************************************************************************)
(* The end of a line                                                       *)
(***************************************************************************)

\* Nothing of a line is left in the printer.
Clear(d) ==
  /\ d \in BufferState
  /\ d.index = 0
  /\ ~ d.fragmented
  /\ \E i \in 1 .. BufSize : d.buf[i] = 0

\* The messages of a line that has ended.
Complete(d, error) ==
  /\ d.sent # <<>>
  /\ \A i \in DOMAIN d.sent :
       /\ d.sent[i].ends <=> i = Len(d.sent)
       /\ d.sent[i].text # <<>> => d.sent[i].error = error

\* What they say of the text of the line.
Reported(sent, text) ==
  /\ IsPrefix(sent, text)
  /\ Len(text) - Len(sent) < BufSize
  /\ Len(text) < BufSize => sent = text

\* A text that is continued begins with it.
LEMMA Continued ==
  ASSUME NEW s \in Bytes, NEW u \in Bytes
  PROVE  IsPrefix(s, s \o u) /\ Len(s \o u) - Len(s) = Len(u)
<1>1. /\ s \o u \in Bytes /\ Len(s \o u) = Len(s) + Len(u) /\ Len(s) \in Nat /\ Len(u) \in Nat
      /\ \A i \in 1 .. Len(s) : (s \o u)[i] = s[i]
  BY ConcatProperties DEF Bytes
<1> DEFINE a == SubSeq(s, 1, Len(s))
           b == SubSeq(s \o u, 1, Len(s))
<1>2. a \in Bytes /\ Len(a) = Len(s) /\ \A i \in 1 .. Len(s) : a[i] = s[i]
  <2>1. \A i \in 1 .. Len(s) : s[i] \in Byte  BY DEF Bytes
  <2> QED  BY <1>1, <2>1, SubSeqProperties DEF Bytes
<1>3. b \in Bytes /\ Len(b) = Len(s) /\ \A i \in 1 .. Len(s) : b[i] = (s \o u)[i]
  <2>1. \A i \in 1 .. Len(s) : (s \o u)[i] \in Byte  BY <1>1 DEF Bytes
  <2> QED  BY <1>1, <2>1, SubSeqProperties DEF Bytes
<1> HIDE DEF a, b
<1>4. a = b  BY <1>1, <1>2, <1>3, SeqEqual DEF Bytes
<1> QED  BY <1>1, <1>4 DEF IsPrefix, a, b

\* f is d after a message that ends the line.
EndsAfter(f, d, error) ==
  \A i \in DOMAIN f.sent :
    \/ i \in DOMAIN d.sent /\ i # Len(f.sent) /\ f.sent[i] = d.sent[i]
    \/ /\ i = Len(f.sent) /\ f.sent[i].ends
       /\ f.sent[i].text # <<>> => f.sent[i].error = error

\* A message that ends the line comes after those of an open line.
LEMMA LastMessage ==
  ASSUME NEW d \in BufferState, NEW error, NEW f \in BufferState, Unended(d, error),
         Len(f.sent) = Len(d.sent) + 1, EndsAfter(f, d, error)
  PROVE  Complete(f, error)
<1>1. Len(d.sent) \in Nat /\ f.sent \in Seq(Message)  BY DEF BufferState
<1>2. f.sent # <<>>  BY <1>1
<1> QED  BY <1>2 DEF Complete, Unended, EndsAfter

\* The end of an open line.
LEMMA FlushOK ==
  ASSUME NEW d, NEW text, NEW error \in BOOLEAN, Holding(d, text, error), Terminated(d),
         NEW f, f = print_flush(d, error)
  PROVE  Clear(f) /\ Complete(f, error) /\ Reported(SentOf(f), text)
<1>1. /\ d \in BufferState /\ Solid(d.buf, d.index) /\ d.index \in 0 .. BufSize - 1
      /\ d.sent \in Seq(Message) /\ d.buf \in Buffer
      /\ \E i \in 1 .. BufSize : d.buf[i] = 0
      /\ Unended(d, error)
      /\ text = SentOf(d) \o Collected(d)
  BY DEF Holding, BufferState
<1>2. /\ SentOf(d) \in Bytes /\ Collected(d) \in Bytes /\ Len(Collected(d)) = d.index
      /\ d.index = 0 => Collected(d) = <<>>
  BY <1>1, CollectedType
<1>3. TRUE \in BOOLEAN /\ <<>> \in Bytes /\ <<>> \in Piece  BY EmptySeq DEF Bytes, Piece
<1>4. 0 \in 0 .. BufSize - 1 /\ BufSize \in Nat  BY BufSizeAssumption
<1>5. IsPrefix(SentOf(d), text) /\ Len(text) - Len(SentOf(d)) < BufSize
  BY <1>1, <1>2, <1>4, Continued
<1>6. CASE ~ FromSling
  <2>1. f = send_display_string(d, <<>>, error, TRUE)  BY <1>6 DEF print_flush
  <2>2. CString(<<>>) = <<>>  BY <1>3, CStringPiece
  <2>3. OneSent(f, d, <<>>, error, TRUE)  BY <1>1, <1>3, <2>1, <2>2, SendOK
  <2>4. Clear(f)  BY <1>1, <1>6, <2>3 DEF OneSent, Clear, Holding
  <2>5. Complete(f, error)
    <3>1. EndsAfter(f, d, error)  BY <2>3 DEF OneSent, EndsAfter
    <3> QED  BY <1>1, <2>3, <3>1, LastMessage DEF OneSent
  <2>6. SentOf(f) = SentOf(d) /\ text = SentOf(d)
    <3>1. Collected(d) = <<>>  BY <1>2, <1>6 DEF Holding
    <3>2. SentOf(d) \o <<>> = SentOf(d)  BY <1>2, ConcatEmptySeq DEF Bytes
    <3> QED  BY <1>1, <2>2, <2>3, <3>1, <3>2 DEF OneSent
  <2> QED  BY <1>5, <2>4, <2>5, <2>6 DEF Reported
<1>7. CASE FromSling /\ d.fragmented
  <2> DEFINE m == [error |-> FALSE, text |-> <<>>, ends |-> TRUE]
  <2>1. m \in Message  BY <1>3 DEF Message
  <2>2. f = [d EXCEPT !.fragmented = FALSE, !.index = 0, !.sent = Append(d.sent, m)]
    BY <1>1, <1>7 DEF print_flush
  <2>3. /\ Append(d.sent, m) \in Seq(Message) /\ Len(Append(d.sent, m)) = Len(d.sent) + 1
        /\ \A i \in 1 .. Len(d.sent) : Append(d.sent, m)[i] = d.sent[i]
        /\ Append(d.sent, m)[Len(d.sent) + 1] = m
    BY <1>1, <2>1, AppendProperties
  <2>4. m.text = <<>> /\ m.ends  OBVIOUS
  <2> HIDE DEF m
  <2>5. f \in BufferState /\ f.sent = Append(d.sent, m) /\ f.buf = d.buf /\ f.index = 0 /\ ~ f.fragmented
    BY <1>1, <1>4, <2>2, <2>3 DEF BufferState
  <2>6. Clear(f)  BY <1>1, <2>5 DEF Clear
  <2>7. EndsAfter(f, d, error)
    <3> SUFFICES ASSUME NEW i \in DOMAIN f.sent
                 PROVE  \/ i \in DOMAIN d.sent /\ i # Len(f.sent) /\ f.sent[i] = d.sent[i]
                        \/ /\ i = Len(f.sent) /\ f.sent[i].ends
                           /\ f.sent[i].text # <<>> => f.sent[i].error = error
      BY DEF EndsAfter
    <3>1. DOMAIN f.sent = 1 .. Len(d.sent) + 1 /\ DOMAIN d.sent = 1 .. Len(d.sent) /\ Len(d.sent) \in Nat
      BY <1>1, <2>3, <2>5
    <3>2. CASE i \in 1 .. Len(d.sent)  BY <2>3, <2>5, <3>1, <3>2
    <3>3. CASE i = Len(d.sent) + 1  BY <2>3, <2>4, <2>5, <3>3
    <3> QED  BY <3>1, <3>2, <3>3
  <2>8. Complete(f, error)  BY <1>1, <2>3, <2>5, <2>7, LastMessage
  <2>9. SentOf(f) = SentOf(d)
    <3>1. SentOf(f) = SentOf(d) \o <<>>  BY <1>1, <2>1, <2>4, <2>5, SentAppend DEF SentOf
    <3> QED  BY <1>2, <3>1, ConcatEmptySeq DEF Bytes
  <2>10. Len(text) >= BufSize /\ Len(text) \in Nat
    <3>1. text \in Bytes  BY <1>1, <1>2, ConcatProperties DEF Bytes
    <3> QED  BY <1>7, <3>1 DEF Holding, Bytes
  <2> QED  BY <1>4, <1>5, <2>6, <2>8, <2>9, <2>10 DEF Reported
<1>8. CASE FromSling /\ ~ d.fragmented
  <2> DEFINE g == send_display_string(d, d.buf, error, TRUE)
  <2>1. f = [g EXCEPT !.index = 0]  BY <1>8 DEF print_flush
  <2>2. CString(d.buf) = Collected(d)  BY <1>1, <1>8, CStringBuffer DEF Collected, Terminated
  <2>3. OneSent(g, d, d.buf, error, TRUE)  BY <1>1, <1>2, <1>3, <2>2, SendOK
  <2> HIDE DEF g
  <2>4. f \in BufferState /\ f.sent = g.sent /\ f.buf = d.buf /\ f.index = 0 /\ ~ f.fragmented
    BY <1>4, <1>8, <2>1, <2>3 DEF BufferState, OneSent
  <2>5. Clear(f)  BY <1>1, <2>4 DEF Clear
  <2>6. Complete(f, error)
    <3>1. EndsAfter(f, d, error)  BY <2>3, <2>4 DEF OneSent, EndsAfter
    <3> QED  BY <1>1, <2>3, <2>4, <3>1, LastMessage DEF OneSent
  <2>7. SentOf(f) = text
    <3>1. SentOf(f) = SentOf(d) \o Collected(d)  BY <2>2, <2>3, <2>4 DEF SentOf, OneSent
    <3> QED  BY <1>1, <3>1
  <2>8. IsPrefix(text, text) /\ Len(text) - Len(text) < BufSize
    <3>1. text \in Bytes  BY <1>1, <1>2, ConcatProperties DEF Bytes
    <3>2. text \o <<>> = text  BY <3>1, ConcatEmptySeq DEF Bytes
    <3>3. IsPrefix(text, text)  BY <1>3, <3>1, <3>2, Continued
    <3>4. Len(text) \in Nat  BY <3>1 DEF Bytes
    <3> QED  BY <3>3, <3>4, BufSizeAssumption
  <2> QED  BY <2>5, <2>6, <2>7, <2>8 DEF Reported
<1> QED  BY <1>6, <1>7, <1>8

\* A flush without a piece before it.
LEMMA BlankOK ==
  ASSUME NEW d, NEW error \in BOOLEAN, Clear(d), d.sent = <<>>,
         NEW f, f = print_flush(d, error)
  PROVE  Clear(f) /\ Complete(f, error)
<1>1. d \in BufferState /\ d.buf \in Buffer  BY DEF Clear, BufferState
<1>2. d.buf \in Bytes /\ <<>> \in Bytes  BY <1>1, EmptySeq, BufSizeAssumption DEF Buffer, Bytes
<1>3. Unended(d, error)  BY DEF Unended
<1>4. PICK text \in Bytes : f = [send_display_string(d, text, error, TRUE) EXCEPT !.index = 0]
  <2>1. CASE ~ FromSling
    <3> DEFINE g == send_display_string(d, <<>>, error, TRUE)
    <3>1. f = g  BY <2>1 DEF print_flush
    <3>2. g = [g EXCEPT !.index = 0]
      BY <1>1 DEF send_display_string, Clear, BufferState
    <3> QED  BY <1>2, <3>1, <3>2
  <2>2. CASE FromSling  BY <1>2, <2>2 DEF print_flush, Clear
  <2> QED  BY <2>1, <2>2
<1> DEFINE g == send_display_string(d, text, error, TRUE)
<1>5. OneSent(g, d, text, error, TRUE)
  <2>1. CString(text) \in Bytes /\ TRUE \in BOOLEAN  BY CStringType
  <2> QED  BY <1>1, <2>1, SendOK
<1> HIDE DEF g
<1>6. f \in BufferState /\ f.sent = g.sent /\ f.buf = d.buf /\ f.index = 0 /\ ~ f.fragmented
  <2>1. f = [g EXCEPT !.index = 0]  BY <1>4 DEF g
  <2>2. 0 \in 0 .. BufSize - 1  BY BufSizeAssumption
  <2> QED  BY <1>5, <2>1, <2>2 DEF BufferState, OneSent, Clear
<1>7. Clear(f)  BY <1>6 DEF Clear
<1>8. Complete(f, error)
  <2>1. EndsAfter(f, d, error)  BY <1>5, <1>6 DEF OneSent, EndsAfter
  <2>2. Len(f.sent) = Len(d.sent) + 1  BY <1>5, <1>6 DEF OneSent
  <2> QED  BY <1>1, <1>3, <1>6, <2>1, <2>2, LastMessage
<1> QED  BY <1>7, <1>8

-----------------------------------------------------------------------------
(***************************************************************************)
(* The specification                                                       *)
(***************************************************************************)

\* An open line is in the messages and the buffer; an ended one is in the messages
\* alone.
Inv ==
  /\ line \in Line
  /\ line.state = "open" => Holding(display, line.text, line.error) /\ Terminated(display)
  /\ line.state # "open" => Clear(display)
  /\ line.state = "none" => display.sent = <<>>
  /\ line.state \in {"ended", "blank"} => Complete(display, line.error)
  /\ line.state = "ended" => Reported(SentOf(display), line.text)

\* The printer starts with nothing to send.
LEMMA EmptyOK == Clear(EmptyBuffer) /\ EmptyBuffer.sent = <<>> /\ NoLine \in Line
<1>1. EmptyBuffer \in BufferState
  <2>1. [i \in 1 .. BufSize |-> 0] \in Buffer  BY DEF Buffer, Byte
  <2>2. 0 \in 0 .. BufSize - 1 /\ <<>> \in Seq(Message)  BY BufSizeAssumption
  <2> QED  BY <2>1, <2>2 DEF EmptyBuffer, BufferState
<1>2. \E i \in 1 .. BufSize : EmptyBuffer.buf[i] = 0
  <2>1. 1 \in 1 .. BufSize  BY BufSizeAssumption
  <2> QED  BY <2>1 DEF EmptyBuffer
<1>3. NoLine \in Line  BY EmptySeq DEF NoLine, Line, Bytes
<1> QED  BY <1>1, <1>2, <1>3 DEF Clear, EmptyBuffer

\* And so it does after a line that has ended.
LEMMA TakenOK ==
  ASSUME Inv, line.state # "open"
  PROVE  Clear(Taken) /\ Taken.sent = <<>>
<1>1. Clear(display) /\ Taken = [display EXCEPT !.sent = <<>>]  BY DEF Inv, Taken
<1>2. display \in BufferState /\ <<>> \in Seq(Message)  BY <1>1 DEF Clear
<1>3. /\ Taken \in BufferState /\ Taken.sent = <<>> /\ Taken.buf = display.buf
      /\ Taken.index = display.index /\ Taken.fragmented = display.fragmented
  BY <1>1, <1>2 DEF BufferState
<1> QED  BY <1>1, <1>3 DEF Clear

\* Then it holds the empty text.
LEMMA NewLine ==
  ASSUME NEW d, Clear(d), d.sent = <<>>, NEW error \in BOOLEAN
  PROVE  Holding(d, <<>>, error)
<1>1. Solid(d.buf, d.index)  BY DEF Clear, Solid
<1>2. Collected(d) = <<>>  BY <1>1, CollectedType DEF Clear
<1>3. SentOf(d) = <<>>  BY DEF SentOf, TextsOf, FlattenSeq
<1>4. SentOf(d) \o Collected(d) = <<>>  BY <1>2, <1>3
<1>5. Unended(d, error)  BY DEF Unended
<1> QED  BY <1>1, <1>4, <1>5 DEF Holding, Clear

\* A piece leaves the line open.
LEMMA PrintPieceStep ==
  ASSUME Inv, NEW text \in Piece, NEW error \in BOOLEAN, PrintPiece(text, error)
  PROVE  Inv'
<1> DEFINE before == IF line.state = "open" THEN line.text ELSE <<>>
<1>1. text \in Bytes  BY CStringPiece
<1>2. before \in Bytes  BY EmptySeq DEF Inv, Line, Bytes
<1>3. Holding(Taken, before, error)
  <2>1. CASE line.state = "open"  BY <2>1 DEF Inv, Taken, PrintPiece
  <2>2. CASE line.state # "open"  BY <2>2, TakenOK, NewLine
  <2> QED  BY <2>1, <2>2
<1>4. line' = [text |-> before \o text, error |-> error, state |-> "open"]
  <2>1. <<>> \o text = text  BY <1>1, ConcatEmptySeq DEF Bytes
  <2> QED  BY <2>1 DEF PrintPiece
<1>5. before \o text \in Bytes  BY <1>1, <1>2, ConcatProperties DEF Bytes
<1> HIDE DEF before
<1>6. Holding(display', before \o text, error) /\ Terminated(display')
  <2>1. display' = print_string(Taken, text, error)  BY DEF PrintPiece
  <2> QED  BY <1>3, <2>1, PieceOK
<1> QED  BY <1>4, <1>5, <1>6 DEF Inv, Line

\* A flush ends it.
LEMMA EndLineStep ==
  ASSUME Inv, NEW error \in BOOLEAN, EndLine(error)
  PROVE  Inv'
<1>1. display' = print_flush(Taken, error)  BY DEF EndLine
<1>2. CASE line.state = "open"
  <2>1. Holding(display, line.text, error) /\ Terminated(display) /\ line.error = error /\ Taken = display
    BY <1>2 DEF Inv, EndLine, Taken
  <2>2. line' = [line EXCEPT !.state = "ended"]  BY <1>2 DEF EndLine
  <2>3. Clear(display') /\ Complete(display', error) /\ Reported(SentOf(display'), line.text)
    BY <1>1, <2>1, FlushOK
  <2>4. line' \in Line /\ line'.state = "ended" /\ line'.error = error /\ line'.text = line.text
    BY <2>1, <2>2 DEF Inv, Line
  <2> QED  BY <2>3, <2>4 DEF Inv
<1>3. CASE line.state # "open"
  <2>1. line' = [text |-> <<>>, error |-> error, state |-> "blank"]  BY <1>3 DEF EndLine
  <2>2. Clear(display') /\ Complete(display', error)  BY <1>1, <1>3, TakenOK, BlankOK
  <2>3. line' \in Line  BY <2>1, EmptySeq DEF Line, Bytes
  <2> QED  BY <2>1, <2>2, <2>3 DEF Inv
<1> QED  BY <1>2, <1>3

\* The state of the printer is one it starts with, or one after a piece or a flush.
\* display_buf and the text of the line agree in each of them (runner.c:147-239).
THEOREM RunnerInvariant == RunnerSpec => []Inv
<1>1. RunnerInit => Inv  BY EmptyOK DEF RunnerInit, Inv, NoLine
<1>2. Inv /\ [RunnerNext]_<<display, line>> => Inv'
  <2> SUFFICES ASSUME Inv, [RunnerNext]_<<display, line>>  PROVE Inv'
    OBVIOUS
  <2>1. ASSUME NEW text \in Piece, NEW error \in BOOLEAN, PrintPiece(text, error)  PROVE Inv'
    BY <2>1, PrintPieceStep
  <2>2. ASSUME NEW error \in BOOLEAN, EndLine(error)  PROVE Inv'
    BY <2>2, EndLineStep
  <2>3. CASE Restart  BY <2>3, EmptyOK DEF Restart, Inv, NoLine
  <2>4. CASE UNCHANGED <<display, line>>  BY <2>4 DEF Inv
  <2> QED  BY <2>1, <2>2, <2>3, <2>4 DEF RunnerNext
<1> QED  BY <1>1, <1>2, PTL DEF RunnerSpec

\* The buffer is not written beyond its end, and what is sent of it ends within it,
\* whatever its size and whatever is printed (runner.c:148-170).
THEOREM BufferNeverOverrun == RunnerSpec => []WithinBuffer
<1>1. Inv => WithinBuffer
  <2> SUFFICES ASSUME Inv  PROVE WithinBuffer
    OBVIOUS
  <2>1. display \in BufferState /\ \E i \in 1 .. BufSize : display.buf[i] = 0
    BY DEF Inv, Holding, Clear
  <2>2. display.index < BufSize  BY <2>1, BufSizeAssumption DEF BufferState
  <2> QED  BY <2>1, <2>2 DEF WithinBuffer
<1> QED  BY <1>1, RunnerInvariant, PTL

\* A line arrives in order and with its type, one message ends it, and it is whole
\* if it fits the buffer; else it lacks less than a buffer at its end
\* (runner.c:147-239).
THEOREM PrintedIsDelivered == RunnerSpec => []Delivered
<1>1. Inv => Delivered
  <2> SUFFICES ASSUME Inv  PROVE Delivered
    OBVIOUS
  <2>1. Sent = SentOf(display)  BY DEF Sent, SentOf, TextsOf
  <2>2. CASE line.state = "open"
    <3>1. Holding(display, line.text, line.error)  BY <2>2 DEF Inv
    <3>2. SentOf(display) \in Bytes /\ Collected(display) \in Bytes
      BY <3>1, CollectedType DEF Holding
    <3>3. IsPrefix(SentOf(display), line.text)  BY <3>1, <3>2, Continued DEF Holding
    <3>4. Unended(display, line.error)  BY <3>1 DEF Holding
    <3> QED  BY <2>1, <2>2, <3>3, <3>4 DEF Delivered, Ended, Unended
  <2>3. CASE line.state = "none"  BY <2>3 DEF Inv, Delivered, Ended
  <2>4. CASE line.state \in {"ended", "blank"}
    <3>1. Complete(display, line.error)  BY <2>4 DEF Inv
    <3>2. line.state = "ended" => Reported(SentOf(display), line.text)  BY DEF Inv
    <3> QED  BY <2>1, <2>4, <3>1, <3>2 DEF Delivered, Ended, Complete, Reported
  <2>5. line.state \in {"none", "open", "ended", "blank"}  BY DEF Inv, Line
  <2> QED  BY <2>2, <2>3, <2>4, <2>5
<1> QED  BY <1>1, RunnerInvariant, PTL
=============================================================================
