-------------------------- MODULE Selection_proofs --------------------------
(***************************************************************************)
(* What Selected does with the sequences that queues are made of.  The     *)
(* proofs are by induction on a set of natural numbers, for which the      *)
(* library's theorem about well-founded relations is enough.               *)
(***************************************************************************)
EXTENDS Selection, WellFoundedInduction, SequenceTheorems, TLAPS

\* A set of natural numbers that is not empty has a least element.
LEMMA LeastNat ==
  ASSUME NEW T, T \subseteq Nat, T # {}
  PROVE  \E n \in T : \A m \in T : n <= m
<1>1. PICK n \in T : \A m \in T : ~ (<<m, n>> \in OpToRel(<, Nat))
  BY NatLessThanWellFounded, WFMin, Zenon
<1>2. \A m \in T : ~(m < n)
  BY <1>1 DEF OpToRel
<1>3. n \in Nat /\ \A m \in T : m \in Nat
  OBVIOUS
<1>4. \A m \in T : n <= m
  BY <1>2, <1>3
<1> QED  BY <1>4

\* A set that has 0 and with every number its successor has all natural numbers.
LEMMA SetInduction ==
  ASSUME NEW T, 0 \in T, \A n \in Nat : n \in T => n + 1 \in T
  PROVE  \A n \in Nat : n \in T
<1> SUFFICES ASSUME Nat \ T # {} PROVE FALSE
  OBVIOUS
<1>1. PICK n \in Nat \ T : \A m \in Nat \ T : n <= m
  BY LeastNat
<1>2. n # 0 /\ n - 1 \in Nat /\ n - 1 \in T
  BY <1>1
<1> QED  BY <1>1, <1>2

\* A sequence that is not empty has a last element.
LEMMA LastOff ==
  ASSUME NEW A, NEW s \in Seq(A), NEW n \in Nat, Len(s) = n + 1
  PROVE  \E q \in Seq(A), e \in A : s = q \o <<e>> /\ Len(q) = n
<1>1. s # <<>>
  OBVIOUS
<1>2. PICK q \in Seq(A), e \in A : s = Append(q, e)
  BY <1>1, SequenceEmptyOrAppend
<1>3. Append(q, e) = q \o <<e>> /\ Len(Append(q, e)) = Len(q) + 1 /\ Len(q) \in Nat
  OBVIOUS
<1>4. s = q \o <<e>>
  BY <1>2, <1>3, Zenon
<1>5. Len(s) = Len(q) + 1
  BY <1>2, <1>3, Zenon
<1>6. Len(q) = n
  BY <1>3, <1>5
<1> QED  BY <1>4, <1>6, Zenon

\* Concatenation is associative.
LEMMA Regroup ==
  ASSUME NEW A, NEW a \in Seq(A), NEW b \in Seq(A), NEW c \in Seq(A)
  PROVE  (a \o b) \o c = a \o (b \o c)
  BY ConcatAssociative

-----------------------------------------------------------------------------
(* The recursive function is well defined.                                 *)

\* f selects from each prefix of s of at most n elements.
Selects(f, s, S, n) ==
  f = [i \in 0 .. n |->
         IF i = 0 THEN <<>> ELSE f[i - 1] \o (IF s[i] \in S THEN <<s[i]>> ELSE <<>>)]

\* There is such a function for every n.
LEMMA SelectsExists ==
  ASSUME NEW s, NEW S
  PROVE  \A n \in Nat : \E f : Selects(f, s, S, n)
<1> DEFINE T == {n \in Nat : \E f : Selects(f, s, S, n)}
<1>1. 0 \in T
  <2> DEFINE f == [i \in 0 .. 0 |-> <<>>]
  <2>1. Selects(f, s, S, 0)
    BY DEF Selects
  <2> QED  BY <2>1
<1>2. ASSUME NEW n \in Nat, n \in T PROVE n + 1 \in T
  <2>1. PICK f : Selects(f, s, S, n)
    BY <1>2
  <2> DEFINE next == f[n] \o (IF s[n + 1] \in S THEN <<s[n + 1]>> ELSE <<>>)
             g == [i \in 0 .. (n + 1) |-> IF i = n + 1 THEN next ELSE f[i]]
  <2> HIDE DEF next
  <2>2. \A i \in 0 .. n :
          g[i] = f[i]
    BY <1>2
  <2>3. g[n + 1] = next /\ g[0] = <<>>
    BY <1>2, <2>1 DEF Selects
  <2>4. ASSUME NEW i \in 0 .. (n + 1), i # 0
        PROVE  g[i] = g[i - 1] \o (IF s[i] \in S THEN <<s[i]>> ELSE <<>>)
    <3>1. CASE i = n + 1
      <4>1. i - 1 = n /\ g[n] = f[n]
        BY <1>2, <3>1, <2>2
      <4> HIDE DEF g
      <4> QED  BY <3>1, <4>1, <2>3 DEF next
    <3>2. CASE i # n + 1
      <4>1. i \in 0 .. n /\ i - 1 \in 0 .. n
        BY <1>2, <2>4, <3>2
      <4>2. f[i] = f[i - 1] \o (IF s[i] \in S THEN <<s[i]>> ELSE <<>>)
        BY <2>1, <2>4, <4>1 DEF Selects
      <4> HIDE DEF g
      <4> QED  BY <4>1, <4>2, <2>2
    <3> QED  BY <3>1, <3>2
  <2>5. Selects(g, s, S, n + 1)
    <3>1. DOMAIN g = 0 .. (n + 1) /\ g = [i \in 0 .. (n + 1) |-> g[i]]
      OBVIOUS
    <3> HIDE DEF g
    <3> QED  BY <2>3, <2>4, <3>1 DEF Selects
  <2> QED  BY <1>2, <2>5
<1> HIDE DEF T
<1>3. \A n \in Nat : n \in T
  BY <1>1, <1>2, SetInduction
<1> QED  BY <1>3 DEF T

\* SelectedOf is one for the whole of s.
LEMMA SelectedOfSelects ==
  ASSUME NEW A, NEW s \in Seq(A), NEW S
  PROVE  Selects(SelectedOf(s, S), s, S, Len(s))
<1>1. Len(s) \in Nat
  OBVIOUS
<1>2. \E f : Selects(f, s, S, Len(s))
  BY <1>1, SelectsExists
<1> QED  BY <1>2, Zenon DEF SelectedOf, Selects

\* Two sequences that begin alike have the same selected from that part.
LEMMA SelectsAgree ==
  ASSUME NEW s, NEW t, NEW S, NEW f, NEW g, NEW n \in Nat, NEW m \in Nat, NEW k \in Nat,
         Selects(f, s, S, n), Selects(g, t, S, m), k <= n, k <= m,
         \A i \in 1 .. k : s[i] = t[i]
  PROVE  f[k] = g[k]
<1> DEFINE T == {j \in Nat : j <= k => f[j] = g[j]}
<1>1. 0 \in T
  BY DEF Selects
<1>2. ASSUME NEW j \in Nat, j \in T PROVE j + 1 \in T
  <2> SUFFICES ASSUME j + 1 <= k PROVE f[j + 1] = g[j + 1]
    BY <1>2
  <2>1. /\ f[j] = g[j] /\ s[j + 1] = t[j + 1]
        /\ j + 1 \in 0 .. n /\ j + 1 \in 0 .. m /\ j + 1 # 0 /\ (j + 1) - 1 = j
    BY <1>2
  <2>2. f[j + 1] = f[(j + 1) - 1] \o (IF s[j + 1] \in S THEN <<s[j + 1]>> ELSE <<>>)
    BY <2>1, Zenon DEF Selects
  <2>3. g[j + 1] = g[(j + 1) - 1] \o (IF t[j + 1] \in S THEN <<t[j + 1]>> ELSE <<>>)
    BY <2>1, Zenon DEF Selects
  <2>4. f[(j + 1) - 1] = g[(j + 1) - 1]
    BY <2>1, Zenon
  <2>5. (IF s[j + 1] \in S THEN <<s[j + 1]>> ELSE <<>>)
          = (IF t[j + 1] \in S THEN <<t[j + 1]>> ELSE <<>>)
    BY <2>1
  <2> DEFINE ws == IF s[j + 1] \in S THEN <<s[j + 1]>> ELSE <<>>
             wt == IF t[j + 1] \in S THEN <<t[j + 1]>> ELSE <<>>
  <2>6. f[j + 1] = f[(j + 1) - 1] \o ws /\ g[j + 1] = g[(j + 1) - 1] \o wt /\ ws = wt
    BY <2>2, <2>3, <2>5
  <2> HIDE DEF ws, wt
  <2> QED  BY <2>4, <2>6, Zenon
<1> HIDE DEF T
<1>3. \A j \in Nat : j \in T
  BY <1>1, <1>2, SetInduction
<1> QED  BY <1>3 DEF T

-----------------------------------------------------------------------------
(* Selected, one element at a time.                                        *)

Whether(e, S) == IF e \in S THEN <<e>> ELSE <<>>

\* Nothing is selected of nothing.
LEMMA SelectedEmpty == ASSUME NEW S PROVE Selected(<<>>, S) = <<>>
<1>1. <<>> \in Seq({}) /\ Len(<<>>) = 0
  OBVIOUS
<1>2. Selects(SelectedOf(<<>>, S), <<>>, S, 0)
  BY <1>1, SelectedOfSelects
<1> QED  BY <1>1, <1>2 DEF Selects, Selected

\* An element at the end comes last, if it is selected.
LEMMA SelectedLast ==
  ASSUME NEW A, NEW s \in Seq(A), NEW e \in A, NEW S
  PROVE  Selected(s \o <<e>>, S) = Selected(s, S) \o Whether(e, S)
<1> DEFINE t == s \o <<e>>
<1>1. /\ t \in Seq(A) /\ Len(s) \in Nat /\ Len(t) = Len(s) + 1
      /\ \A i \in 1 .. Len(s) : s[i] = t[i]
      /\ t[Len(s) + 1] = e
  OBVIOUS
<1> HIDE DEF t
<1> DEFINE f == SelectedOf(s, S)
           g == SelectedOf(t, S)
<1>2. Selects(f, s, S, Len(s)) /\ Selects(g, t, S, Len(s) + 1)
  BY <1>1, SelectedOfSelects
<1>3. Selected(s, S) = f[Len(s)] /\ Selected(t, S) = g[Len(s) + 1]
  BY <1>1 DEF Selected
<1> HIDE DEF f, g
<1>4. f[Len(s)] = g[Len(s)]
  <2>1. Len(s) + 1 \in Nat /\ Len(s) <= Len(s) /\ Len(s) <= Len(s) + 1
    BY <1>1
  <2> DEFINE n == Len(s)  m == Len(s) + 1
  <2>2. /\ n \in Nat /\ m \in Nat /\ n <= n /\ n <= m /\ \A i \in 1 .. n : s[i] = t[i]
        /\ Selects(f, s, S, n) /\ Selects(g, t, S, m)
    BY <1>1, <1>2, <2>1
  <2> HIDE DEF n, m
  <2>3. f[n] = g[n]
    BY <2>2, SelectsAgree
  <2> QED  BY <2>3 DEF n
<1>5. g[Len(s) + 1] = g[Len(s)] \o Whether(e, S)
  <2>1. Len(s) + 1 \in 0 .. (Len(s) + 1) /\ Len(s) + 1 # 0 /\ (Len(s) + 1) - 1 = Len(s)
    BY <1>1
  <2>2. g[Len(s) + 1] = g[(Len(s) + 1) - 1]
                          \o (IF t[Len(s) + 1] \in S THEN <<t[Len(s) + 1]>> ELSE <<>>)
    BY <1>2, <2>1, Zenon DEF Selects
  <2> QED  BY <1>1, <2>1, <2>2 DEF Whether
<1> QED  BY <1>3, <1>4, <1>5 DEF t

\* A sequence of one element.
LEMMA SelectedOne ==
  ASSUME NEW A, NEW e \in A, NEW S
  PROVE  Selected(<<e>>, S) = Whether(e, S) /\ Whether(e, S) \in Seq(A)
<1>1. <<>> \in Seq(A) /\ <<e>> \in Seq(A) /\ <<>> \o <<e>> = <<e>>
  OBVIOUS
<1>2. Whether(e, S) \in Seq(A)
  BY <1>1 DEF Whether
<1>3. <<>> \o Whether(e, S) = Whether(e, S)
  BY <1>2, ConcatEmptySeq
<1>4. Selected(<<>> \o <<e>>, S) = Selected(<<>>, S) \o Whether(e, S)
  BY <1>1, SelectedLast
<1> QED  BY <1>1, <1>2, <1>3, <1>4, SelectedEmpty

\* What is selected of a sequence is a sequence.
LEMMA SelectedType ==
  ASSUME NEW A, NEW S
  PROVE  \A s \in Seq(A) : Selected(s, S) \in Seq(A)
<1> DEFINE T == {n \in Nat : \A s \in Seq(A) : Len(s) = n => Selected(s, S) \in Seq(A)}
<1>1. 0 \in T
  <2> SUFFICES ASSUME NEW s \in Seq(A), Len(s) = 0 PROVE Selected(s, S) \in Seq(A)
    OBVIOUS
  <2>1. s = <<>> /\ <<>> \in Seq(A)
    BY EmptySeq
  <2> QED  BY <2>1, SelectedEmpty
<1>2. ASSUME NEW n \in Nat, n \in T PROVE n + 1 \in T
  <2> SUFFICES ASSUME NEW s \in Seq(A), Len(s) = n + 1 PROVE Selected(s, S) \in Seq(A)
    OBVIOUS
  <2>1. PICK q \in Seq(A), e \in A : s = q \o <<e>> /\ Len(q) = n
    BY LastOff
  <2>2. Selected(q, S) \in Seq(A) /\ Whether(e, S) \in Seq(A)
    BY <1>2, <2>1, SelectedOne
  <2>3. Selected(s, S) = Selected(q, S) \o Whether(e, S)
    BY <2>1, SelectedLast
  <2>4. Selected(q, S) \o Whether(e, S) \in Seq(A)
    BY <2>2, ConcatProperties
  <2> QED  BY <2>3, <2>4, Zenon
<1> HIDE DEF T
<1>3. \A n \in Nat : n \in T
  BY <1>1, <1>2, SetInduction
<1> QED  BY <1>3 DEF T

\* What is selected of two parts is selected of each of them.
THEOREM SelectedConcat ==
  ASSUME NEW A, NEW S, NEW s \in Seq(A)
  PROVE  \A t \in Seq(A) : Selected(s \o t, S) = Selected(s, S) \o Selected(t, S)
<1> DEFINE T == {n \in Nat : \A t \in Seq(A) : Len(t) = n =>
                   Selected(s \o t, S) = Selected(s, S) \o Selected(t, S)}
<1>0. Selected(s, S) \in Seq(A)
  BY SelectedType
<1>1. 0 \in T
  <2> SUFFICES ASSUME NEW t \in Seq(A), Len(t) = 0
               PROVE  Selected(s \o t, S) = Selected(s, S) \o Selected(t, S)
    OBVIOUS
  <2>1. t = <<>> /\ s \o <<>> = s
    BY EmptySeq, ConcatEmptySeq
  <2> QED  BY <1>0, <2>1, SelectedEmpty, ConcatEmptySeq
<1>2. ASSUME NEW n \in Nat, n \in T PROVE n + 1 \in T
  <2> SUFFICES ASSUME NEW t, t \in Seq(A), Len(t) = n + 1
               PROVE  Selected(s \o t, S) = Selected(s, S) \o Selected(t, S)
    OBVIOUS
  <2>1. PICK q, e : q \in Seq(A) /\ e \in A /\ t = q \o <<e>> /\ Len(q) = n
    <3>1. \E q \in Seq(A), e \in A : t = q \o <<e>> /\ Len(q) = n
      BY LastOff
    <3> QED  BY <3>1, Zenon
  <2>2. s \in Seq(A) /\ q \in Seq(A) /\ <<e>> \in Seq(A) /\ s \o q \in Seq(A)
    BY <2>1
  <2>3. Selected(q, S) \in Seq(A) /\ Whether(e, S) \in Seq(A)
    <3>1. Selected(q, S) \in Seq(A)
      BY <2>1, SelectedType
    <3>2. Whether(e, S) \in Seq(A)
      BY <2>1, SelectedOne
    <3> QED  BY <3>1, <3>2
  <2>4. s \o t = (s \o q) \o <<e>>
    <3>1. (s \o q) \o <<e>> = s \o (q \o <<e>>)
      BY ONLY <2>2, Regroup
    <3> QED  BY <2>1, <3>1, Zenon
  <2>5. Selected(s \o t, S) = Selected(s \o q, S) \o Whether(e, S)
    <3>1. Selected((s \o q) \o <<e>>, S) = Selected(s \o q, S) \o Whether(e, S)
      BY <2>1, <2>2, SelectedLast, Zenon
    <3> QED  BY <2>4, <3>1, Zenon
  <2>6. Selected(s \o q, S) = Selected(s, S) \o Selected(q, S)
    BY <1>2, <2>1
  <2>7. Selected(t, S) = Selected(q, S) \o Whether(e, S)
    <3>1. Selected(q \o <<e>>, S) = Selected(q, S) \o Whether(e, S)
      BY <2>1, SelectedLast, Zenon
    <3> QED  BY <2>1, <3>1, Zenon
  <2>8. (Selected(s, S) \o Selected(q, S)) \o Whether(e, S)
          = Selected(s, S) \o (Selected(q, S) \o Whether(e, S))
    <3>1. PICK a \in Seq(A), b \in Seq(A), c \in Seq(A) :
            a = Selected(s, S) /\ b = Selected(q, S) /\ c = Whether(e, S)
      BY <1>0, <2>3
    <3>2. (a \o b) \o c = a \o (b \o c)
      <4>1. a \in Seq(A) /\ b \in Seq(A) /\ c \in Seq(A)
        OBVIOUS
      <4> QED  BY ONLY <4>1, Regroup
    <3> QED  BY <3>1, <3>2, Zenon
  <2> QED  BY <2>5, <2>6, <2>7, <2>8, Zenon
<1> HIDE DEF T
<1>3. \A n \in Nat : n \in T
  BY <1>1, <1>2, SetInduction
<1> QED  BY <1>3 DEF T
=============================================================================
