--------------------------- MODULE SequenceLemmas ---------------------------
(***************************************************************************)
(* Induction for the proofs about the model, and what FlattenSeq of the    *)
(* community modules does to every sequence.                               *)
(*                                                                         *)
(* The induction rule is stated for a set rather than for a predicate: a   *)
(* set can be an argument of a lemma.  It rests on the least element of a  *)
(* set of numbers, from WellFoundedInduction.                              *)
(***************************************************************************)
EXTENDS Integers, SequencesExt, SequenceTheorems, WellFoundedInduction, TLAPS

\* A set of numbers that holds 0, and with a number its successor, holds all.
LEMMA NatInduct ==
  ASSUME NEW S, 0 \in S, \A n \in Nat : n \in S => n + 1 \in S
  PROVE  \A n \in Nat : n \in S
<1>1. PICK T : T = Nat \ S
  OBVIOUS
<1>2. SUFFICES ASSUME T # {} PROVE FALSE
  BY <1>1
<1>3. PICK R : R = OpToRel(<, Nat)
  OBVIOUS
<1>4. IsWellFoundedOn(R, Nat)
  BY <1>3, NatLessThanWellFounded
<1>5. PICK x \in T : \A y \in T : ~(<<y, x>> \in R)
  BY <1>1, <1>2, <1>4, WFMin
<1>6. \A m, n \in Nat : m < n => <<m, n>> \in R
  BY <1>3 DEF OpToRel
<1>7. x \in Nat /\ x # 0
  BY <1>1
<1>8. x - 1 \in Nat /\ x - 1 < x /\ (x - 1) + 1 = x
  BY <1>7
<1>9. x - 1 \in T
  BY <1>1, <1>8
<1> QED BY <1>5, <1>6, <1>7, <1>8, <1>9

\* A set of sequences that holds the empty one, and with a sequence all that
\* are one element longer, holds every sequence.
LEMMA SeqInduct ==
  ASSUME NEW S, NEW G, <<>> \in G,
         \A s \in Seq(S), e \in S : s \in G => Append(s, e) \in G
  PROVE  \A s \in Seq(S) : s \in G
<1>1. PICK N : N = {n \in Nat : \A s \in Seq(S) : Len(s) = n => s \in G}
  OBVIOUS
<1>2. 0 \in N
  BY <1>1
<1>3. ASSUME NEW n \in Nat, n \in N PROVE n + 1 \in N
  <2>1. SUFFICES ASSUME NEW s \in Seq(S), Len(s) = n + 1 PROVE s \in G
    BY <1>1
  <2>2. PICK t : t = SubSeq(s, 1, n)
    OBVIOUS
  <2>3. t \in Seq(S) /\ Len(t) = n /\ s[n + 1] \in S /\ s = Append(t, s[n + 1])
    BY <2>1, <2>2
  <2>4. t \in G
    BY <1>1, <1>3, <2>3
  <2> QED BY <2>3, <2>4
<1>4. \A n \in Nat : n \in N
  BY <1>2, <1>3, NatInduct
<1> QED BY <1>1, <1>4

-----------------------------------------------------------------------------
(* FlattenSeq: the recursive function of its definition, and what it gives  *)
(* for no sequence and for one more.                                        *)

\* h is the function by which FlattenSeq is defined, up to the n-th sequence.
Flattens(f, n, h) == h = [i \in 1..n |-> IF i = 1 THEN f[i] ELSE h[i - 1] \o f[i]]

\* Its values.
LEMMA FlattensValues ==
  ASSUME NEW f, NEW n, NEW h, Flattens(f, n, h)
  PROVE  \A i \in 1..n : h[i] = IF i = 1 THEN f[i] ELSE h[i - 1] \o f[i]
BY DEF Flattens

\* There is such a function.
LEMMA FlattensExists ==
  ASSUME NEW f
  PROVE  \A n \in Nat : \E h : Flattens(f, n, h)
<1>1. PICK N : N = {n \in Nat : \E h : Flattens(f, n, h)}
  OBVIOUS
<1>2. 0 \in N
  <2>1. Flattens(f, 0, [i \in 1..0 |-> f[i]])
    BY DEF Flattens
  <2> QED BY <1>1, <2>1
<1>3. ASSUME NEW n \in Nat, n \in N PROVE n + 1 \in N
  <2>1. PICK h : Flattens(f, n, h)
    BY <1>1, <1>3
  <2>2. PICK g : g = [i \in 1..(n + 1) |-> IF i = 1 THEN f[i] ELSE h[i - 1] \o f[i]]
    OBVIOUS
  <2>3. \A i \in 1..n : g[i] = h[i]
    <3>1. \A i \in 1..n : h[i] = IF i = 1 THEN f[i] ELSE h[i - 1] \o f[i]
      BY <2>1, FlattensValues
    <3> QED BY <2>2, <3>1
  <2>4. \A i \in 1..(n + 1) : i # 1 => i - 1 \in 1..n /\ g[i - 1] = h[i - 1]
    BY <2>3
  <2>5. g = [i \in 1..(n + 1) |-> IF i = 1 THEN f[i] ELSE g[i - 1] \o f[i]]
    BY <2>2, <2>4
  <2>6. Flattens(f, n + 1, g)
    BY <2>5 DEF Flattens
  <2> QED BY <1>1, <2>6
<1>4. \A n \in Nat : n \in N
  BY <1>2, <1>3, NatInduct
<1> QED BY <1>1, <1>4

\* What FlattenSeq of a sequence is, in terms of that function.
LEMMA FlattenByFunction ==
  ASSUME NEW f, Len(f) \in Nat \ {0}
  PROVE  \E h : Flattens(f, Len(f), h) /\ FlattenSeq(f) = h[Len(f)]
<1>1. \E h : Flattens(f, Len(f), h)
  BY FlattensExists
<1> QED BY <1>1 DEF FlattenSeq, Flattens

\* Nothing comes of no sequence.
LEMMA FlattenEmpty == FlattenSeq(<<>>) = <<>>
BY DEF FlattenSeq

\* One more sequence is put behind the others.
LEMMA FlattenAppend ==
  ASSUME NEW S, NEW f \in Seq(Seq(S)), NEW e \in Seq(S)
  PROVE  FlattenSeq(Append(f, e)) = FlattenSeq(f) \o e
<1>1. PICK g : g = Append(f, e)
  OBVIOUS
<1>2. PICK n \in Nat : n = Len(f)
  OBVIOUS
<1>3. /\ g \in Seq(Seq(S)) /\ Len(g) = n + 1 /\ g[n + 1] = e
      /\ \A i \in 1..n : f[i] = g[i]
  BY <1>1, <1>2
<1>4. PICK k : Flattens(g, n + 1, k) /\ FlattenSeq(g) = k[n + 1]
  BY <1>3, FlattenByFunction
<1>5. CASE n = 0
  <2>1. f = <<>>
    BY <1>2, <1>5, EmptySeq
  <2>2. k[1] = g[1]
    BY <1>4, <1>5, FlattensValues
  <2>3. FlattenSeq(g) = e
    BY <1>3, <1>4, <1>5, <2>2
  <2>4. <<>> \o e = e
    OBVIOUS
  <2> QED BY <1>1, <2>1, <2>3, <2>4, FlattenEmpty
<1>6. CASE n # 0
  <2>1. PICK h : Flattens(f, n, h) /\ FlattenSeq(f) = h[n]
    BY <1>2, <1>6, FlattenByFunction
  <2>2. n <= n + 1 /\ n + 1 \in Nat /\ n \in 1..n
    BY <1>6
  <2>3. \A i \in 1..n : h[i] = k[i]
    <3>1. PICK N : N = {i \in Nat : i \in 1..n => h[i] = k[i]}
      OBVIOUS
    <3>2. ASSUME NEW i \in Nat, i \in N, i + 1 \in 1..n PROVE h[i + 1] = k[i + 1]
      <4>1. PICK j : j = i + 1
        OBVIOUS
      <4>2. j \in 1..n /\ j \in 1..(n + 1) /\ j - 1 = i /\ (j # 1 => i \in 1..n)
        BY <3>2, <4>1
      <4>3. h[j] = IF j = 1 THEN f[j] ELSE h[j - 1] \o f[j]
        BY <2>1, <4>2 DEF Flattens
      <4>4. k[j] = IF j = 1 THEN g[j] ELSE k[j - 1] \o g[j]
        BY <1>4, <4>2 DEF Flattens
      <4>5. j # 1 => h[i] = k[i]
        BY <3>1, <3>2, <4>2
      <4>6. f[j] = g[j]
        BY <1>3, <4>2
      <4> QED BY <4>1, <4>2, <4>3, <4>4, <4>5, <4>6
    <3>3. 0 \in N /\ \A i \in Nat : i \in N => i + 1 \in N
      BY <3>1, <3>2
    <3>4. \A i \in Nat : i \in N
      BY <3>3, NatInduct
    <3> QED BY <3>1, <3>4
  <2>4. k[n + 1] = k[n] \o g[n + 1]
    <3>1. PICK j : j = n + 1
      OBVIOUS
    <3>2. j \in 1..(n + 1) /\ j # 1 /\ j - 1 = n
      BY <1>6, <3>1
    <3>3. k = [x \in 1..(n + 1) |-> IF x = 1 THEN g[x] ELSE k[x - 1] \o g[x]]
      BY <1>4 DEF Flattens
    <3>4. k[j] = k[j - 1] \o g[j]
      BY <3>2, <3>3
    <3> QED BY <3>1, <3>2, <3>4
  <2> QED BY <1>1, <1>3, <1>4, <2>1, <2>2, <2>3, <2>4
<1> QED BY <1>5, <1>6

\* It is a sequence of what those sequences hold.
LEMMA FlattenTyped ==
  ASSUME NEW S
  PROVE  \A f \in Seq(Seq(S)) : FlattenSeq(f) \in Seq(S)
<1>1. PICK G : G = {f \in Seq(Seq(S)) : FlattenSeq(f) \in Seq(S)}
  OBVIOUS
<1>2. <<>> \in G
  <2>1. <<>> \in Seq(Seq(S)) /\ <<>> \in Seq(S)
    OBVIOUS
  <2> QED BY <1>1, <2>1, FlattenEmpty
<1>3. ASSUME NEW f \in Seq(Seq(S)), NEW e \in Seq(S), f \in G PROVE Append(f, e) \in G
  <2>1. Append(f, e) \in Seq(Seq(S))
    OBVIOUS
  <2>2. FlattenSeq(f) \in Seq(S)
    BY <1>1, <1>3
  <2>3. FlattenSeq(f) \o e \in Seq(S)
    BY <2>2
  <2>4. FlattenSeq(Append(f, e)) = FlattenSeq(f) \o e
    BY FlattenAppend
  <2> QED BY <1>1, <2>1, <2>3, <2>4
<1>4. \A f \in Seq(Seq(S)) : f \in G
  BY <1>2, <1>3, SeqInduct
<1> QED BY <1>1, <1>4

-----------------------------------------------------------------------------
(* The elements of a sequence.                                             *)

\* Those of two sequences together.
LEMMA ConcatElements ==
  ASSUME NEW S, NEW a \in Seq(S), NEW b \in Seq(S)
  PROVE  ToSet(a \o b) = ToSet(a) \cup ToSet(b)
<1>1. ASSUME NEW x \in ToSet(a \o b) PROVE x \in ToSet(a) \cup ToSet(b)
  <2>1. PICK i \in DOMAIN (a \o b) : x = (a \o b)[i]
    BY DEF ToSet
  <2>2. i \in 1..(Len(a) + Len(b))
    BY <2>1
  <2>3. CASE i <= Len(a)
    BY <2>1, <2>2, <2>3 DEF ToSet
  <2>4. CASE i > Len(a)
    <3>1. i - Len(a) \in DOMAIN b /\ x = b[i - Len(a)]
      BY <2>1, <2>2, <2>4
    <3> QED BY <3>1 DEF ToSet
  <2> QED BY <2>2, <2>3, <2>4
<1>2. ASSUME NEW x \in ToSet(a) PROVE x \in ToSet(a \o b)
  <2>1. PICK i \in DOMAIN a : x = a[i]
    BY DEF ToSet
  <2>2. i \in DOMAIN (a \o b) /\ x = (a \o b)[i]
    BY <2>1
  <2> QED BY <2>2 DEF ToSet
<1>3. ASSUME NEW x \in ToSet(b) PROVE x \in ToSet(a \o b)
  <2>1. PICK i \in DOMAIN b : x = b[i]
    BY DEF ToSet
  <2>2. i + Len(a) \in DOMAIN (a \o b) /\ x = (a \o b)[i + Len(a)]
    BY <2>1
  <2> QED BY <2>2 DEF ToSet
<1> QED BY <1>1, <1>2, <1>3

\* What FlattenSeq puts together holds every one of them.
LEMMA FlattenHolds ==
  ASSUME NEW S
  PROVE  \A f \in Seq(Seq(S)) : \A i \in DOMAIN f : ToSet(f[i]) \subseteq ToSet(FlattenSeq(f))
<1>1. PICK G : G = {f \in Seq(Seq(S)) :
                      \A i \in DOMAIN f : ToSet(f[i]) \subseteq ToSet(FlattenSeq(f))}
  OBVIOUS
<1>2. <<>> \in G
  <2>1. <<>> \in Seq(Seq(S)) /\ DOMAIN <<>> = {}
    OBVIOUS
  <2> QED BY <1>1, <2>1
<1>3. ASSUME NEW f \in Seq(Seq(S)), NEW e \in Seq(S), f \in G PROVE Append(f, e) \in G
  <2>1. Append(f, e) \in Seq(Seq(S))
    OBVIOUS
  <2>2. FlattenSeq(f) \in Seq(S)
    BY FlattenTyped
  <2>3. ToSet(FlattenSeq(Append(f, e))) = ToSet(FlattenSeq(f)) \cup ToSet(e)
    <3>1. FlattenSeq(Append(f, e)) = FlattenSeq(f) \o e
      BY FlattenAppend
    <3>2. ToSet(FlattenSeq(f) \o e) = ToSet(FlattenSeq(f)) \cup ToSet(e)
      BY <2>2, ConcatElements
    <3> QED BY <3>1, <3>2
  <2>4. ASSUME NEW i \in DOMAIN Append(f, e)
        PROVE  ToSet(Append(f, e)[i]) \subseteq ToSet(FlattenSeq(f)) \cup ToSet(e)
    <3>1. CASE i \in DOMAIN f
      BY <1>1, <1>3, <3>1
    <3>2. CASE i \notin DOMAIN f
      <4>1. Append(f, e)[i] = e
        BY <3>2
      <4> QED BY <4>1
    <3> QED BY <3>1, <3>2
  <2> QED BY <1>1, <2>1, <2>3, <2>4
<1>4. \A f \in Seq(Seq(S)) : f \in G
  BY <1>2, <1>3, SeqInduct
<1> QED BY <1>1, <1>4

\* The greatest of some of the first n numbers is one of them.
LEMMA MaxBelongs ==
  ASSUME NEW n \in Nat, NEW T, T \subseteq 1..n, T # {}
  PROVE  Max(T) \in T /\ \A y \in T : y <= Max(T)
<1>1. PICK N : N = {m \in Nat : \A U \in SUBSET (1..m) : U # {} => \E x \in U : \A y \in U : x >= y}
  OBVIOUS
<1>2. 0 \in N
  <2>1. 1..0 = {}
    OBVIOUS
  <2> QED BY <1>1, <2>1
<1>3. ASSUME NEW m \in Nat, m \in N PROVE m + 1 \in N
  <2>1. SUFFICES ASSUME NEW U \in SUBSET (1..(m + 1)), U # {} PROVE \E x \in U : \A y \in U : x >= y
    BY <1>1
  <2>2. CASE m + 1 \in U
    BY <2>1, <2>2
  <2>3. CASE m + 1 \notin U
    <3>1. U \in SUBSET (1..m)
      BY <2>3
    <3> QED BY <1>1, <1>3, <2>1, <3>1
  <2> QED BY <2>2, <2>3
<1>4. \A m \in Nat : m \in N
  BY <1>2, <1>3, NatInduct
<1>5. \E x \in T : \A y \in T : x >= y
  BY <1>1, <1>4
<1>6. Max(T) \in T /\ \A y \in T : Max(T) >= y
  BY <1>5 DEF Max
<1>7. \A x, y \in T : x >= y => y <= x
  OBVIOUS
<1> QED BY <1>6, <1>7

\* A sequence is its beginning and the rest.
LEMMA SplitSeq ==
  ASSUME NEW S, NEW s \in Seq(S), NEW n \in 0..Len(s)
  PROVE  /\ SubSeq(s, 1, n) \in Seq(S) /\ SubSeq(s, n + 1, Len(s)) \in Seq(S)
         /\ SubSeq(s, 1, n) \o SubSeq(s, n + 1, Len(s)) = s
         /\ n = Len(s) => SubSeq(s, n + 1, Len(s)) = <<>>
<1>1. Len(s) \in Nat /\ 1 \in 1..(Len(s) + 1) /\ n \in (1 - 1)..Len(s) /\ Len(s) \in n..Len(s)
  OBVIOUS
<1>2. SubSeq(s, 1, n) \o SubSeq(s, n + 1, Len(s)) = SubSeq(s, 1, Len(s))
  BY <1>1, ConcatAdjacentSubSeq
<1>3. SubSeq(s, 1, Len(s)) = s
  BY SubSeqFull
<1>4. SubSeq(s, 1, n) \in Seq(S) /\ SubSeq(s, n + 1, Len(s)) \in Seq(S)
  BY <1>1
<1>5. n = Len(s) => SubSeq(s, n + 1, Len(s)) = <<>>
  BY <1>1
<1> QED BY <1>2, <1>3, <1>4, <1>5
=============================================================================
