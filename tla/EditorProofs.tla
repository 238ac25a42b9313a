---------------------------- MODULE EditorProofs ----------------------------
(***************************************************************************)
(* Proofs about the editor, for any text, any history and any answer of    *)
(* the background: places in a text, the timeline of undo and redo, where  *)
(* a completion goes and where an error is pointed at.                     *)
(***************************************************************************)
EXTENDS EditorSession, SequenceLemmas, FiniteSetTheorems, TLAPS

-----------------------------------------------------------------------------
(* The least and the greatest of a set of numbers.                         *)

\* The least number of a set is in it.
LEMMA MinBelongs ==
  ASSUME NEW T, T \subseteq Nat, T # {}
  PROVE  Min(T) \in T /\ \A y \in T : Min(T) <= y
<1>1. PICK R : R = OpToRel(<, Nat)
  OBVIOUS
<1>2. IsWellFoundedOn(R, Nat)
  BY <1>1, NatLessThanWellFounded
<1>3. PICK x \in T : \A y \in T : ~(<<y, x>> \in R)
  BY <1>2, WFMin
<1>4. ASSUME NEW y \in T PROVE x <= y
  <2>1. x \in Nat /\ y \in Nat
    OBVIOUS
  <2>2. ~(y < x)
    <3>1. y < x => <<y, x>> \in R
      BY <1>1, <2>1 DEF OpToRel
    <3> QED BY <1>3, <3>1
  <2> QED BY <2>1, <2>2
<1>5. \E z \in T : \A y \in T : z =< y
  BY <1>4
<1>6. Min(T) \in T /\ \A y \in T : Min(T) =< y
  BY <1>5 DEF Min
<1> QED BY <1>6

\* The default of MinOr and MaxOr, or an element.
LEMMA MinOrCases ==
  ASSUME NEW T, T \subseteq Nat, NEW d
  PROVE  /\ T = {} => MinOr(T, d) = d
         /\ T # {} => MinOr(T, d) \in T /\ \A y \in T : MinOr(T, d) <= y
BY MinBelongs DEF MinOr

\* The same of the greatest number.
LEMMA MaxOrCases ==
  ASSUME NEW n \in Nat, NEW T, T \subseteq 1..n, NEW d
  PROVE  /\ T = {} => MaxOr(T, d) = d
         /\ T # {} => MaxOr(T, d) \in T /\ \A y \in T : y <= MaxOr(T, d)
BY MaxBelongs DEF MaxOr

-----------------------------------------------------------------------------
(* Lines.                                                                  *)

\* The places of the newlines of a text; those before a position.
Newlines(t) == {j \in 1..Len(t) : t[j] = NL}
NewlinesBefore(t, i) == {j \in 1..i - 1 : t[j] = NL}

\* They are finitely many.
LEMMA NewlinesFinite ==
  ASSUME NEW t \in Text
  PROVE  /\ Len(t) \in Nat
         /\ \A T : T \subseteq Newlines(t) => IsFiniteSet(T) /\ Cardinality(T) \in Nat
         /\ NewlinesBefore(t, Len(t) + 1) = Newlines(t)
         /\ \A i \in 1..Len(t) + 1 : NewlinesBefore(t, i) = {j \in Newlines(t) : j < i}
<1>1. Len(t) \in Nat
  BY DEF Text
<1>2. IsFiniteSet(1..Len(t))
  BY <1>1, FS_Interval
<1>3. ASSUME NEW T, T \subseteq Newlines(t)
      PROVE  IsFiniteSet(T) /\ Cardinality(T) \in Nat
  <2>1. T \subseteq 1..Len(t)
    BY <1>3 DEF Newlines
  <2>2. IsFiniteSet(T)
    BY <1>2, <2>1, FS_Subset
  <2> QED BY <2>2, FS_CardinalityType
<1>4. ASSUME NEW i \in 1..Len(t) + 1
      PROVE  NewlinesBefore(t, i) = {j \in Newlines(t) : j < i}
  BY <1>1 DEF NewlinesBefore, Newlines
<1>5. NewlinesBefore(t, Len(t) + 1) = Newlines(t)
  BY <1>1 DEF NewlinesBefore, Newlines
<1> QED BY <1>1, <1>3, <1>4, <1>5

\* Of some of the first n numbers, one has any smaller count of them before it.
LEMMA Ranked ==
  ASSUME NEW n \in Nat, NEW T \in SUBSET (1..n), NEW k \in Nat, k < Cardinality(T)
  PROVE  \E i \in T : Cardinality({j \in T : j < i}) = k
<1>1. PICK N : N = {m \in Nat : \A U \in SUBSET (1..m) : \A c \in Nat : c < Cardinality(U) =>
                                  \E i \in U : Cardinality({j \in U : j < i}) = c}
  OBVIOUS
<1>2. 0 \in N
  <2>1. ASSUME NEW U \in SUBSET (1..0), NEW c \in Nat PROVE ~(c < Cardinality(U))
    <3>1. U = {}
      OBVIOUS
    <3>2. Cardinality(U) = 0
      BY <3>1, FS_EmptySet
    <3> QED BY <3>2
  <2> QED BY <1>1, <2>1
<1>3. ASSUME NEW m \in Nat, m \in N PROVE m + 1 \in N
  <2>1. SUFFICES ASSUME NEW U \in SUBSET (1..(m + 1)), NEW c \in Nat, c < Cardinality(U)
                 PROVE  \E i \in U : Cardinality({j \in U : j < i}) = c
    BY <1>1
  <2>2. CASE m + 1 \notin U
    <3>1. U \in SUBSET (1..m)
      BY <2>2
    <3> QED BY <1>1, <1>3, <2>1, <3>1
  <2>3. CASE m + 1 \in U
    <3>1. PICK V : V = U \ {m + 1}
      OBVIOUS
    <3>2. V \in SUBSET (1..m)
      BY <3>1
    <3>3. IsFiniteSet(U)
      <4>1. IsFiniteSet(1..(m + 1))
        BY FS_Interval
      <4> QED BY <4>1, FS_Subset
    <3>4. Cardinality(V) = Cardinality(U) - 1 /\ Cardinality(U) \in Nat
      BY <2>3, <3>1, <3>3, FS_RemoveElement, FS_CardinalityType
    <3>5. CASE c < Cardinality(V)
      <4>1. PICK i \in V : Cardinality({j \in V : j < i}) = c
        BY <1>1, <1>3, <3>2, <3>5
      <4>2. {j \in V : j < i} = {j \in U : j < i}
        BY <3>1, <3>2
      <4> QED BY <3>1, <4>1, <4>2
    <3>6. CASE ~(c < Cardinality(V))
      <4>1. c = Cardinality(V)
        BY <2>1, <3>4, <3>6
      <4>2. {j \in U : j < m + 1} = V
        <5>1. \A j \in U : j \in 1..(m + 1)
          OBVIOUS
        <5>2. \A j \in U : j < m + 1 <=> j # m + 1
          BY <5>1
        <5> QED BY <3>1, <5>2
      <4> QED BY <2>3, <4>1, <4>2
    <3> QED BY <3>5, <3>6
  <2> QED BY <2>2, <2>3
<1>4. n \in N
  BY <1>2, <1>3, NatInduct
<1> QED BY <1>1, <1>4

\* And no two of them have as many before them.
LEMMA RankedOnce ==
  ASSUME NEW n \in Nat, NEW T \in SUBSET (1..n), NEW i \in T, NEW k \in T, k < i
  PROVE  Cardinality({j \in T : j < k}) # Cardinality({j \in T : j < i})
<1>1. PICK A, B : A = {j \in T : j < k} /\ B = {j \in T : j < i}
  OBVIOUS
<1>2. A \subseteq B /\ k \in B /\ k \notin A /\ B \subseteq 1..n
  <2>1. \A j \in T : j \in Nat
    OBVIOUS
  <2>2. \A j \in T : j < k => j < i
    BY <2>1
  <2>3. ~(k < k)
    BY <2>1
  <2> QED BY <1>1, <2>2, <2>3
<1>3. IsFiniteSet(B)
  <2>1. IsFiniteSet(1..n)
    BY FS_Interval
  <2> QED BY <1>2, <2>1, FS_Subset
<1>4. IsFiniteSet(B \ {k}) /\ Cardinality(B \ {k}) = Cardinality(B) - 1 /\ Cardinality(B) \in Nat
  BY <1>2, <1>3, FS_RemoveElement, FS_CardinalityType
<1>5. Cardinality(A) <= Cardinality(B \ {k})
  BY <1>2, <1>4, FS_Subset
<1>6. Cardinality(A) \in Nat
  BY <1>2, <1>3, FS_Subset, FS_CardinalityType
<1> QED BY <1>1, <1>4, <1>5, <1>6

\* The start of a line: of the first one, or behind the newline before it.
LEMMA StartOfLine ==
  ASSUME NEW t \in Text, NEW line \in 1..LineCount(t)
  PROVE  /\ line = 1 => StartOf(t, line) = 1
         /\ line # 1 => \E m \in Newlines(t) :
              /\ StartOf(t, line) = m + 1
              /\ Cardinality({j \in Newlines(t) : j < m}) = line - 2
<1>1. /\ Len(t) \in Nat /\ Newlines(t) \in SUBSET (1..Len(t))
      /\ Cardinality(Newlines(t)) \in Nat /\ LineCount(t) = Cardinality(Newlines(t)) + 1
  BY NewlinesFinite DEF LineCount, Line, NewlinesBefore, Newlines
<1>2. CASE line = 1
  BY <1>2 DEF StartOf
<1>3. CASE line # 1
  <2>1. line - 2 \in Nat /\ line - 2 < Cardinality(Newlines(t))
    BY <1>1, <1>3
  <2>2. \E m \in Newlines(t) : Cardinality({j \in Newlines(t) : j < m}) = line - 2
    BY <1>1, <2>1, Ranked
  <2>3. PICK m : m = CHOOSE i \in Newlines(t) : Cardinality({j \in Newlines(t) : j < i}) = line - 2
    OBVIOUS
  <2>4. m \in Newlines(t) /\ Cardinality({j \in Newlines(t) : j < m}) = line - 2
    BY <2>2, <2>3
  <2>5. StartOf(t, line) = 1 + m
    BY <1>3, <2>3 DEF StartOf, Newlines
  <2>6. m \in Nat
    BY <1>1, <2>4
  <2>7. StartOf(t, line) = m + 1
    BY <2>5, <2>6
  <2> QED BY <1>3, <2>4, <2>7
<1> QED BY <1>2, <1>3

\* A line begins in the text and ends behind its start, with the text at most.
LEMMA LineEndAfter ==
  ASSUME NEW t \in Text, NEW i \in 1..Len(t) + 1
  PROVE  /\ LineEnd(t, i) \in i..Len(t) + 1
         /\ \A j \in i..Len(t) : t[j] = NL => LineEnd(t, i) <= j
<1>1. PICK T : T = {j \in i..Len(t) : t[j] = NL}
  OBVIOUS
<1>2. Len(t) \in Nat /\ T \subseteq Nat
  BY <1>1 DEF Text
<1>3. LineEnd(t, i) = MinOr(T, Len(t) + 1)
  BY <1>1 DEF LineEnd
<1>4. CASE T = {}
  <2>1. LineEnd(t, i) = Len(t) + 1
    BY <1>2, <1>3, <1>4, MinOrCases
  <2> QED BY <1>1, <1>2, <1>4, <2>1
<1>5. CASE T # {}
  <2>1. MinOr(T, Len(t) + 1) \in T /\ \A y \in T : MinOr(T, Len(t) + 1) <= y
    BY <1>2, <1>5, MinOrCases
  <2> QED BY <1>1, <1>2, <1>3, <2>1
<1> QED BY <1>4, <1>5

\* A line of a text begins and ends in it.
LEMMA LineInText ==
  ASSUME NEW t \in Text, NEW line \in 1..LineCount(t)
  PROVE  /\ StartOf(t, line) \in 1..Len(t) + 1 /\ Width(t, line) \in Nat
         /\ StartOf(t, line) + Width(t, line) \in 1..Len(t) + 1
<1>1. Len(t) \in Nat
  BY DEF Text
<1>2. StartOf(t, line) \in 1..Len(t) + 1
  <2>1. CASE line = 1
    BY <1>1, <2>1, StartOfLine
  <2>2. CASE line # 1
    <3>1. PICK m \in Newlines(t) : StartOf(t, line) = m + 1
      BY <2>2, StartOfLine
    <3>2. m \in 1..Len(t)
      BY DEF Newlines
    <3> QED BY <1>1, <3>1, <3>2
  <2> QED BY <2>1, <2>2
<1>3. PICK s : s = StartOf(t, line)
  OBVIOUS
<1>4. LineEnd(t, s) \in s..Len(t) + 1
  BY <1>2, <1>3, LineEndAfter
<1>5. Width(t, line) = LineEnd(t, s) - s
  BY <1>3 DEF Width
<1> QED BY <1>1, <1>2, <1>3, <1>4, <1>5

\* The line and the column of a position are those of a place in the text, and
\* that place is this position.
LEMMA PositionPlace ==
  ASSUME NEW t \in Text, NEW i \in 1..Len(t) + 1
  PROVE  /\ Line(t, i) \in 1..LineCount(t)
         /\ StartOf(t, Line(t, i)) = LineStart(t, i)
         /\ Col(t, i) \in 0..Width(t, Line(t, i))
         /\ LineStart(t, i) \in 1..i
<1>1. /\ Len(t) \in Nat /\ Newlines(t) \in SUBSET (1..Len(t)) /\ i \in Nat /\ i >= 1
      /\ Cardinality(Newlines(t)) \in Nat /\ LineCount(t) = Cardinality(Newlines(t)) + 1
  BY NewlinesFinite DEF LineCount, Line, NewlinesBefore, Newlines
<1>2. PICK B : B = NewlinesBefore(t, i)
  OBVIOUS
<1>3. B = {j \in Newlines(t) : j < i} /\ Line(t, i) = Cardinality(B) + 1
      /\ LineStart(t, i) = MaxOr(B, 0) + 1
  BY <1>2, NewlinesFinite DEF Line, LineStart, NewlinesBefore
<1>4. B \subseteq Newlines(t) /\ IsFiniteSet(Newlines(t)) /\ Cardinality(B) \in Nat
  BY <1>3, NewlinesFinite
<1>5. Cardinality(B) <= Cardinality(Newlines(t))
  BY <1>4, FS_Subset
<1>6. Line(t, i) \in 1..LineCount(t)
  BY <1>1, <1>3, <1>4, <1>5
<1>7. StartOf(t, Line(t, i)) = LineStart(t, i) /\ LineStart(t, i) \in 1..i
      /\ \A j \in LineStart(t, i)..(i - 1) : t[j] # NL
  <2>1. CASE B = {}
    <3>1. Line(t, i) = 1
      <4>1. Cardinality(B) = 0
        BY <2>1, FS_EmptySet
      <4> QED BY <1>3, <4>1
    <3>2. LineStart(t, i) = 1
      BY <1>3, <2>1 DEF MaxOr
    <3>3. \A j \in 1..(i - 1) : t[j] # NL
      BY <1>2, <2>1 DEF NewlinesBefore
    <3> QED BY <1>1, <1>6, <3>1, <3>2, <3>3, StartOfLine
  <2>2. CASE B # {}
    <3>1. PICK m : m = MaxOr(B, 0)
      OBVIOUS
    <3>2. m \in B /\ \A y \in B : y <= m
      <4>1. B \subseteq 1..Len(t)
        BY <1>1, <1>4
      <4> QED BY <1>1, <2>2, <3>1, <4>1, MaxOrCases
    <3>3. m \in 1..Len(t) /\ m < i /\ m \in Newlines(t)
      BY <1>1, <1>3, <3>2
    <3>4. PICK A : A = {j \in Newlines(t) : j < m}
      OBVIOUS
    <3>5. A = B \ {m}
      BY <1>1, <1>3, <3>2, <3>3, <3>4
    <3>6. Cardinality(A) = Cardinality(B) - 1
      BY <1>4, <3>2, <3>5, FS_RemoveElement, FS_Subset
    <3>7. Line(t, i) # 1
      <4>1. Cardinality(B) # 0
        BY <1>4, <2>2, FS_EmptySet, FS_Subset
      <4> QED BY <1>3, <1>4, <4>1
    <3>8. PICK k \in Newlines(t) :
            /\ StartOf(t, Line(t, i)) = k + 1
            /\ Cardinality({j \in Newlines(t) : j < k}) = Line(t, i) - 2
      BY <1>6, <3>7, StartOfLine
    <3>9. Cardinality({j \in Newlines(t) : j < k}) = Cardinality({j \in Newlines(t) : j < m})
      BY <1>3, <1>4, <3>4, <3>6, <3>8
    <3>10. k \in 1..Len(t)
      BY <1>1
    <3>11. k = m
      <4>1. ~(k < m)
        BY <1>1, <3>3, <3>9, RankedOnce
      <4>2. ~(m < k)
        BY <1>1, <3>3, <3>9, RankedOnce
      <4> QED BY <3>3, <3>10, <4>1, <4>2
    <3>12. LineStart(t, i) = m + 1
      BY <1>3, <3>1
    <3>13. ASSUME NEW j \in (m + 1)..(i - 1) PROVE t[j] # NL
      <4>1. SUFFICES ASSUME t[j] = NL PROVE FALSE
        OBVIOUS
      <4>2. j \in B
        BY <1>1, <1>2, <3>3, <4>1 DEF NewlinesBefore
      <4> QED BY <3>2, <3>3, <4>2
    <3> QED BY <1>1, <3>3, <3>8, <3>11, <3>12, <3>13
  <2> QED BY <2>1, <2>2
<1>8. PICK s : s = LineStart(t, i)
  OBVIOUS
<1>9. s \in 1..Len(t) + 1 /\ s <= i
  BY <1>1, <1>7, <1>8
<1>10. LineEnd(t, s) \in s..Len(t) + 1 /\ i <= LineEnd(t, s)
  <2>1. PICK T : T = {j \in s..Len(t) : t[j] = NL}
    OBVIOUS
  <2>2. LineEnd(t, s) = MinOr(T, Len(t) + 1) /\ T \subseteq Nat
    BY <1>9, <2>1 DEF LineEnd
  <2>3. CASE T = {}
    <3>1. LineEnd(t, s) = Len(t) + 1
      BY <2>2, <2>3, MinOrCases
    <3> QED BY <1>1, <1>9, <3>1
  <2>4. CASE T # {}
    <3>1. MinOr(T, Len(t) + 1) \in T
      BY <2>2, <2>4, MinOrCases
    <3>2. LineEnd(t, s) \in s..Len(t) /\ t[LineEnd(t, s)] = NL
      BY <2>1, <2>2, <3>1
    <3> QED BY <1>1, <1>7, <1>8, <1>9, <3>2
  <2> QED BY <2>3, <2>4
<1>11. Col(t, i) = i - s /\ Width(t, Line(t, i)) = LineEnd(t, s) - s
  BY <1>7, <1>8 DEF Col, Width
<1> QED BY <1>1, <1>6, <1>7, <1>9, <1>10, <1>11

-----------------------------------------------------------------------------
(* Places and positions.                                                   *)

\* The greater and the smaller of two numbers.
LEMMA MaxMinOfTwo ==
  ASSUME NEW x \in Int, NEW y \in Int
  PROVE  /\ Max({x, y}) = IF x >= y THEN x ELSE y
         /\ Min({x, y}) = IF x <= y THEN x ELSE y
<1>1. Max({x, y}) \in {x, y} /\ \A z \in {x, y} : Max({x, y}) >= z
  <2>1. \E m \in {x, y} : \A z \in {x, y} : m >= z
    OBVIOUS
  <2> QED BY <2>1 DEF Max
<1>2. Min({x, y}) \in {x, y} /\ \A z \in {x, y} : Min({x, y}) =< z
  <2>1. \E m \in {x, y} : \A z \in {x, y} : m =< z
    OBVIOUS
  <2> QED BY <2>1 DEF Min
<1>3. PICK m, k : m = Max({x, y}) /\ k = Min({x, y})
  OBVIOUS
<1>4. m \in Int /\ (m = x \/ m = y) /\ m >= x /\ m >= y
  BY <1>1, <1>3
<1>5. k \in Int /\ (k = x \/ k = y) /\ k <= x /\ k <= y
  BY <1>2, <1>3
<1>6. m = IF x >= y THEN x ELSE y
  BY <1>4
<1>7. k = IF x <= y THEN x ELSE y
  BY <1>5
<1> QED BY <1>3, <1>6, <1>7

\* What is brought within bounds is there, and what was there stays.
LEMMA WithinBounds ==
  ASSUME NEW x \in Int, NEW low \in Int, NEW high \in Int, low <= high
  PROVE  Within(x, low, high) \in low..high /\ (x \in low..high => Within(x, low, high) = x)
<1>1. PICK m : m = Min({x, high})
  OBVIOUS
<1>2. m = IF x <= high THEN x ELSE high
  BY <1>1, MaxMinOfTwo
<1>3. m \in Int
  BY <1>2
<1>4. Max({low, m}) = IF low >= m THEN low ELSE m
  BY <1>3, MaxMinOfTwo
<1>5. Within(x, low, high) = IF low >= m THEN low ELSE m
  BY <1>1, <1>4 DEF Within
<1> QED BY <1>2, <1>3, <1>5

\* A text has a line at least.
LEMMA LineCountTyped ==
  ASSUME NEW t \in Text
  PROVE  LineCount(t) \in Nat /\ LineCount(t) >= 1 /\ Len(t) \in Nat
<1>1. Len(t) \in Nat /\ Len(t) + 1 \in 1..Len(t) + 1
  BY DEF Text
<1>2. LineCount(t) \in Nat
  BY <1>1, NewlinesFinite DEF LineCount, Line, NewlinesBefore
<1>3. Line(t, Len(t) + 1) \in 1..LineCount(t)
  BY <1>1, PositionPlace
<1> QED BY <1>1, <1>2, <1>3

\* A place is brought into the text, and one in the text stays.
LEMMA ClampInText ==
  ASSUME NEW t \in Text, NEW p \in Place
  PROVE  /\ ClampPosition(t, p) \in Place /\ InText(t, ClampPosition(t, p))
         /\ InText(t, p) => ClampPosition(t, p) = p
<1>1. p[1] \in Int /\ p[2] \in Int /\ p = <<p[1], p[2]>>
  BY DEF Place
<1>2. PICK line : line = Within(p[1], 1, LineCount(t))
  OBVIOUS
<1>3. line \in 1..LineCount(t) /\ (p[1] \in 1..LineCount(t) => line = p[1])
  <2>1. PICK x, n : x = p[1] /\ n = LineCount(t)
    OBVIOUS
  <2>2. x \in Int /\ n \in Int /\ 1 \in Int /\ 1 <= n
    BY <1>1, <2>1, LineCountTyped
  <2>3. Within(x, 1, n) \in 1..n /\ (x \in 1..n => Within(x, 1, n) = x)
    BY <2>2, WithinBounds
  <2> QED BY <1>2, <2>1, <2>3
<1>4. Width(t, line) \in Nat
  BY <1>3, LineInText
<1>5. PICK col : col = Within(p[2], 0, Width(t, line))
  OBVIOUS
<1>6. col \in 0..Width(t, line) /\ (p[2] \in 0..Width(t, line) => col = p[2])
  <2>1. PICK x, w : x = p[2] /\ w = Width(t, line)
    OBVIOUS
  <2>2. x \in Int /\ w \in Int /\ 0 \in Int /\ 0 <= w
    BY <1>1, <1>4, <2>1
  <2>3. Within(x, 0, w) \in 0..w /\ (x \in 0..w => Within(x, 0, w) = x)
    BY <2>2, WithinBounds
  <2> QED BY <1>5, <2>1, <2>3
<1>7. ClampPosition(t, p) = <<line, col>>
  BY <1>2, <1>5 DEF ClampPosition
<1>8. <<line, col>> \in Place
  BY <1>3, <1>4, <1>6, LineCountTyped DEF Place
<1>9. InText(t, <<line, col>>)
  BY <1>3, <1>6 DEF InText
<1>10. ASSUME InText(t, p) PROVE <<line, col>> = p
  <2>1. p[1] \in 1..LineCount(t) /\ p[2] \in 0..Width(t, p[1])
    BY <1>10 DEF InText
  <2>2. line = p[1]
    BY <1>3, <2>1
  <2>3. col = p[2]
    BY <1>6, <2>1, <2>2
  <2> QED BY <1>1, <2>2, <2>3
<1> QED BY <1>7, <1>8, <1>9, <1>10

\* A place stands for a position of the text or the one behind it.
LEMMA IndexInText ==
  ASSUME NEW t \in Text, NEW p \in Place
  PROVE  PositionToTextIndex(t, p) \in 1..Len(t) + 1
<1>1. PICK c : c = ClampPosition(t, p)
  OBVIOUS
<1>2. c[1] \in 1..LineCount(t) /\ c[2] \in 0..Width(t, c[1])
  BY <1>1, ClampInText DEF InText
<1>3. PICK s, w : s = StartOf(t, c[1]) /\ w = Width(t, c[1])
  OBVIOUS
<1>4. s \in 1..Len(t) + 1 /\ w \in Nat /\ s + w \in 1..Len(t) + 1
  BY <1>2, <1>3, LineInText
<1>5. PositionToTextIndex(t, p) = s + c[2]
  BY <1>1, <1>3 DEF PositionToTextIndex
<1> QED BY <1>2, <1>3, <1>4, <1>5, LineCountTyped

\* A position's place is in the text and stands for that position.
LEMMA PlaceOfIndex ==
  ASSUME NEW t \in Text, NEW i \in 1..Len(t) + 1
  PROVE  /\ TextIndexToPosition(t, i) \in Place /\ InText(t, TextIndexToPosition(t, i))
         /\ PositionToTextIndex(t, TextIndexToPosition(t, i)) = i
<1>1. PICK line, col, s : line = Line(t, i) /\ col = Col(t, i) /\ s = LineStart(t, i)
  OBVIOUS
<1>2. /\ line \in 1..LineCount(t) /\ StartOf(t, line) = s /\ col \in 0..Width(t, line)
      /\ s \in 1..i
  BY <1>1, PositionPlace
<1>3. PICK p : p = TextIndexToPosition(t, i)
  OBVIOUS
<1>4. p = <<line, col>> /\ p[1] = line /\ p[2] = col
  BY <1>1, <1>3 DEF TextIndexToPosition
<1>5. InText(t, p)
  BY <1>2, <1>4 DEF InText
<1>6. p \in Place
  <2>1. line \in Int
    BY <1>2, LineCountTyped
  <2>2. col \in Int
    BY <1>2, LineInText
  <2> QED BY <1>4, <2>1, <2>2 DEF Place
<1>7. ClampPosition(t, p) = p
  BY <1>5, <1>6, ClampInText
<1>8. PositionToTextIndex(t, p) = s + col
  BY <1>2, <1>4, <1>7 DEF PositionToTextIndex
<1>9. col = i - s
  BY <1>1 DEF Col
<1>10. i \in Nat /\ s \in Nat
  BY <1>2, LineCountTyped
<1>11. s + col = i
  BY <1>9, <1>10
<1> QED BY <1>3, <1>5, <1>6, <1>8, <1>11

-----------------------------------------------------------------------------
(* Recursive functions that go from an element to the next one, each time   *)
(* by less of some measure: there is such a function, so that its equation  *)
(* holds.  With them, induction by a measure.                               *)

\* A set that holds an element when it holds all of less measure holds them all.
LEMMA MeasureInduct ==
  ASSUME NEW S, NEW m, NEW G, \A x \in S : m[x] \in Nat,
         \A x \in S : (\A y \in S : m[y] < m[x] => y \in G) => x \in G
  PROVE  \A x \in S : x \in G
<1>1. PICK N : N = {k \in Nat : \A x \in S : m[x] < k => x \in G}
  OBVIOUS
<1>2. 0 \in N
  <2>1. \A x \in S : ~(m[x] < 0)
    OBVIOUS
  <2> QED BY <1>1, <2>1
<1>3. ASSUME NEW k \in Nat, k \in N PROVE k + 1 \in N
  <2>1. SUFFICES ASSUME NEW x \in S, m[x] < k + 1 PROVE x \in G
    BY <1>1
  <2>2. \A y \in S : m[y] < m[x] => m[y] < k
    BY <2>1
  <2>3. \A y \in S : m[y] < m[x] => y \in G
    BY <1>1, <1>3, <2>2
  <2> QED BY <2>3
<1>4. \A k \in Nat : k \in N
  BY <1>2, <1>3, NatInduct
<1>5. ASSUME NEW x \in S PROVE x \in G
  <2>1. m[x] + 1 \in N /\ m[x] \in Nat
    BY <1>4
  <2> QED BY <1>1, <2>1
<1> QED BY <1>5

\* h puts together the sequences that stand at the elements on the way.
Walks(S, stop, skip, at, next, h) ==
  h = [x \in S |-> IF stop[x] THEN <<>> ELSE IF skip[x] THEN h[next[x]] ELSE at[x] \o h[next[x]]]

\* There is such a function.
LEMMA WalkExists ==
  ASSUME NEW S, NEW stop, NEW skip, NEW at, NEW next, NEW m, NEW most \in Nat,
         \A x \in S : m[x] \in Nat /\ m[x] < most,
         \A x \in S : ~stop[x] => next[x] \in S /\ m[next[x]] < m[x]
  PROVE  \E h : Walks(S, stop, skip, at, next, h)
<1>1. PICK N : N = {k \in Nat : \E h : \A x \in S : m[x] < k => h[x] = IF stop[x] THEN <<>> ELSE IF skip[x] THEN h[next[x]] ELSE at[x] \o h[next[x]]}
  OBVIOUS
<1>2. 0 \in N
  <2>1. \A x \in S : ~(m[x] < 0)
    OBVIOUS
  <2> QED BY <1>1, <2>1
<1>3. ASSUME NEW k \in Nat, k \in N PROVE k + 1 \in N
  <2>1. PICK h : \A x \in S : m[x] < k => h[x] = IF stop[x] THEN <<>> ELSE IF skip[x] THEN h[next[x]] ELSE at[x] \o h[next[x]]
    BY <1>1, <1>3
  <2>2. PICK g : g = [x \in S |-> IF stop[x] THEN <<>> ELSE IF skip[x] THEN h[next[x]] ELSE at[x] \o h[next[x]]]
    OBVIOUS
  <2>3. \A x \in S : g[x] = IF stop[x] THEN <<>> ELSE IF skip[x] THEN h[next[x]] ELSE at[x] \o h[next[x]]
    BY <2>2
  <2>4. \A x \in S : m[x] < k => g[x] = h[x]
    BY <2>1, <2>3
  <2>5. ASSUME NEW x \in S, m[x] < k + 1, ~stop[x] PROVE g[next[x]] = h[next[x]]
    <3>1. next[x] \in S /\ m[next[x]] < m[x] /\ m[next[x]] \in Nat /\ m[x] \in Nat
      BY <2>5
    <3>2. m[next[x]] < k
      BY <2>5, <3>1
    <3> QED BY <2>4, <3>1, <3>2
  <2>6. \A x \in S : m[x] < k + 1 => g[x] = IF stop[x] THEN <<>> ELSE IF skip[x] THEN g[next[x]] ELSE at[x] \o g[next[x]]
    <3>1. SUFFICES ASSUME NEW x \in S, m[x] < k + 1
                   PROVE  g[x] = IF stop[x] THEN <<>> ELSE IF skip[x] THEN g[next[x]] ELSE at[x] \o g[next[x]]
      OBVIOUS
    <3>2. CASE stop[x]
      BY <2>3, <3>2
    <3>3. CASE ~stop[x]
      BY <2>3, <2>5, <3>1, <3>3
    <3> QED BY <3>2, <3>3
  <2> QED BY <1>1, <2>6
<1>4. most \in N
  BY <1>2, <1>3, NatInduct
<1>5. PICK h : \A x \in S : h[x] = IF stop[x] THEN <<>> ELSE IF skip[x] THEN h[next[x]] ELSE at[x] \o h[next[x]]
  BY <1>1, <1>4
<1>6. PICK g : g = [x \in S |-> IF stop[x] THEN <<>> ELSE IF skip[x] THEN h[next[x]] ELSE at[x] \o h[next[x]]]
  OBVIOUS
<1>7. \A x \in S : g[x] = h[x]
  BY <1>5, <1>6
<1>8. \A x \in S : (IF stop[x] THEN <<>> ELSE IF skip[x] THEN h[next[x]] ELSE at[x] \o h[next[x]]) = (IF stop[x] THEN <<>> ELSE IF skip[x] THEN g[next[x]] ELSE at[x] \o g[next[x]])
  <2>1. \A x \in S : ~stop[x] => h[next[x]] = g[next[x]]
    BY <1>7
  <2> QED BY <2>1
<1>9. g = [x \in S |-> IF stop[x] THEN <<>> ELSE IF skip[x] THEN g[next[x]] ELSE at[x] \o g[next[x]]]
  BY <1>6, <1>8
<1> QED BY <1>9 DEF Walks

\* It puts together a sequence.
LEMMA WalkTyped ==
  ASSUME NEW S, NEW stop, NEW skip, NEW at, NEW next, NEW m, NEW E, NEW h,
         Walks(S, stop, skip, at, next, h),
         \A x \in S : m[x] \in Nat,
         \A x \in S : ~stop[x] => next[x] \in S /\ m[next[x]] < m[x],
         \A x \in S : ~stop[x] /\ ~skip[x] => at[x] \in Seq(E)
  PROVE  \A x \in S : h[x] \in Seq(E)
<1>1. PICK G : G = {x \in S : h[x] \in Seq(E)}
  OBVIOUS
<1>2. ASSUME NEW x \in S, \A y \in S : m[y] < m[x] => y \in G PROVE x \in G
  <2>1. h[x] = IF stop[x] THEN <<>> ELSE IF skip[x] THEN h[next[x]] ELSE at[x] \o h[next[x]]
    <3>1. h = [y \in S |-> IF stop[y] THEN <<>> ELSE IF skip[y] THEN h[next[y]] ELSE at[y] \o h[next[y]]]
      BY Zenon DEF Walks
    <3>2. PICK g : g = [y \in S |-> IF stop[y] THEN <<>> ELSE IF skip[y] THEN h[next[y]] ELSE at[y] \o h[next[y]]]
      OBVIOUS
    <3>3. g[x] = IF stop[x] THEN <<>> ELSE IF skip[x] THEN h[next[x]] ELSE at[x] \o h[next[x]]
      BY <3>2
    <3> QED BY <3>1, <3>2, <3>3, Zenon
  <2>2. CASE stop[x]
    <3>1. h[x] = <<>>
      BY <2>1, <2>2
    <3>2. <<>> \in Seq(E)
      OBVIOUS
    <3>3. h[x] \in Seq(E)
      BY <3>1, <3>2, Zenon
    <3> QED BY <1>1, <3>3
  <2>3. CASE ~stop[x]
    <3>1. h[next[x]] \in Seq(E)
      <4>1. next[x] \in G
        BY <1>2, <2>3
      <4> QED BY <1>1, <4>1
    <3>2. ~skip[x] => at[x] \in Seq(E)
      BY <2>3
    <3>3. h[x] \in Seq(E)
      BY <2>1, <2>3, <3>1, <3>2
    <3> QED BY <1>1, <3>3
  <2> QED BY <2>2, <2>3
<1>3. \A x \in S : x \in G
  BY <1>2, MeasureInduct
<1> QED BY <1>1, <1>3

\* h is the union of the sets that stand at the elements on the way.
Gathers(S, stop, at, next, h) == h = [x \in S |-> IF stop[x] THEN {} ELSE at[x] \cup h[next[x]]]

\* There is such a function.
LEMMA GatheringExists ==
  ASSUME NEW S, NEW stop, NEW at, NEW next, NEW m, NEW most \in Nat,
         \A x \in S : m[x] \in Nat /\ m[x] < most,
         \A x \in S : ~stop[x] => next[x] \in S /\ m[next[x]] < m[x]
  PROVE  \E h : Gathers(S, stop, at, next, h)
<1>1. PICK N : N = {k \in Nat : \E h : \A x \in S : m[x] < k => h[x] = IF stop[x] THEN {} ELSE at[x] \cup h[next[x]]}
  OBVIOUS
<1>2. 0 \in N
  <2>1. \A x \in S : ~(m[x] < 0)
    OBVIOUS
  <2> QED BY <1>1, <2>1
<1>3. ASSUME NEW k \in Nat, k \in N PROVE k + 1 \in N
  <2>1. PICK h : \A x \in S : m[x] < k => h[x] = IF stop[x] THEN {} ELSE at[x] \cup h[next[x]]
    BY <1>1, <1>3
  <2>2. PICK g : g = [x \in S |-> IF stop[x] THEN {} ELSE at[x] \cup h[next[x]]]
    OBVIOUS
  <2>3. \A x \in S : g[x] = IF stop[x] THEN {} ELSE at[x] \cup h[next[x]]
    BY <2>2
  <2>4. \A x \in S : m[x] < k => g[x] = h[x]
    BY <2>1, <2>3
  <2>5. ASSUME NEW x \in S, m[x] < k + 1, ~stop[x] PROVE g[next[x]] = h[next[x]]
    <3>1. next[x] \in S /\ m[next[x]] < m[x] /\ m[next[x]] \in Nat /\ m[x] \in Nat
      BY <2>5
    <3>2. m[next[x]] < k
      BY <2>5, <3>1
    <3> QED BY <2>4, <3>1, <3>2
  <2>6. \A x \in S : m[x] < k + 1 => g[x] = IF stop[x] THEN {} ELSE at[x] \cup g[next[x]]
    <3>1. SUFFICES ASSUME NEW x \in S, m[x] < k + 1
                   PROVE  g[x] = IF stop[x] THEN {} ELSE at[x] \cup g[next[x]]
      OBVIOUS
    <3>2. CASE stop[x]
      BY <2>3, <3>2
    <3>3. CASE ~stop[x]
      BY <2>3, <2>5, <3>1, <3>3
    <3> QED BY <3>2, <3>3
  <2>7. \E f : \A x \in S : m[x] < k + 1 => f[x] = IF stop[x] THEN {} ELSE at[x] \cup f[next[x]]
    BY <2>6, Zenon
  <2>8. k + 1 \in Nat
    OBVIOUS
  <2> QED BY <1>1, <2>7, <2>8, Zenon
<1>4. most \in N
  BY <1>2, <1>3, NatInduct
<1>5. PICK h : \A x \in S : h[x] = IF stop[x] THEN {} ELSE at[x] \cup h[next[x]]
  BY <1>1, <1>4
<1>6. PICK g : g = [x \in S |-> IF stop[x] THEN {} ELSE at[x] \cup h[next[x]]]
  OBVIOUS
<1>7. \A x \in S : g[x] = h[x]
  BY <1>5, <1>6
<1>8. \A x \in S : (IF stop[x] THEN {} ELSE at[x] \cup h[next[x]]) = (IF stop[x] THEN {} ELSE at[x] \cup g[next[x]])
  <2>1. \A x \in S : ~stop[x] => h[next[x]] = g[next[x]]
    BY <1>7
  <2> QED BY <2>1
<1>9. g = [x \in S |-> IF stop[x] THEN {} ELSE at[x] \cup g[next[x]]]
  BY <1>6, <1>8
<1> QED BY <1>9 DEF Gathers

\* h is what stands at the last element on the way.
Arrives(S, stop, last, next, h) == h = [x \in S |-> IF stop[x] THEN last[x] ELSE h[next[x]]]

\* There is such a function.
LEMMA ArrivalExists ==
  ASSUME NEW S, NEW stop, NEW last, NEW next, NEW m, NEW most \in Nat,
         \A x \in S : m[x] \in Nat /\ m[x] < most,
         \A x \in S : ~stop[x] => next[x] \in S /\ m[next[x]] < m[x]
  PROVE  \E h : Arrives(S, stop, last, next, h)
<1>1. PICK N : N = {k \in Nat : \E h : \A x \in S : m[x] < k => h[x] = IF stop[x] THEN last[x] ELSE h[next[x]]}
  OBVIOUS
<1>2. 0 \in N
  <2>1. \A x \in S : ~(m[x] < 0)
    OBVIOUS
  <2> QED BY <1>1, <2>1
<1>3. ASSUME NEW k \in Nat, k \in N PROVE k + 1 \in N
  <2>1. PICK h : \A x \in S : m[x] < k => h[x] = IF stop[x] THEN last[x] ELSE h[next[x]]
    BY <1>1, <1>3
  <2>2. PICK g : g = [x \in S |-> IF stop[x] THEN last[x] ELSE h[next[x]]]
    OBVIOUS
  <2>3. \A x \in S : g[x] = IF stop[x] THEN last[x] ELSE h[next[x]]
    BY <2>2
  <2>4. \A x \in S : m[x] < k => g[x] = h[x]
    BY <2>1, <2>3
  <2>5. ASSUME NEW x \in S, m[x] < k + 1, ~stop[x] PROVE g[next[x]] = h[next[x]]
    <3>1. next[x] \in S /\ m[next[x]] < m[x] /\ m[next[x]] \in Nat /\ m[x] \in Nat
      BY <2>5
    <3>2. m[next[x]] < k
      BY <2>5, <3>1
    <3> QED BY <2>4, <3>1, <3>2
  <2>6. \A x \in S : m[x] < k + 1 => g[x] = IF stop[x] THEN last[x] ELSE g[next[x]]
    <3>1. SUFFICES ASSUME NEW x \in S, m[x] < k + 1
                   PROVE  g[x] = IF stop[x] THEN last[x] ELSE g[next[x]]
      OBVIOUS
    <3>2. CASE stop[x]
      BY <2>3, <3>2
    <3>3. CASE ~stop[x]
      BY <2>3, <2>5, <3>1, <3>3
    <3> QED BY <3>2, <3>3
  <2> QED BY <1>1, <2>6
<1>4. most \in N
  BY <1>2, <1>3, NatInduct
<1>5. PICK h : \A x \in S : h[x] = IF stop[x] THEN last[x] ELSE h[next[x]]
  BY <1>1, <1>4
<1>6. PICK g : g = [x \in S |-> IF stop[x] THEN last[x] ELSE h[next[x]]]
  OBVIOUS
<1>7. \A x \in S : g[x] = h[x]
  BY <1>5, <1>6
<1>8. \A x \in S : (IF stop[x] THEN last[x] ELSE h[next[x]]) = (IF stop[x] THEN last[x] ELSE g[next[x]])
  <2>1. \A x \in S : ~stop[x] => h[next[x]] = g[next[x]]
    BY <1>7
  <2> QED BY <2>1
<1>9. g = [x \in S |-> IF stop[x] THEN last[x] ELSE g[next[x]]]
  BY <1>6, <1>8
<1> QED BY <1>9 DEF Arrives

-----------------------------------------------------------------------------
(* Pieces of a text.                                                       *)

\* What a piece of a text holds.
LEMMA PieceOfText ==
  ASSUME NEW t \in Text, NEW a \in Int, NEW b \in Int, a >= 1, b <= Len(t)
  PROVE  /\ SubSeq(t, a, b) \in Text
         /\ Len(SubSeq(t, a, b)) = IF a <= b THEN b - a + 1 ELSE 0
         /\ \A k \in 1..b - a + 1 : SubSeq(t, a, b)[k] = t[a + k - 1]
<1>1. Len(t) \in Nat /\ \A i \in 1..Len(t) : t[i] \in STRING
  BY DEF Text
<1>2. \A i \in a..b : t[i] \in STRING
  BY <1>1
<1> QED BY <1>2, SubSeqProperties DEF Text

\* Texts of one length that agree everywhere are the same.
LEMMA SameText ==
  ASSUME NEW s \in Text, NEW t \in Text, Len(s) = Len(t), \A k \in 1..Len(s) : s[k] = t[k]
  PROVE  s = t
BY SeqEqual DEF Text

\* A piece stands in a text where each of its characters does.
LEMMA AtElements ==
  ASSUME NEW t \in Text, NEW p \in Text, NEW i \in Int
  PROVE  At(t, i, p) <=> /\ i >= 1 /\ i + Len(p) - 1 <= Len(t)
                         /\ \A k \in 1..Len(p) : t[i + k - 1] = p[k]
<1>1. Len(t) \in Nat /\ Len(p) \in Nat
  BY DEF Text
<1>2. ASSUME i >= 1, i + Len(p) - 1 <= Len(t)
      PROVE  SubSeq(t, i, i + Len(p) - 1) = p <=> \A k \in 1..Len(p) : t[i + k - 1] = p[k]
  <2>1. PICK b : b = i + Len(p) - 1
    OBVIOUS
  <2>2. b \in Int /\ b <= Len(t) /\ b - i + 1 = Len(p) /\ (i <= b <=> Len(p) # 0)
    BY <1>1, <1>2, <2>1
  <2>3. PICK s : s = SubSeq(t, i, b)
    OBVIOUS
  <2>4. s \in Text /\ Len(s) = Len(p) /\ \A k \in 1..Len(p) : s[k] = t[i + k - 1]
    BY <1>1, <1>2, <2>2, <2>3, PieceOfText
  <2>5. s = p => \A k \in 1..Len(p) : t[i + k - 1] = p[k]
    BY <2>4
  <2>6. (\A k \in 1..Len(p) : t[i + k - 1] = p[k]) => s = p
    BY <2>4, SameText
  <2> QED BY <2>1, <2>3, <2>5, <2>6
<1> QED BY <1>2 DEF At

\* A piece of a piece is a piece.
LEMMA AtWithin ==
  ASSUME NEW t \in Text, NEW p \in Text, NEW r \in Text, NEW q \in Int, NEW f \in Int,
         At(t, q, p), At(p, f, r)
  PROVE  At(t, q + f - 1, r)
<1>1. Len(t) \in Nat /\ Len(p) \in Nat /\ Len(r) \in Nat
  BY DEF Text
<1>2. /\ q >= 1 /\ q + Len(p) - 1 <= Len(t)
      /\ \A k \in 1..Len(p) : t[q + k - 1] = p[k]
  BY AtElements
<1>3. /\ f >= 1 /\ f + Len(r) - 1 <= Len(p)
      /\ \A k \in 1..Len(r) : p[f + k - 1] = r[k]
  BY AtElements
<1>4. PICK i \in Int : i = q + f - 1
  OBVIOUS
<1>5. i >= 1 /\ i + Len(r) - 1 <= Len(t)
  BY <1>1, <1>2, <1>3, <1>4
<1>6. ASSUME NEW k \in 1..Len(r) PROVE t[i + k - 1] = r[k]
  <2>1. f + k - 1 \in 1..Len(p)
    BY <1>1, <1>3
  <2>2. t[q + (f + k - 1) - 1] = r[k]
    BY <1>2, <1>3, <2>1
  <2>3. q + (f + k - 1) - 1 = i + k - 1
    BY <1>4
  <2> QED BY <2>2, <2>3
<1>7. At(t, i, r)
  BY <1>5, <1>6, AtElements
<1> QED BY <1>4, <1>7

\* What is cut out of a text stands there.
LEMMA PieceStands ==
  ASSUME NEW t \in Text, NEW a \in 1..Len(t) + 1, NEW b \in Int, b <= Len(t)
  PROVE  At(t, a, SubSeq(t, a, b))
<1>1. Len(t) \in Nat
  BY DEF Text
<1>2. PICK s : s = SubSeq(t, a, b)
  OBVIOUS
<1>3. /\ s \in Text /\ Len(s) = IF a <= b THEN b - a + 1 ELSE 0
      /\ \A k \in 1..b - a + 1 : s[k] = t[a + k - 1]
  BY <1>1, <1>2, PieceOfText
<1>4. a \in Int /\ a >= 1 /\ a + Len(s) - 1 <= Len(t)
  BY <1>1, <1>3
<1>5. \A k \in 1..Len(s) : t[a + k - 1] = s[k]
  BY <1>1, <1>3
<1>6. At(t, a, s)
  BY <1>3, <1>4, <1>5, AtElements
<1> QED BY <1>2, <1>6

\* The first character that is not blank.
LEMMA FirstInCases ==
  ASSUME NEW t \in Text, NEW a \in Int, NEW b \in Int, a >= 1
  PROVE  FirstIn(t, a, b) = 0 \/ (FirstIn(t, a, b) \in a..b /\ t[FirstIn(t, a, b)] \notin Blank)
<1>1. PICK T : T = {i \in a..b : t[i] \notin Blank}
  OBVIOUS
<1>2. T \subseteq Nat
  BY <1>1
<1>3. FirstIn(t, a, b) = MinOr(T, 0)
  BY <1>1 DEF FirstIn
<1>4. MinOr(T, 0) = 0 \/ MinOr(T, 0) \in T
  BY <1>2, MinOrCases
<1> QED BY <1>1, <1>3, <1>4

\* The last one.
LEMMA LastInCases ==
  ASSUME NEW t \in Text, NEW b \in Int
  PROVE  LastIn(t, 1, b) = 0 \/ LastIn(t, 1, b) \in 1..b
<1>1. PICK T : T = {i \in 1..b : t[i] \notin Blank}
  OBVIOUS
<1>2. LastIn(t, 1, b) = MaxOr(T, 0)
  BY <1>1 DEF LastIn
<1>3. CASE b >= 0
  <2>1. b \in Nat /\ T \subseteq 1..b
    BY <1>1, <1>3
  <2>2. MaxOr(T, 0) = 0 \/ MaxOr(T, 0) \in T
    BY <2>1, MaxOrCases
  <2> QED BY <1>1, <1>2, <2>2
<1>4. CASE b < 0
  <2>1. T = {}
    BY <1>1, <1>4
  <2> QED BY <1>2, <2>1 DEF MaxOr
<1> QED BY <1>3, <1>4

\* A text that does not begin with a blank.
BeginsAtOnce(s) == s \in Text /\ (s = <<>> \/ s[1] \notin Blank)

\* Its beginnings.
BeginningOf(s, r) == \E k \in 0..Len(s) : r = SubSeq(s, 1, k)

\* A beginning is a text, begins as the text does, and is no longer.
LEMMA BeginningTyped ==
  ASSUME NEW s, NEW r, BeginsAtOnce(s), BeginningOf(s, r)
  PROVE  /\ BeginsAtOnce(r) /\ Len(r) <= Len(s) /\ Len(r) \in Nat /\ Len(s) \in Nat
         /\ \A j \in 1..Len(r) : r[j] = s[j]
<1>1. s \in Text /\ Len(s) \in Nat
  BY DEF BeginsAtOnce, Text
<1>2. PICK k \in 0..Len(s) : r = SubSeq(s, 1, k)
  BY DEF BeginningOf
<1>3. k \in Int /\ 1 \in Int /\ k <= Len(s) /\ (1 <= k <=> k # 0) /\ k - 1 + 1 = k
  BY <1>1
<1>4. r \in Text /\ Len(r) = k /\ \A j \in 1..k : r[j] = s[j]
  <2>1. /\ r \in Text /\ Len(r) = IF 1 <= k THEN k - 1 + 1 ELSE 0
        /\ \A j \in 1..k - 1 + 1 : r[j] = s[1 + j - 1]
    BY <1>1, <1>2, <1>3, PieceOfText
  <2>2. \A j \in 1..k : 1 + j - 1 = j
    BY <1>3
  <2> QED BY <1>3, <2>1, <2>2
<1>5. r = <<>> \/ r[1] \notin Blank
  <2>1. CASE k = 0
    <3>1. Len(r) = 0
      BY <1>4, <2>1
    <3> QED BY <1>4, <3>1 DEF Text
  <2>2. CASE k # 0
    <3>1. 1 \in 1..k /\ Len(s) # 0
      BY <1>1, <1>3, <2>2
    <3>2. s # <<>>
      BY <3>1
    <3> QED BY <1>4, <3>1, <3>2 DEF BeginsAtOnce
  <2> QED BY <2>1, <2>2
<1> QED BY <1>1, <1>3, <1>4, <1>5 DEF BeginsAtOnce

\* A beginning of a beginning is one.
LEMMA BeginningOfBeginning ==
  ASSUME NEW s, NEW r, NEW u, BeginsAtOnce(s), BeginningOf(s, r), BeginningOf(r, u)
  PROVE  BeginningOf(s, u)
<1>1. /\ r \in Text /\ s \in Text /\ Len(r) <= Len(s) /\ Len(r) \in Nat /\ Len(s) \in Nat
      /\ \A j \in 1..Len(r) : r[j] = s[j]
  BY BeginningTyped DEF BeginsAtOnce
<1>2. BeginsAtOnce(r)
  BY BeginningTyped
<1>3. /\ u \in Text /\ Len(u) <= Len(r) /\ Len(u) \in Nat
      /\ \A j \in 1..Len(u) : u[j] = r[j]
  BY <1>2, BeginningTyped DEF BeginsAtOnce
<1>4. PICK k \in Nat : k = Len(u)
  BY <1>3
<1>5. PICK v : v = SubSeq(s, 1, k)
  OBVIOUS
<1>6. v \in Text /\ Len(v) = k /\ \A j \in 1..k : v[j] = s[j]
  <2>1. k \in Int /\ 1 \in Int /\ k <= Len(s) /\ (1 <= k <=> k # 0) /\ k - 1 + 1 = k
    BY <1>1, <1>3, <1>4
  <2>2. /\ v \in Text /\ Len(v) = IF 1 <= k THEN k - 1 + 1 ELSE 0
        /\ \A j \in 1..k - 1 + 1 : v[j] = s[1 + j - 1]
    BY <1>1, <1>5, <2>1, PieceOfText
  <2>3. \A j \in 1..k : 1 + j - 1 = j
    BY <2>1
  <2> QED BY <2>1, <2>2, <2>3
<1>7. \A j \in 1..Len(u) : u[j] = v[j]
  BY <1>1, <1>3, <1>4, <1>6
<1>8. u = v
  BY <1>3, <1>4, <1>6, <1>7, SameText
<1> QED BY <1>1, <1>3, <1>4, <1>5, <1>8 DEF BeginningOf

\* Without the blanks around it, such a text is a beginning of itself.
LEMMA StripBeginning ==
  ASSUME NEW s, BeginsAtOnce(s)
  PROVE  BeginningOf(s, Strip(s))
<1>1. s \in Text /\ Len(s) \in Nat /\ DOMAIN s = 1..Len(s)
  BY DEF BeginsAtOnce, Text
<1>2. PICK T : T = {i \in DOMAIN s : s[i] \notin Blank}
  OBVIOUS
<1>3. MinOr(T, 1) = 1
  <2>1. T \subseteq Nat
    BY <1>1, <1>2
  <2>2. CASE s = <<>>
    <3>1. T = {}
      BY <1>1, <1>2, <2>2
    <3> QED BY <2>1, <3>1, MinOrCases
  <2>3. CASE s # <<>>
    <3>1. 1 \in T
      <4>1. s[1] \notin Blank
        BY <2>3 DEF BeginsAtOnce
      <4>2. 1 \in DOMAIN s
        BY <1>1, <2>3 DEF Text
      <4> QED BY <1>2, <4>1, <4>2
    <3>2. MinOr(T, 1) \in T /\ MinOr(T, 1) <= 1
      BY <2>1, <3>1, MinOrCases
    <3>3. MinOr(T, 1) \in 1..Len(s)
      BY <1>1, <1>2, <3>2
    <3> QED BY <1>1, <3>2, <3>3
  <2> QED BY <2>2, <2>3
<1>4. PICK k : k = LastIn(s, 1, Len(s))
  OBVIOUS
<1>5. k \in 0..Len(s)
  BY <1>1, <1>4, LastInCases
<1>6. Strip(s) = SubSeq(s, 1, k)
  BY <1>2, <1>3, <1>4 DEF Strip
<1> QED BY <1>5, <1>6 DEF BeginningOf

\* And so is what a statement's text is trimmed to.
LEMMA TrimmedBeginning ==
  ASSUME NEW s, BeginsAtOnce(s)
  PROVE  BeginningOf(s, Trimmed(s))
<1>1. PICK u, v, w : u = Strip(s) /\ v = WithoutSemicolon(u) /\ w = Content(v)
  OBVIOUS
<1>2. BeginningOf(s, u) /\ BeginsAtOnce(u)
  BY <1>1, StripBeginning, BeginningTyped
<1>3. BeginningOf(u, v)
  <2>1. u \in Text /\ Len(u) \in Nat
    BY <1>2 DEF BeginsAtOnce, Text
  <2>2. CASE v = u
    <3>1. u = SubSeq(u, 1, Len(u))
      BY <2>1, SubSeqFull DEF Text
    <3>2. Len(u) \in 0..Len(u)
      BY <2>1
    <3> QED BY <2>2, <3>1, <3>2 DEF BeginningOf
  <2>3. CASE v # u
    <3>1. u # <<>> /\ v = Strip(Front(u))
      BY <1>1, <2>3 DEF WithoutSemicolon
    <3>2. Len(u) - 1 \in 0..Len(u)
      BY <2>1, <3>1 DEF Text
    <3>3. BeginningOf(u, Front(u))
      BY <3>2 DEF BeginningOf, Front
    <3>4. BeginsAtOnce(Front(u))
      BY <1>2, <3>3, BeginningTyped
    <3>5. BeginningOf(Front(u), v)
      BY <3>1, <3>4, StripBeginning
    <3> QED BY <1>2, <3>3, <3>5, BeginningOfBeginning
  <2> QED BY <2>2, <2>3
<1>4. BeginsAtOnce(v)
  BY <1>2, <1>3, BeginningTyped
<1>5. BeginningOf(v, w)
  <2>1. v \in Text /\ Len(v) \in Nat
    BY <1>4 DEF BeginsAtOnce, Text
  <2>2. CASE w = v
    <3>1. v = SubSeq(v, 1, Len(v))
      BY <2>1, SubSeqFull DEF Text
    <3>2. Len(v) \in 0..Len(v)
      BY <2>1
    <3> QED BY <2>2, <3>1, <3>2 DEF BeginningOf
  <2>3. CASE w = <<>>
    <3>1. SubSeq(v, 1, 0) = <<>>
      BY SubSeqEmpty
    <3>2. 0 \in 0..Len(v)
      BY <2>1
    <3> QED BY <2>3, <3>1, <3>2 DEF BeginningOf
  <2>4. w = v \/ w = <<>>
    BY <1>1 DEF Content
  <2> QED BY <2>2, <2>3, <2>4
<1>6. BeginningOf(u, w)
  BY <1>2, <1>3, <1>5, BeginningOfBeginning
<1>7. BeginningOf(s, w)
  BY <1>2, <1>6, BeginningOfBeginning
<1> QED BY <1>1, <1>7 DEF Trimmed

\* The statements a text may hold: each stands there at the place it is from.
StatementsIn(t) == {s \in [text : Text, from : 1..Len(t), to : Int] : At(t, s.from, s.text)}

\* A statement cut out of a text from a character that is not blank is one of them.
LEMMA StatementStands ==
  ASSUME NEW t \in Text, NEW i \in 1..Len(t), t[i] \notin Blank, NEW to \in Int, to - 1 <= Len(t)
  PROVE  Statement(t, i, to) \in Seq(StatementsIn(t))
<1>1. Len(t) \in Nat /\ i \in Int /\ i >= 1
  BY DEF Text
<1>2. PICK b \in Int : b = to - 1
  OBVIOUS
<1>3. PICK s, r : s = SubSeq(t, i, b) /\ r = Trimmed(s)
  OBVIOUS
<1>4. /\ s \in Text /\ Len(s) = IF i <= b THEN b - i + 1 ELSE 0
      /\ \A k \in 1..b - i + 1 : s[k] = t[i + k - 1]
  BY <1>1, <1>2, <1>3, PieceOfText
<1>5. BeginsAtOnce(s)
  <2>1. CASE i <= b
    <3>1. 1 \in 1..b - i + 1 /\ i + 1 - 1 = i
      BY <1>1, <1>2, <2>1
    <3>2. s[1] = t[i]
      BY <1>4, <3>1
    <3> QED BY <1>4, <3>2 DEF BeginsAtOnce
  <2>2. CASE ~(i <= b)
    <3>1. Len(s) = 0
      BY <1>4, <2>2
    <3>2. s = <<>>
      BY <1>4, <3>1 DEF Text
    <3> QED BY <1>4, <3>2 DEF BeginsAtOnce
  <2> QED BY <2>1, <2>2
<1>6. BeginningOf(s, r)
  BY <1>3, <1>5, TrimmedBeginning
<1>7. r \in Text /\ Len(r) <= Len(s) /\ Len(r) \in Nat /\ \A j \in 1..Len(r) : r[j] = s[j]
  BY <1>5, <1>6, BeginningTyped DEF BeginsAtOnce
<1>8. At(t, i, s)
  <2>1. i \in 1..Len(t) + 1 /\ b <= Len(t)
    BY <1>1, <1>2
  <2> QED BY <1>3, <2>1, PieceStands
<1>9. At(t, i, r)
  <2>1. i + Len(s) - 1 <= Len(t) /\ Len(s) \in Nat
    BY <1>1, <1>4, <1>8, AtElements DEF Text
  <2>2. i + Len(r) - 1 <= Len(t)
    BY <1>1, <1>7, <2>1
  <2>3. \A k \in 1..Len(s) : t[i + k - 1] = s[k]
    BY <1>1, <1>4, <1>8, AtElements
  <2>4. \A k \in 1..Len(r) : t[i + k - 1] = r[k]
    BY <1>7, <2>1, <2>3
  <2> QED BY <1>1, <1>7, <2>2, <2>4, AtElements
<1>10. Statement(t, i, to) = IF r = <<>> THEN <<>> ELSE <<[text |-> r, from |-> i, to |-> to]>>
  BY <1>2, <1>3 DEF Statement, Kept
<1>11. PICK e : e = [text |-> r, from |-> i, to |-> to]
  OBVIOUS
<1>12. e \in StatementsIn(t)
  BY <1>7, <1>9, <1>11 DEF StatementsIn
<1>13. <<>> \in Seq(StatementsIn(t)) /\ <<e>> \in Seq(StatementsIn(t))
  BY <1>12
<1> QED BY <1>10, <1>11, <1>13

-----------------------------------------------------------------------------
(* What a script is split into.                                            *)

\* A statement ends in the text, and what follows it begins further on.
LEMMA CutAhead ==
  ASSUME NEW t \in Text, NEW i \in 1..Len(t)
  PROVE  /\ Cut(t, i).to \in Int /\ Cut(t, i).to - 1 <= Len(t)
         /\ Cut(t, i).next \in i + 1..Len(t) + 1
<1>1. Len(t) \in Nat /\ i \in Nat /\ i >= 1
  BY DEF Text
<1>2. PICK modes : modes = Scan(SubSeq(t, i, Len(t)), "code", NoClose, TRUE, {"single"}).modes
  OBVIOUS
<1>3. PICK ends, slashes : ends = Semicolons(t, i, modes) /\ slashes = SlashLines(t, i, modes)
  OBVIOUS
<1>4. Cut(t, i) = FirstCut(t, i, ends, slashes)
  BY <1>2, <1>3 DEF Cut, CutIn
<1>5. ends \subseteq i..Len(t)
  BY <1>3 DEF Semicolons
<1>6. slashes \subseteq i + 1..Len(t)
  BY <1>3 DEF SlashLines
<1>7. ends # {} => Min(ends) \in i..Len(t)
  <2>1. ends \subseteq Nat
    BY <1>1, <1>5
  <2> QED BY <1>5, <2>1, MinBelongs
<1>8. slashes # {} => Min(slashes) \in i + 1..Len(t)
  <2>1. slashes \subseteq Nat
    BY <1>1, <1>6
  <2> QED BY <1>6, <2>1, MinBelongs
<1>9. CASE ends \cup slashes = {}
  <2>1. PICK e : e = IF Last(t) = NL THEN 0 ELSE 1
    OBVIOUS
  <2>2. FirstCut(t, i, ends, slashes) = [to |-> Len(t) + e, next |-> Len(t) + 1]
    BY <1>9, <2>1 DEF FirstCut
  <2>3. e \in 0..1
    BY <2>1
  <2>4. Cut(t, i).to = Len(t) + e /\ Cut(t, i).next = Len(t) + 1
    BY <1>4, <2>2
  <2> QED BY <1>1, <2>3, <2>4
<1>10. CASE ends # {} /\ \A j \in slashes : Min(ends) < j
  <2>1. ends \cup slashes # {}
    BY <1>10
  <2>2. FirstCut(t, i, ends, slashes) = [to |-> Min(ends) + 1, next |-> Min(ends) + 1]
    BY <1>10, <2>1 DEF FirstCut
  <2>3. PICK k \in i..Len(t) : k = Min(ends)
    BY <1>7, <1>10
  <2>4. Cut(t, i).to = k + 1 /\ Cut(t, i).next = k + 1
    BY <1>4, <2>2, <2>3
  <2> QED BY <1>1, <2>4
<1>11. CASE ends \cup slashes # {} /\ ~(ends # {} /\ \A j \in slashes : Min(ends) < j)
  <2>1. slashes # {}
    BY <1>11
  <2>2. FirstCut(t, i, ends, slashes) = [to |-> Min(slashes) - 1, next |-> LineEnd(t, Min(slashes))]
    BY <1>11 DEF FirstCut
  <2>3. PICK k \in i + 1..Len(t) : k = Min(slashes)
    BY <1>8, <2>1
  <2>4. Cut(t, i).to = k - 1 /\ Cut(t, i).next = LineEnd(t, k)
    BY <1>4, <2>2, <2>3
  <2>5. LineEnd(t, k) \in k..Len(t) + 1
    <3>1. k \in 1..Len(t) + 1
      BY <1>1, <2>3
    <3> QED BY <3>1, LineEndAfter
  <2> QED BY <1>1, <2>3, <2>4, <2>5
<1> QED BY <1>9, <1>10, <1>11

\* h is the function by which SplitScript is defined.
Splits(t, h) ==
  h = [p \in 1..Len(t) + 2 |->
        LET then(i, cut) == Statement(t, i, cut.to) \o h[cut.next]
            begins(i) == IF i = 0 THEN <<>>
                         ELSE IF t[i] = "/" /\ LineEnd(t, i) = i + 1 THEN h[i + 1] ELSE then(i, Cut(t, i))
        IN  begins(FirstIn(t, p, Len(t)))]

\* Each statement of a script stands in it at the place it is from.
LEMMA SplitScriptStands ==
  ASSUME NEW t \in Text
  PROVE  SplitScript(t) \in Seq(StatementsIn(t))
<1>1. Len(t) \in Nat
  BY DEF Text
<1>2. PICK S, n : S = 1..n /\ n = Len(t) + 2
  OBVIOUS
<1>3. PICK stop : stop = [p \in S |-> FirstIn(t, p, Len(t)) = 0]
  OBVIOUS
<1>4. PICK first : first = [p \in S |-> FirstIn(t, p, Len(t))]
  OBVIOUS
<1>5. PICK skip : skip = [p \in S |-> t[first[p]] = "/" /\ LineEnd(t, first[p]) = first[p] + 1]
  OBVIOUS
<1>6. PICK at : at = [p \in S |-> Statement(t, first[p], Cut(t, first[p]).to)]
  OBVIOUS
<1>7. PICK next : next = [p \in S |-> IF skip[p] THEN first[p] + 1 ELSE Cut(t, first[p]).next]
  OBVIOUS
<1>8. PICK m : m = [p \in S |-> n + 1 - p]
  OBVIOUS
<1>9. n + 1 \in Nat /\ \A p \in S : m[p] \in Nat /\ m[p] < n + 1
  BY <1>1, <1>2, <1>8
<1>10. ASSUME NEW p \in S, ~stop[p]
       PROVE  first[p] \in p..Len(t) /\ first[p] \in 1..Len(t) /\ t[first[p]] \notin Blank
  <2>1. p \in Int /\ p >= 1 /\ Len(t) \in Int
    BY <1>1, <1>2
  <2>2. FirstIn(t, p, Len(t)) = 0 \/ (FirstIn(t, p, Len(t)) \in p..Len(t) /\ t[FirstIn(t, p, Len(t))] \notin Blank)
    BY <2>1, FirstInCases
  <2>3. FirstIn(t, p, Len(t)) # 0 /\ first[p] = FirstIn(t, p, Len(t))
    BY <1>3, <1>4, <1>10
  <2>4. first[p] \in p..Len(t) /\ t[first[p]] \notin Blank
    BY <2>2, <2>3
  <2> QED BY <2>1, <2>4
<1>11. ASSUME NEW p \in S, ~stop[p]
       PROVE  next[p] \in S /\ m[next[p]] < m[p]
  <2>1. PICK i : i = first[p]
    OBVIOUS
  <2>2. i \in p..Len(t) /\ i \in 1..Len(t)
    BY <1>10, <1>11, <2>1
  <2>3. Cut(t, i).next \in i + 1..Len(t) + 1
    BY <2>2, CutAhead
  <2>4. next[p] = IF skip[p] THEN i + 1 ELSE Cut(t, i).next
    BY <1>7, <2>1
  <2>5. next[p] \in i + 1..Len(t) + 1
    BY <1>1, <2>2, <2>3, <2>4
  <2>6. next[p] \in S /\ p < next[p]
    BY <1>1, <1>2, <2>2, <2>5
  <2>7. m[next[p]] = n + 1 - next[p] /\ m[p] = n + 1 - p
    BY <1>8, <2>6
  <2> QED BY <1>1, <1>2, <2>6, <2>7
<1>12. \A p \in S : ~stop[p] => next[p] \in S /\ m[next[p]] < m[p]
  BY <1>11
<1>13. \A p \in S : ~stop[p] /\ ~skip[p] => at[p] \in Seq(StatementsIn(t))
  <2>1. SUFFICES ASSUME NEW p \in S, ~stop[p] PROVE at[p] \in Seq(StatementsIn(t))
    OBVIOUS
  <2>2. PICK i : i = first[p]
    OBVIOUS
  <2>3. i \in 1..Len(t) /\ t[i] \notin Blank
    BY <1>10, <2>1, <2>2
  <2>4. PICK to : to = Cut(t, i).to
    OBVIOUS
  <2>5. to \in Int /\ to - 1 <= Len(t)
    BY <2>3, <2>4, CutAhead
  <2>6. Statement(t, i, to) \in Seq(StatementsIn(t))
    BY <2>3, <2>5, StatementStands
  <2> QED BY <1>6, <2>2, <2>4, <2>6
<1>14. ASSUME NEW h PROVE Splits(t, h) <=> Walks(S, stop, skip, at, next, h)
  <2>1. ASSUME NEW p \in S
        PROVE  (IF stop[p] THEN <<>> ELSE IF skip[p] THEN h[next[p]] ELSE at[p] \o h[next[p]]) =
               (LET then(i, cut) == Statement(t, i, cut.to) \o h[cut.next]
                    begins(i) == IF i = 0 THEN <<>>
                                 ELSE IF t[i] = "/" /\ LineEnd(t, i) = i + 1 THEN h[i + 1] ELSE then(i, Cut(t, i))
                IN  begins(FirstIn(t, p, Len(t))))
    <3>1. PICK i : i = FirstIn(t, p, Len(t))
      OBVIOUS
    <3>2. first[p] = i /\ (stop[p] <=> i = 0)
      BY <1>3, <1>4, <3>1
    <3>3. skip[p] <=> t[i] = "/" /\ LineEnd(t, i) = i + 1
      BY <1>5, <3>2
    <3>4. at[p] = Statement(t, i, Cut(t, i).to) /\ next[p] = IF skip[p] THEN i + 1 ELSE Cut(t, i).next
      BY <1>6, <1>7, <3>2
    <3> QED BY <3>1, <3>2, <3>3, <3>4, Zenon
  <2>2. S = 1..Len(t) + 2
    BY <1>2
  <2> QED BY <2>1, <2>2, Zenon DEF Splits, Walks
<1>15. \E h : Splits(t, h)
  BY <1>9, <1>12, <1>14, WalkExists
<1>16. \E h : Splits(t, h) /\ SplitScript(t) = h[1]
  BY <1>15, Zenon DEF SplitScript, Splits
<1>17. PICK h : Splits(t, h) /\ SplitScript(t) = h[1]
  BY <1>16
<1>18. Walks(S, stop, skip, at, next, h)
  BY <1>14, <1>17
<1>19. \A p \in S : h[p] \in Seq(StatementsIn(t))
  BY <1>9, <1>12, <1>13, <1>18, WalkTyped
<1>20. 1 \in S
  BY <1>1, <1>2
<1> QED BY <1>17, <1>19, <1>20

-----------------------------------------------------------------------------
(* Search.                                                                 *)

\* A text in either case.
Folded(s) == [i \in DOMAIN s |-> Upper(s[i])]

\* It is as long as the text.
LEMMA FoldedTyped ==
  ASSUME NEW s \in Text
  PROVE  Folded(s) \in Text /\ Len(Folded(s)) = Len(s)
<1>1. Len(s) \in Nat /\ DOMAIN s = 1..Len(s) /\ \A i \in 1..Len(s) : s[i] \in STRING
  BY DEF Text
<1>2. \A i \in 1..Len(s) : Upper(s[i]) \in STRING
  <2>1. SUFFICES ASSUME NEW i \in 1..Len(s) PROVE Upper(s[i]) \in STRING
    OBVIOUS
  <2>2. PICK c \in STRING : c = s[i]
    BY <1>1
  <2>3. Upper(c) = "W" \/ Upper(c) = c
    BY DEF Upper
  <2>4. "W" \in STRING
    BY EditorAssumption DEF Written
  <2>5. Upper(c) \in STRING
    BY <2>3, <2>4, Zenon
  <2> QED BY <2>2, <2>5, Zenon
<1>3. PICK n : n = Len(s)
  OBVIOUS
<1>4. Folded(s) = [i \in 1..n |-> Upper(s[i])]
  BY <1>1, <1>3 DEF Folded
<1>5. [i \in 1..n |-> Upper(s[i])] \in Seq(STRING)
  BY <1>1, <1>2, <1>3
<1>6. Len([i \in 1..n |-> Upper(s[i])]) = n
  BY <1>1, <1>3
<1> QED BY <1>3, <1>4, <1>5, <1>6 DEF Text

\* Where something as long as the query may be in the text.
Places(t, query) == {m \in 1..Len(t) : m + Len(query) <= Len(t) + 1}

\* h is the function by which FindSearchMatches is defined.
Searches(t, query, h) ==
  h = [i \in 1..Len(t) + 2 |->
        LET found == Find(Folded(t), Folded(query), i)
        IN  IF found = {} THEN <<>> ELSE <<Min(found)>> \o h[Min(found) + Len(query)]]

\* What is found of a query is in the text.
LEMMA MatchesInText ==
  ASSUME NEW t \in Text, NEW query \in Text \ {<<>>}
  PROVE  FindSearchMatches(t, query) \in Seq(Places(t, query))
<1>1. Len(t) \in Nat /\ Len(query) \in Nat /\ Len(query) >= 1
  BY DEF Text
<1>2. PICK S, n : S = 1..n /\ n = Len(t) + 2
  OBVIOUS
<1>3. PICK found : found = [i \in S |-> Find(Folded(t), Folded(query), i)]
  OBVIOUS
<1>4. PICK stop : stop = [i \in S |-> found[i] = {}]
  OBVIOUS
<1>5. PICK skip : skip = [i \in S |-> FALSE]
  OBVIOUS
<1>6. PICK at : at = [i \in S |-> <<Min(found[i])>>]
  OBVIOUS
<1>7. PICK next : next = [i \in S |-> Min(found[i]) + Len(query)]
  OBVIOUS
<1>8. PICK m : m = [p \in S |-> n + 1 - p]
  OBVIOUS
<1>9. n + 1 \in Nat /\ \A p \in S : m[p] \in Nat /\ m[p] < n + 1
  BY <1>1, <1>2, <1>8
<1>10. ASSUME NEW p \in S, ~stop[p]
       PROVE  Min(found[p]) \in Places(t, query) /\ Min(found[p]) >= p
  <2>1. PICK a, b : a = Folded(t) /\ b = Folded(query)
    OBVIOUS
  <2>2. a \in Text /\ b \in Text /\ Len(a) = Len(t) /\ Len(b) = Len(query)
    BY <2>1, FoldedTyped
  <2>3. found[p] = {j \in p..Len(t) : At(a, j, b)}
    BY <1>3, <2>1, <2>2 DEF Find
  <2>4. p \in Nat /\ p >= 1
    BY <1>1, <1>2
  <2>5. found[p] # {} /\ found[p] \subseteq Nat
    <3>1. stop[p] <=> found[p] = {}
      BY <1>4, Zenon
    <3>2. found[p] \subseteq Nat
      BY <2>3, <2>4
    <3> QED BY <1>10, <3>1, <3>2
  <2>6. PICK j : j = Min(found[p])
    OBVIOUS
  <2>7. j \in found[p]
    BY <2>5, <2>6, MinBelongs
  <2>8. j \in p..Len(t) /\ At(a, j, b)
    BY <2>3, <2>7
  <2>9. j + Len(query) - 1 <= Len(t)
    <3>1. j \in Int
      BY <2>8
    <3> QED BY <2>2, <2>8, <3>1, AtElements
  <2> QED BY <1>1, <2>4, <2>6, <2>8, <2>9 DEF Places
<1>11. \A p \in S : ~stop[p] => next[p] \in S /\ m[next[p]] < m[p]
  <2>1. SUFFICES ASSUME NEW p \in S, ~stop[p] PROVE next[p] \in S /\ m[next[p]] < m[p]
    OBVIOUS
  <2>2. PICK j : j = Min(found[p])
    OBVIOUS
  <2>3. j \in 1..Len(t) /\ j + Len(query) <= Len(t) + 1 /\ j >= p
    BY <1>10, <2>1, <2>2 DEF Places
  <2>4. next[p] = j + Len(query)
    BY <1>7, <2>2
  <2>5. next[p] \in S /\ p < next[p]
    BY <1>1, <1>2, <2>3, <2>4
  <2>6. m[next[p]] = n + 1 - next[p] /\ m[p] = n + 1 - p
    BY <1>8, <2>5
  <2> QED BY <1>1, <1>2, <2>5, <2>6
<1>12. \A p \in S : ~stop[p] /\ ~skip[p] => at[p] \in Seq(Places(t, query))
  BY <1>6, <1>10
<1>13. ASSUME NEW h PROVE Searches(t, query, h) <=> Walks(S, stop, skip, at, next, h)
  <2>1. ASSUME NEW p \in S
        PROVE  (IF stop[p] THEN <<>> ELSE IF skip[p] THEN h[next[p]] ELSE at[p] \o h[next[p]]) =
               (LET f == Find(Folded(t), Folded(query), p)
                IN  IF f = {} THEN <<>> ELSE <<Min(f)>> \o h[Min(f) + Len(query)])
    <3>1. PICK f : f = Find(Folded(t), Folded(query), p)
      OBVIOUS
    <3>2. found[p] = f /\ (stop[p] <=> f = {}) /\ ~skip[p]
      BY <1>3, <1>4, <1>5, <3>1, Zenon
    <3>3. at[p] = <<Min(f)>> /\ next[p] = Min(f) + Len(query)
      BY <1>6, <1>7, <3>2, Zenon
    <3> QED BY <3>1, <3>2, <3>3, Zenon
  <2>2. S = 1..Len(t) + 2
    BY <1>2
  <2> QED BY <2>1, <2>2, Zenon DEF Searches, Walks
<1>14. \E h : Searches(t, query, h)
  BY <1>9, <1>11, <1>13, WalkExists
<1>15. \E h : Searches(t, query, h) /\ FindSearchMatches(t, query) = h[1]
  BY <1>14, Zenon DEF FindSearchMatches, Searches, Folded
<1>16. PICK h : Searches(t, query, h) /\ FindSearchMatches(t, query) = h[1]
  BY <1>15
<1>17. Walks(S, stop, skip, at, next, h)
  BY <1>13, <1>16
<1>18. \A p \in S : h[p] \in Seq(Places(t, query))
  BY <1>9, <1>11, <1>12, <1>17, WalkTyped
<1>19. 1 \in S
  BY <1>1, <1>2
<1> QED BY <1>16, <1>18, <1>19

\* And so is the match that is moved to.
LEMMA SearchMatchInText ==
  ASSUME NEW n \in Nat, NEW P, P \subseteq 1..n, NEW matches \in Seq(P), matches # <<>>,
         NEW b, NEW forward
  PROVE  SearchMatch(b, matches, forward) \in P
<1>1. ToSet(matches) \subseteq P /\ Head(matches) \in P /\ Last(matches) \in P
  BY DEF ToSet, Last
<1>2. PICK i, j : i = Cursor(b) /\ j = SelectionRange(b)[1]
  OBVIOUS
<1>3. PICK T, U : T = {k \in ToSet(matches) : k >= i} /\ U = {k \in ToSet(matches) : k < j}
  OBVIOUS
<1>4. NextMatch(matches, i) \in P
  <2>1. T \subseteq Nat /\ T \subseteq P
    <3>1. T \subseteq P
      BY <1>1, <1>3
    <3>2. P \subseteq Nat
      OBVIOUS
    <3> QED BY <3>1, <3>2
  <2>2. MinOr(T, Head(matches)) = Head(matches) \/ MinOr(T, Head(matches)) \in T
    BY <2>1, MinOrCases
  <2> QED BY <1>1, <1>3, <2>1, <2>2 DEF NextMatch
<1>5. PreviousMatch(matches, j) \in P
  <2>1. U \subseteq 1..n /\ U \subseteq P
    <3>1. U \subseteq P
      BY <1>1, <1>3
    <3> QED BY <3>1
  <2>2. MaxOr(U, Last(matches)) = Last(matches) \/ MaxOr(U, Last(matches)) \in U
    BY <2>1, MaxOrCases
  <2> QED BY <1>1, <1>3, <2>1, <2>2 DEF PreviousMatch
<1> QED BY <1>2, <1>4, <1>5 DEF SearchMatch

-----------------------------------------------------------------------------
(* Preflight.                                                              *)

\* A line that has code has a character that is not blank.
LEMMA CodeIsSomewhere ==
  ASSUME NEW s \in Text, NEW p \in 1..Len(s), CodeOfLine(s, p) # <<>>
  PROVE  FirstIn(s, p, Len(s)) \in p..Len(s)
<1>1. Len(s) \in Nat /\ p \in Int /\ p >= 1
  BY DEF Text
<1>2. PICK e : e = LineEnd(s, p) - 1
  OBVIOUS
<1>3. e \in Int /\ e <= Len(s)
  <2>1. p \in 1..Len(s) + 1
    BY <1>1
  <2>2. LineEnd(s, p) \in p..Len(s) + 1
    BY <2>1, LineEndAfter
  <2> QED BY <1>1, <1>2, <2>2
<1>4. PICK u : u = SubSeq(s, p, e)
  OBVIOUS
<1>5. /\ u \in Text /\ Len(u) = IF p <= e THEN e - p + 1 ELSE 0
      /\ \A k \in 1..e - p + 1 : u[k] = s[p + k - 1]
  BY <1>1, <1>3, <1>4, PieceOfText
<1>6. Strip(u) # <<>>
  BY <1>2, <1>4 DEF CodeOfLine
<1>7. LastIn(u, 1, Len(u)) # 0
  <2>1. SUFFICES ASSUME LastIn(u, 1, Len(u)) = 0 PROVE FALSE
    OBVIOUS
  <2>2. PICK T : T = {i \in DOMAIN u : u[i] \notin Blank}
    OBVIOUS
  <2>3. T \subseteq Nat /\ DOMAIN u = 1..Len(u)
    BY <1>5, <2>2 DEF Text
  <2>4. MinOr(T, 1) = 1 \/ MinOr(T, 1) \in T
    BY <2>3, MinOrCases
  <2>5. MinOr(T, 1) \in Int /\ 0 < MinOr(T, 1)
    BY <2>2, <2>3, <2>4
  <2>6. SubSeq(u, MinOr(T, 1), 0) = <<>>
    BY <2>5, SubSeqEmpty
  <2> QED BY <1>6, <2>1, <2>2, <2>6 DEF Strip
<1>8. PICK j \in 1..Len(u) : u[j] \notin Blank
  <2>1. PICK T : T = {i \in 1..Len(u) : u[i] \notin Blank}
    OBVIOUS
  <2>2. LastIn(u, 1, Len(u)) = MaxOr(T, 0)
    BY <2>1 DEF LastIn
  <2>3. T # {}
    BY <1>7, <2>2 DEF MaxOr
  <2> QED BY <2>1, <2>3
<1>9. j \in 1..e - p + 1 /\ p + j - 1 \in p..Len(s) /\ s[p + j - 1] \notin Blank
  <2>1. j \in 1..e - p + 1
    BY <1>1, <1>3, <1>5, <1>8
  <2>2. u[j] = s[p + j - 1]
    BY <1>5, <2>1
  <2> QED BY <1>1, <1>3, <1>8, <2>1, <2>2
<1>10. PICK T : T = {i \in p..Len(s) : s[i] \notin Blank}
  OBVIOUS
<1>11. T \subseteq Nat /\ T # {}
  BY <1>1, <1>9, <1>10
<1>12. FirstIn(s, p, Len(s)) = MinOr(T, 0)
  BY <1>10 DEF FirstIn
<1>13. MinOr(T, 0) \in T
  BY <1>11, MinOrCases
<1> QED BY <1>10, <1>12, <1>13

\* A text with blanks for some of it.
LEMMA CoveredTyped ==
  ASSUME NEW t \in Text, NEW kinds, NEW noncode
  PROVE  Covered(t, kinds, noncode) \in Text /\ Len(Covered(t, kinds, noncode)) = Len(t)
<1>1. Len(t) \in Nat /\ DOMAIN t = 1..Len(t) /\ \A i \in 1..Len(t) : t[i] \in STRING
  BY DEF Text
<1>2. PICK n : n = Len(t)
  OBVIOUS
<1>3. PICK c : c = [i \in 1..n |-> IF kinds[i] \in noncode /\ t[i] # NL THEN " " ELSE t[i]]
  OBVIOUS
<1>4. Covered(t, kinds, noncode) = c
  BY <1>1, <1>2, <1>3 DEF Covered
<1>5. " " \in STRING
  BY EditorAssumption DEF Written
<1>6. \A i \in 1..n : c[i] \in STRING
  BY <1>1, <1>2, <1>3, <1>5
<1>7. c \in [1..n -> STRING] /\ DOMAIN c = 1..n
  <2>1. c = [i \in 1..n |-> c[i]]
    BY <1>3
  <2> QED BY <1>3, <1>6, <2>1
<1>8. c \in Seq(STRING) /\ Len(c) = n
  BY <1>1, <1>2, <1>7
<1> QED BY <1>2, <1>4, <1>8 DEF Text

\* The way of h ends in what is wanted, when it does not leave some of the elements.
LEMMA ArrivalTyped ==
  ASSUME NEW S, NEW stop, NEW last, NEW next, NEW m, NEW E, NEW I \in SUBSET S, NEW h,
         Arrives(S, stop, last, next, h),
         \A x \in I : m[x] \in Nat,
         \A x \in I : stop[x] => last[x] \in E,
         \A x \in I : ~stop[x] => next[x] \in I /\ m[next[x]] < m[x]
  PROVE  \A x \in I : h[x] \in E
<1>1. PICK G : G = {x \in I : h[x] \in E}
  OBVIOUS
<1>2. \A x \in S : h[x] = IF stop[x] THEN last[x] ELSE h[next[x]]
  <2>1. PICK g : g = [y \in S |-> IF stop[y] THEN last[y] ELSE h[next[y]]]
    OBVIOUS
  <2>2. g = h
    BY <2>1, Zenon DEF Arrives
  <2>3. \A x \in S : g[x] = IF stop[x] THEN last[x] ELSE h[next[x]]
    BY <2>1
  <2> QED BY <2>2, <2>3, Zenon
<1>3. ASSUME NEW x \in I, \A y \in I : m[y] < m[x] => y \in G PROVE x \in G
  <2>1. x \in S
    OBVIOUS
  <2>2. CASE stop[x]
    BY <1>1, <1>2, <2>1, <2>2
  <2>3. CASE ~stop[x]
    <3>1. next[x] \in G
      BY <1>3, <2>3
    <3> QED BY <1>1, <1>2, <2>1, <2>3, <3>1
  <2> QED BY <2>2, <2>3
<1>4. \A x \in I : x \in G
  BY <1>3, MeasureInduct
<1> QED BY <1>1, <1>4

\* What h gathers is of what stands at the elements.
LEMMA GatheringTyped ==
  ASSUME NEW S, NEW stop, NEW at, NEW next, NEW m, NEW E, NEW h,
         Gathers(S, stop, at, next, h),
         \A x \in S : m[x] \in Nat,
         \A x \in S : ~stop[x] => at[x] \subseteq E,
         \A x \in S : ~stop[x] => next[x] \in S /\ m[next[x]] < m[x]
  PROVE  \A x \in S : h[x] \subseteq E
<1>1. PICK G : G = {x \in S : h[x] \subseteq E}
  OBVIOUS
<1>2. \A x \in S : h[x] = IF stop[x] THEN {} ELSE at[x] \cup h[next[x]]
  <2>1. PICK g : g = [y \in S |-> IF stop[y] THEN {} ELSE at[y] \cup h[next[y]]]
    OBVIOUS
  <2>2. g = h
    BY <2>1, Zenon DEF Gathers
  <2>3. \A x \in S : g[x] = IF stop[x] THEN {} ELSE at[x] \cup h[next[x]]
    BY <2>1, Zenon
  <2> QED BY <2>2, <2>3, Zenon
<1>3. ASSUME NEW x \in S, \A y \in S : m[y] < m[x] => y \in G PROVE x \in G
  <2>1. CASE stop[x]
    <3>1. h[x] = {}
      BY <1>2, <2>1, Zenon
    <3> QED BY <1>1, <3>1
  <2>2. CASE ~stop[x]
    <3>1. next[x] \in G
      BY <1>3, <2>2
    <3>2. h[next[x]] \subseteq E /\ at[x] \subseteq E
      BY <1>1, <2>2, <3>1
    <3>3. h[x] = at[x] \cup h[next[x]]
      BY <1>2, <2>2, Zenon
    <3>4. h[x] \subseteq E
      BY <3>2, <3>3
    <3> QED BY <1>1, <3>4
  <2> QED BY <2>1, <2>2
<1>4. \A x \in S : x \in G
  BY <1>3, MeasureInduct
<1> QED BY <1>1, <1>4

\* No line ends far behind the text.
LEMMA LineEndBound ==
  ASSUME NEW t \in Text, NEW p \in Nat
  PROVE  LineEnd(t, p) \in Int /\ LineEnd(t, p) <= Len(t) + 1
<1>1. PICK T : T = {j \in p..Len(t) : t[j] = NL}
  OBVIOUS
<1>2. Len(t) \in Nat /\ T \subseteq Nat
  BY <1>1 DEF Text
<1>3. LineEnd(t, p) = MinOr(T, Len(t) + 1)
  BY <1>1 DEF LineEnd
<1>4. MinOr(T, Len(t) + 1) = Len(t) + 1 \/ MinOr(T, Len(t) + 1) \in T
  BY <1>2, MinOrCases
<1> QED BY <1>1, <1>2, <1>3, <1>4

\* h is the function by which OpenAfter is defined.
OpensBy(t, masked, h) ==
  h = [x \in Nat \X Nat |->
        LET goesOn(rest, next) == IF rest = 0 THEN 0 ELSE h[<<rest, next>>]
            behind(ends) == IF ends = {} THEN x[1]
                            ELSE goesOn(FirstIn(masked, Min(ends) + 1, LineEnd(t, x[2]) - 1), Min(ends) + 1)
        IN  behind({j \in x[2]..LineEnd(t, x[2]) - 1 : masked[j] = ";" /\ Terminates(t, x[1], j)})]

\* What is open after a line is a statement of the text, or none is.
LEMMA OpenAfterTyped ==
  ASSUME NEW t \in Text, NEW masked \in Text, Len(masked) = Len(t),
         NEW line \in 1..Len(t), NEW begun \in 1..Len(t)
  PROVE  OpenAfter(t, masked, line, begun) \in 0..Len(t)
<1>1. Len(t) \in Nat
  BY DEF Text
<1>2. PICK S, n : S = Nat \X Nat /\ n = Len(t)
  OBVIOUS
<1>3. PICK ends : ends = [x \in S |-> {j \in x[2]..LineEnd(t, x[2]) - 1 : masked[j] = ";" /\ Terminates(t, x[1], j)}]
  OBVIOUS
<1>4. PICK rest : rest = [x \in S |-> FirstIn(masked, Min(ends[x]) + 1, LineEnd(t, x[2]) - 1)]
  OBVIOUS
<1>5. PICK stop : stop = [x \in S |-> ends[x] = {} \/ rest[x] = 0]
  OBVIOUS
<1>6. PICK last : last = [x \in S |-> IF ends[x] = {} THEN x[1] ELSE 0]
  OBVIOUS
<1>7. PICK next : next = [x \in S |-> <<rest[x], Min(ends[x]) + 1>>]
  OBVIOUS
<1>8. PICK m : m = [x \in S |-> IF x[2] > n + 1 THEN 0 ELSE n + 2 - x[2]]
  OBVIOUS
<1>9. PICK I : I = {x \in S : x[1] \in 0..n}
  OBVIOUS
<1>10. \A x \in S : x[1] \in Nat /\ x[2] \in Nat /\ x = <<x[1], x[2]>>
  BY <1>2
<1>11. n + 3 \in Nat /\ \A x \in S : m[x] \in Nat /\ m[x] < n + 3
  BY <1>1, <1>2, <1>8, <1>10
<1>12. ASSUME NEW x \in S, ~stop[x] PROVE next[x] \in I /\ m[next[x]] < m[x]
  <2>1. PICK p, e : p = x[2] /\ e = LineEnd(t, p) - 1
    OBVIOUS
  <2>2. p \in Nat /\ e \in Int /\ e <= n
    <3>1. p \in Nat
      BY <1>10, <2>1
    <3>2. LineEnd(t, p) \in Int /\ LineEnd(t, p) <= Len(t) + 1
      BY <3>1, LineEndBound
    <3> QED BY <1>1, <1>2, <2>1, <3>1, <3>2
  <2>3. ends[x] # {} /\ rest[x] # 0
    BY <1>5, <1>12, Zenon
  <2>4. ends[x] \subseteq p..e
    BY <1>3, <2>1
  <2>5. PICK j : j = Min(ends[x])
    OBVIOUS
  <2>6. j \in p..e
    <3>1. ends[x] \subseteq Nat
      BY <2>2, <2>4
    <3>2. j \in ends[x]
      BY <2>3, <2>5, <3>1, MinBelongs
    <3> QED BY <2>4, <3>2
  <2>7. PICK r : r = FirstIn(masked, j + 1, e)
    OBVIOUS
  <2>8. r = rest[x] /\ next[x] = <<r, j + 1>>
    BY <1>4, <1>7, <2>1, <2>5, <2>7
  <2>9. r \in j + 1..e
    <3>1. j + 1 \in Int /\ j + 1 >= 1 /\ e \in Int
      BY <2>2, <2>6
    <3>2. r = 0 \/ r \in j + 1..e
      BY <2>7, <3>1, FirstInCases
    <3> QED BY <2>3, <2>8, <3>2
  <2>10. r \in 0..n /\ r \in Nat /\ j + 1 \in Nat
    BY <1>1, <1>2, <2>2, <2>6, <2>9
  <2>11. PICK y : y = <<r, j + 1>>
    OBVIOUS
  <2>12. y \in S /\ y[1] = r /\ y[2] = j + 1
    BY <1>2, <2>10, <2>11
  <2>13. y \in I
    BY <1>9, <2>10, <2>12
  <2>14. m[y] = n + 2 - (j + 1) /\ m[x] = n + 2 - p
    BY <1>1, <1>2, <1>8, <2>1, <2>2, <2>6, <2>12
  <2>15. m[y] < m[x]
    BY <1>1, <1>2, <2>2, <2>6, <2>14
  <2> QED BY <2>8, <2>11, <2>13, <2>15
<1>13. I \subseteq S
  BY <1>9
<1>14. \A x \in S : ~stop[x] => next[x] \in S /\ m[next[x]] < m[x]
  BY <1>12, <1>13
<1>15. ASSUME NEW x \in I PROVE last[x] \in 0..n
  <2>1. x \in S /\ x[1] \in 0..n
    BY <1>9
  <2>2. last[x] = x[1] \/ last[x] = 0
    BY <1>6, <2>1
  <2> QED BY <1>1, <1>2, <2>1, <2>2
<1>16. ASSUME NEW h PROVE OpensBy(t, masked, h) <=> Arrives(S, stop, last, next, h)
  <2>1. ASSUME NEW x \in S
        PROVE  (IF stop[x] THEN last[x] ELSE h[next[x]]) =
               (LET goesOn(r, k) == IF r = 0 THEN 0 ELSE h[<<r, k>>]
                    behind(f) == IF f = {} THEN x[1]
                                 ELSE goesOn(FirstIn(masked, Min(f) + 1, LineEnd(t, x[2]) - 1), Min(f) + 1)
                IN  behind({j \in x[2]..LineEnd(t, x[2]) - 1 : masked[j] = ";" /\ Terminates(t, x[1], j)}))
    <3>1. PICK f : f = {j \in x[2]..LineEnd(t, x[2]) - 1 : masked[j] = ";" /\ Terminates(t, x[1], j)}
      OBVIOUS
    <3>2. PICK r : r = FirstIn(masked, Min(f) + 1, LineEnd(t, x[2]) - 1)
      OBVIOUS
    <3>3. ends[x] = f
      BY <1>3, <3>1, Zenon
    <3>4. rest[x] = r
      BY <1>4, <3>2, <3>3, Zenon
    <3>5. (stop[x] <=> f = {} \/ r = 0) /\ last[x] = IF f = {} THEN x[1] ELSE 0
      BY <1>5, <1>6, <3>3, <3>4, Zenon
    <3>6. next[x] = <<r, Min(f) + 1>>
      BY <1>7, <3>3, <3>4, Zenon
    <3>7. (IF stop[x] THEN last[x] ELSE h[next[x]]) =
          IF f = {} THEN x[1] ELSE IF r = 0 THEN 0 ELSE h[<<r, Min(f) + 1>>]
      BY <3>5, <3>6, Zenon
    <3> QED BY <3>1, <3>2, <3>7, Zenon
  <2> QED BY <1>2, <2>1, Zenon DEF OpensBy, Arrives
<1>17. \E h : OpensBy(t, masked, h)
  BY <1>11, <1>14, <1>16, ArrivalExists
<1>18. \E h : OpensBy(t, masked, h) /\ OpenAfter(t, masked, line, begun) = h[<<begun, line>>]
  BY <1>17, Zenon DEF OpenAfter, OpensBy
<1>19. PICK h : OpensBy(t, masked, h) /\ OpenAfter(t, masked, line, begun) = h[<<begun, line>>]
  BY <1>18
<1>20. Arrives(S, stop, last, next, h)
  BY <1>16, <1>19
<1>21. \A x \in I : h[x] \in 0..n
  <2>1. PICK E : E = 0..n
    OBVIOUS
  <2>2. \A x \in I : m[x] \in Nat
    BY <1>11, <1>13
  <2>3. \A x \in I : stop[x] => last[x] \in E
    BY <1>15, <2>1
  <2>4. \A x \in I : ~stop[x] => next[x] \in I /\ m[next[x]] < m[x]
    BY <1>12, <1>13
  <2>5. \A x \in I : h[x] \in E
    BY <1>13, <1>20, <2>2, <2>3, <2>4, ArrivalTyped
  <2> QED BY <2>1, <2>5
<1>22. <<begun, line>> \in I
  BY <1>1, <1>2, <1>9
<1> QED BY <1>2, <1>19, <1>21, <1>22

\* h is the function by which DirectivesIn is defined.
Directs(t, masked, h) ==
  h = [x \in (1..Len(t) + 2) \X (0..Len(t)) |->
        LET line(code) == (IF IsDirective(t, code, x[1], x[2]) THEN {FirstIn(masked, x[1], Len(t))} ELSE {})
                            \cup h[<<LineEnd(t, x[1]) + 1, LeftOpen(t, masked, code, x[1], x[2])>>]
        IN  IF x[1] > Len(t) THEN {} ELSE line(CodeOfLine(masked, x[1]))]

\* What is left open by a line is a statement of the text, or none is.
LEMMA LeftOpenTyped ==
  ASSUME NEW t \in Text, NEW masked \in Text, Len(masked) = Len(t),
         NEW p \in 1..Len(t), NEW start \in 0..Len(t), NEW code, code = CodeOfLine(masked, p)
  PROVE  LeftOpen(t, masked, code, p, start) \in 0..Len(t)
<1>1. Len(t) \in Nat
  BY DEF Text
<1>2. CASE code = <<"/">> \/ (code = <<>> /\ start = 0) \/ IsDirective(t, code, p, start)
  <2>1. LeftOpen(t, masked, code, p, start) = 0
    BY <1>2, Zenon DEF LeftOpen
  <2> QED BY <1>1, <2>1
<1>3. CASE ~(code = <<"/">> \/ (code = <<>> /\ start = 0) \/ IsDirective(t, code, p, start))
  <2>1. PICK a, b : /\ a = IF start = 0 THEN FirstIn(masked, p, Len(t)) ELSE p
                    /\ b = IF start = 0 THEN FirstIn(masked, p, Len(t)) ELSE start
    OBVIOUS
  <2>2. LeftOpen(t, masked, code, p, start) = OpenAfter(t, masked, a, b)
    BY <1>3, <2>1, Zenon DEF LeftOpen
  <2>3. start = 0 => FirstIn(masked, p, Len(t)) \in 1..Len(t)
    <3>1. SUFFICES ASSUME start = 0 PROVE FirstIn(masked, p, Len(t)) \in 1..Len(t)
      OBVIOUS
    <3>2. code # <<>>
      BY <1>3, <3>1, Zenon
    <3>3. FirstIn(masked, p, Len(masked)) \in p..Len(masked)
      BY <3>2, CodeIsSomewhere
    <3> QED BY <1>1, <3>3
  <2>4. a \in 1..Len(t) /\ b \in 1..Len(t)
    <3>1. CASE start = 0
      BY <2>1, <2>3, <3>1
    <3>2. CASE start # 0
      BY <1>1, <2>1, <3>2
    <3> QED BY <3>1, <3>2
  <2>5. OpenAfter(t, masked, a, b) \in 0..Len(t)
    BY <2>4, OpenAfterTyped
  <2> QED BY <2>2, <2>5
<1> QED BY <1>2, <1>3

\* What a directive is said to stand at is in the text.
LEMMA DirectivesInText ==
  ASSUME NEW t \in Text, NEW masked \in Text, Len(masked) = Len(t)
  PROVE  DirectivesIn(t, masked) \subseteq 1..Len(t)
<1>1. Len(t) \in Nat
  BY DEF Text
<1>2. PICK S, n : S = (1..n + 2) \X (0..n) /\ n = Len(t)
  OBVIOUS
<1>3. PICK code : code = [x \in S |-> CodeOfLine(masked, x[1])]
  OBVIOUS
<1>4. PICK stop : stop = [x \in S |-> x[1] > n]
  OBVIOUS
<1>5. PICK at : at = [x \in S |-> IF IsDirective(t, code[x], x[1], x[2]) THEN {FirstIn(masked, x[1], n)} ELSE {}]
  OBVIOUS
<1>6. PICK next : next = [x \in S |-> <<LineEnd(t, x[1]) + 1, LeftOpen(t, masked, code[x], x[1], x[2])>>]
  OBVIOUS
<1>7. PICK m : m = [x \in S |-> n + 3 - x[1]]
  OBVIOUS
<1>8. \A x \in S : x[1] \in 1..n + 2 /\ x[2] \in 0..n
  BY <1>2
<1>9. n + 3 \in Nat /\ \A x \in S : m[x] \in Nat /\ m[x] < n + 3
  BY <1>1, <1>2, <1>7, <1>8
<1>10. ASSUME NEW x \in S, ~stop[x]
       PROVE  /\ x[1] \in 1..Len(t) /\ x[2] \in 0..Len(t) /\ code[x] = CodeOfLine(masked, x[1])
  <2>1. stop[x] <=> x[1] > n
    BY <1>4
  <2>2. x[1] \in 1..n + 2 /\ x[2] \in 0..n
    BY <1>8
  <2> QED BY <1>1, <1>2, <1>3, <1>10, <2>1, <2>2
<1>11. \A x \in S : ~stop[x] => next[x] \in S /\ m[next[x]] < m[x]
  <2>1. SUFFICES ASSUME NEW x \in S, ~stop[x] PROVE next[x] \in S /\ m[next[x]] < m[x]
    OBVIOUS
  <2>2. PICK p, start, c : p = x[1] /\ start = x[2] /\ c = code[x]
    OBVIOUS
  <2>3. p \in 1..Len(t) /\ start \in 0..Len(t) /\ c = CodeOfLine(masked, p)
    BY <1>10, <2>1, <2>2
  <2>4. PICK e, l : e = LineEnd(t, p) + 1 /\ l = LeftOpen(t, masked, c, p, start)
    OBVIOUS
  <2>5. l \in 0..Len(t)
    BY <2>3, <2>4, LeftOpenTyped
  <2>6. e \in p + 1..Len(t) + 2
    <3>1. p \in 1..Len(t) + 1
      BY <1>1, <2>3
    <3>2. LineEnd(t, p) \in p..Len(t) + 1
      BY <3>1, LineEndAfter
    <3> QED BY <1>1, <2>4, <3>1, <3>2
  <2>7. next[x] = <<e, l>>
    BY <1>6, <2>2, <2>4
  <2>8. PICK y : y = <<e, l>>
    OBVIOUS
  <2>9. y \in S /\ y[1] = e
    BY <1>1, <1>2, <2>3, <2>5, <2>6, <2>8
  <2>10. m[y] = n + 3 - e /\ m[x] = n + 3 - p
    BY <1>7, <2>2, <2>9
  <2>11. m[y] < m[x]
    BY <1>1, <1>2, <2>3, <2>6, <2>10
  <2> QED BY <2>7, <2>8, <2>9, <2>11
<1>12. \A x \in S : ~stop[x] => at[x] \subseteq 1..n
  <2>1. SUFFICES ASSUME NEW x \in S, ~stop[x] PROVE at[x] \subseteq 1..n
    OBVIOUS
  <2>2. PICK p, c : p = x[1] /\ c = code[x]
    OBVIOUS
  <2>3. p \in 1..Len(t) /\ c = CodeOfLine(masked, p)
    BY <1>10, <2>1, <2>2
  <2>4. CASE IsDirective(t, c, p, x[2])
    <3>1. c # <<>>
      <4>1. <<"/">> # <<>>
        OBVIOUS
      <4> QED BY <2>4, <4>1, Zenon DEF IsDirective
    <3>2. FirstIn(masked, p, Len(masked)) \in p..Len(masked)
      BY <2>3, <3>1, CodeIsSomewhere
    <3>3. FirstIn(masked, p, n) \in 1..n
      BY <1>1, <1>2, <2>3, <3>2
    <3>4. at[x] = {FirstIn(masked, p, n)}
      BY <1>5, <2>2, <2>4, Zenon
    <3> QED BY <3>3, <3>4
  <2>5. CASE ~IsDirective(t, c, p, x[2])
    <3>1. at[x] = {}
      BY <1>5, <2>2, <2>5, Zenon
    <3> QED BY <3>1
  <2> QED BY <2>4, <2>5
<1>13. ASSUME NEW h PROVE Directs(t, masked, h) <=> Gathers(S, stop, at, next, h)
  <2>1. ASSUME NEW x \in S
        PROVE  (IF stop[x] THEN {} ELSE at[x] \cup h[next[x]]) =
               (LET line(c) == (IF IsDirective(t, c, x[1], x[2]) THEN {FirstIn(masked, x[1], Len(t))} ELSE {})
                                 \cup h[<<LineEnd(t, x[1]) + 1, LeftOpen(t, masked, c, x[1], x[2])>>]
                IN  IF x[1] > Len(t) THEN {} ELSE line(CodeOfLine(masked, x[1])))
    <3>1. PICK c : c = CodeOfLine(masked, x[1])
      OBVIOUS
    <3>2. code[x] = c
      BY <1>3, <3>1, Zenon
    <3>3. stop[x] <=> x[1] > Len(t)
      BY <1>2, <1>4, Zenon
    <3>4. at[x] = IF IsDirective(t, c, x[1], x[2]) THEN {FirstIn(masked, x[1], Len(t))} ELSE {}
      BY <1>2, <1>5, <3>2, Zenon
    <3>5. next[x] = <<LineEnd(t, x[1]) + 1, LeftOpen(t, masked, c, x[1], x[2])>>
      BY <1>6, <3>2, Zenon
    <3> QED BY <3>1, <3>3, <3>4, <3>5, Zenon
  <2>2. S = (1..Len(t) + 2) \X (0..Len(t))
    BY <1>2, Zenon
  <2> QED BY <2>1, <2>2, Zenon DEF Directs, Gathers
<1>14. \E h : Directs(t, masked, h)
  BY <1>9, <1>11, <1>13, GatheringExists
<1>15. \E h : Directs(t, masked, h) /\ DirectivesIn(t, masked) = h[<<1, 0>>]
  BY <1>14, Zenon DEF DirectivesIn, Directs
<1>16. PICK h : Directs(t, masked, h) /\ DirectivesIn(t, masked) = h[<<1, 0>>]
  BY <1>15
<1>17. Gathers(S, stop, at, next, h)
  BY <1>13, <1>16
<1>18. \A x \in S : h[x] \subseteq 1..n
  <2>1. PICK E : E = 1..n
    OBVIOUS
  <2>2. \A x \in S : m[x] \in Nat
    BY <1>9
  <2>3. \A x \in S : ~stop[x] => at[x] \subseteq E
    BY <1>12, <2>1
  <2>4. \A x \in S : h[x] \subseteq E
    BY <1>11, <1>17, <2>2, <2>3, GatheringTyped
  <2> QED BY <2>1, <2>4
<1>19. <<1, 0>> \in S
  BY <1>1, <1>2
<1> QED BY <1>2, <1>16, <1>18, <1>19

\* Preflight complains about places of the text.
LEMMA PreflightInText ==
  ASSUME NEW t \in Text
  PROVE  PreflightScript(t) \subseteq 1..Len(t)
<1>1. Len(t) \in Nat
  BY DEF Text
<1>2. DirectivePreflightIssues(t) \subseteq 1..Len(t)
  <2>1. PICK masked : masked = MaskSqlNoncode(t, TRUE)
    OBVIOUS
  <2>2. masked \in Text /\ Len(masked) = Len(t)
    BY <2>1, CoveredTyped DEF MaskSqlNoncode
  <2>3. DirectivesIn(t, masked) \subseteq 1..Len(t)
    BY <2>2, DirectivesInText
  <2> QED BY <2>1, <2>3 DEF DirectivePreflightIssues
<1>3. Substitutions(t) \subseteq 1..Len(t)
  <2>1. PICK masked : masked = MaskSqlNoncode(t, FALSE)
    OBVIOUS
  <2>2. PICK last : last = {i \in 1..Len(t) - 1 : masked[i] = "&" /\ (IsWord(masked[i + 1]) \/ masked[i + 1] = "\"")}
    OBVIOUS
  <2>3. Substitutions(t) = {IF i > 1 /\ masked[i - 1] = "&" THEN i - 1 ELSE i : i \in last}
    BY <2>1, <2>2, Zenon DEF Substitutions
  <2>4. \A i \in last : i \in 1..Len(t) /\ (i > 1 => i - 1 \in 1..Len(t))
    <3>1. last \subseteq 1..Len(t) - 1
      BY <2>2
    <3> QED BY <1>1, <3>1
  <2>5. \A i \in last : (IF i > 1 /\ masked[i - 1] = "&" THEN i - 1 ELSE i) \in 1..Len(t)
    BY <2>4
  <2> QED BY <2>3, <2>5
<1> QED BY <1>2, <1>3 DEF PreflightScript

-----------------------------------------------------------------------------
(* Where a piece of a text stands, as a place.                             *)

\* Line and column of the first position, and how they go on.
LEMMA FirstPosition ==
  ASSUME NEW t \in Text
  PROVE  Line(t, 1) = 1 /\ Col(t, 1) = 0
<1>1. PICK B : B = NewlinesBefore(t, 1)
  OBVIOUS
<1>2. B = {}
  BY <1>1 DEF NewlinesBefore
<1>3. Line(t, 1) = 1
  <2>1. Cardinality(B) = 0
    BY <1>2, FS_EmptySet
  <2> QED BY <1>1, <2>1 DEF Line, NewlinesBefore
<1>4. LineStart(t, 1) = 1
  BY <1>1, <1>2 DEF LineStart, NewlinesBefore, MaxOr
<1> QED BY <1>3, <1>4 DEF Col

\* From one position to the next.
LEMMA NextPosition ==
  ASSUME NEW t \in Text, NEW i \in 1..Len(t)
  PROVE  /\ Line(t, i) \in Nat /\ Line(t, i) >= 1 /\ Col(t, i) \in Int
         /\ Line(t, i + 1) = IF t[i] = NL THEN Line(t, i) + 1 ELSE Line(t, i)
         /\ Col(t, i + 1) = IF t[i] = NL THEN 0 ELSE Col(t, i) + 1
<1>1. Len(t) \in Nat /\ i \in Nat /\ i \in 1..Len(t) + 1 /\ i + 1 \in 1..Len(t) + 1
  BY DEF Text
<1>2. PICK A, B : A = NewlinesBefore(t, i) /\ B = NewlinesBefore(t, i + 1)
  OBVIOUS
<1>3. A \subseteq Newlines(t) /\ IsFiniteSet(A) /\ Cardinality(A) \in Nat
  <2>1. A \subseteq Newlines(t)
    BY <1>1, <1>2 DEF NewlinesBefore, Newlines
  <2> QED BY <2>1, NewlinesFinite
<1>4. Line(t, i) = Cardinality(A) + 1 /\ Line(t, i + 1) = Cardinality(B) + 1
  <2>1. i + 1 - 1 = i
    BY <1>1
  <2> QED BY <1>2 DEF Line, NewlinesBefore
<1>5. LineStart(t, i) = MaxOr(A, 0) + 1 /\ LineStart(t, i + 1) = MaxOr(B, 0) + 1
  BY <1>2 DEF LineStart, NewlinesBefore
<1>6. LineStart(t, i) \in 1..i
  BY <1>1, PositionPlace
<1>7. CASE t[i] = NL
  <2>1. B = A \cup {i} /\ i \notin A
    BY <1>1, <1>2, <1>7 DEF NewlinesBefore
  <2>2. Cardinality(B) = Cardinality(A) + 1
    BY <1>3, <2>1, FS_AddElement
  <2>3. MaxOr(B, 0) = i
    <3>1. B # {} /\ B \subseteq 1..i /\ i \in B
      BY <1>1, <1>2, <2>1 DEF NewlinesBefore
    <3>2. MaxOr(B, 0) \in B /\ \A y \in B : y <= MaxOr(B, 0)
      BY <1>1, <3>1, MaxOrCases
    <3>3. MaxOr(B, 0) \in 1..i /\ i <= MaxOr(B, 0)
      BY <3>1, <3>2
    <3> QED BY <1>1, <3>3
  <2>4. LineStart(t, i + 1) = i + 1
    BY <1>5, <2>3
  <2> QED BY <1>1, <1>3, <1>4, <1>6, <1>7, <2>2, <2>4 DEF Col
<1>8. CASE t[i] # NL
  <2>1. B = A
    BY <1>1, <1>2, <1>8 DEF NewlinesBefore
  <2> QED BY <1>1, <1>3, <1>4, <1>5, <1>6, <1>8, <2>1 DEF Col
<1> QED BY <1>7, <1>8

\* How line and column of a position in a piece are those of the position in the text.
Shifted(source, q, script, f) ==
  /\ Line(source, q + f - 1) = Line(source, q) + Line(script, f) - 1
  /\ Col(source, q + f - 1) = Col(script, f) + IF Line(script, f) = 1 THEN Col(source, q) ELSE 0

\* What stands in a text is as far down and, on its first line, as far to the right as
\* the piece is.
LEMMA PieceShifted ==
  ASSUME NEW source \in Text, NEW script \in Text, NEW q \in 1..Len(source) + 1, At(source, q, script)
  PROVE  \A f \in 1..Len(script) + 1 : Shifted(source, q, script, f)
<1>1. Len(source) \in Nat /\ Len(script) \in Nat /\ q \in Nat /\ q >= 1
  BY DEF Text
<1>2. PICK N : N = {n \in Nat : n <= Len(script) => Shifted(source, q, script, n + 1)}
  OBVIOUS
<1>3. /\ q + Len(script) - 1 <= Len(source)
      /\ \A k \in 1..Len(script) : source[q + k - 1] = script[k]
  BY <1>1, AtElements
<1>4. Line(source, q) \in Nat /\ Col(source, q) \in Int
  <2>1. Line(source, q) \in 1..LineCount(source) /\ LineStart(source, q) \in 1..q
    BY PositionPlace
  <2> QED BY <1>1, <2>1, LineCountTyped DEF Col
<1>5. 0 \in N
  <2>1. Line(script, 1) = 1 /\ Col(script, 1) = 0
    BY FirstPosition
  <2>2. q + 1 - 1 = q /\ 0 + 1 = 1
    BY <1>1
  <2>3. Shifted(source, q, script, 1)
    BY <1>4, <2>1, <2>2 DEF Shifted
  <2> QED BY <1>2, <2>2, <2>3
<1>6. ASSUME NEW n \in Nat, n \in N PROVE n + 1 \in N
  <2>1. SUFFICES ASSUME n + 1 <= Len(script) PROVE Shifted(source, q, script, n + 2)
    <3>1. n + 1 + 1 = n + 2
      OBVIOUS
    <3> QED BY <1>2, <3>1
  <2>2. PICK f \in Nat : f = n + 1
    OBVIOUS
  <2>3. f \in 1..Len(script) /\ f + 1 = n + 2
    BY <1>1, <2>1, <2>2
  <2>4. Shifted(source, q, script, f)
    <3>1. n <= Len(script)
      BY <1>1, <2>1
    <3> QED BY <1>2, <1>6, <2>2, <3>1
  <2>5. PICK i \in Nat : i = q + f - 1
    BY <1>1, <2>2
  <2>6. i \in 1..Len(source) /\ q + (f + 1) - 1 = i + 1
    BY <1>1, <1>3, <2>3, <2>5
  <2>7. source[i] = script[f]
    BY <1>3, <2>3, <2>5
  <2>8. PICK sl, sc, fl, fc : sl = Line(source, i) /\ sc = Col(source, i) /\ fl = Line(script, f) /\ fc = Col(script, f)
    OBVIOUS
  <2>9. /\ sl \in Nat /\ sl >= 1 /\ sc \in Int
        /\ Line(source, i + 1) = IF source[i] = NL THEN sl + 1 ELSE sl
        /\ Col(source, i + 1) = IF source[i] = NL THEN 0 ELSE sc + 1
    BY <2>6, <2>8, NextPosition
  <2>10. /\ fl \in Nat /\ fl >= 1 /\ fc \in Int
         /\ Line(script, f + 1) = IF script[f] = NL THEN fl + 1 ELSE fl
         /\ Col(script, f + 1) = IF script[f] = NL THEN 0 ELSE fc + 1
    BY <2>3, <2>8, NextPosition
  <2>11. PICK ql, qc : ql = Line(source, q) /\ qc = Col(source, q)
    OBVIOUS
  <2>12. sl = ql + fl - 1 /\ sc = fc + IF fl = 1 THEN qc ELSE 0
    BY <2>4, <2>5, <2>8, <2>11 DEF Shifted
  <2>13. ql \in Nat /\ qc \in Int
    BY <1>4, <2>11
  <2>14. CASE source[i] = NL
    <3>1. Line(source, i + 1) = sl + 1 /\ Col(source, i + 1) = 0
      BY <2>9, <2>14
    <3>2. Line(script, f + 1) = fl + 1 /\ Col(script, f + 1) = 0
      BY <2>7, <2>10, <2>14
    <3>3. fl + 1 # 1 /\ sl + 1 = ql + (fl + 1) - 1
      BY <2>10, <2>12, <2>13
    <3>4. Shifted(source, q, script, f + 1)
      BY <2>6, <2>11, <3>1, <3>2, <3>3 DEF Shifted
    <3> QED BY <2>3, <3>4
  <2>15. CASE source[i] # NL
    <3>1. Line(source, i + 1) = sl /\ Col(source, i + 1) = sc + 1
      BY <2>9, <2>15
    <3>2. Line(script, f + 1) = fl /\ Col(script, f + 1) = fc + 1
      BY <2>7, <2>10, <2>15
    <3>3. sc + 1 = (fc + 1) + IF fl = 1 THEN qc ELSE 0
      BY <2>10, <2>12, <2>13
    <3>4. Shifted(source, q, script, f + 1)
      BY <2>6, <2>11, <2>12, <3>1, <3>2, <3>3 DEF Shifted
    <3> QED BY <2>3, <3>4
  <2> QED BY <2>14, <2>15
<1>7. \A n \in Nat : n \in N
  BY <1>5, <1>6, NatInduct
<1>8. ASSUME NEW f \in 1..Len(script) + 1 PROVE Shifted(source, q, script, f)
  <2>1. PICK n \in Nat : n = f - 1
    BY <1>1
  <2>2. n <= Len(script) /\ n + 1 = f
    BY <1>1, <2>1
  <2> QED BY <1>2, <1>7, <2>2
<1> QED BY <1>8

\* The place of a position of a piece is the place of the position in the text.
LEMMA PieceAtPlace ==
  ASSUME NEW source \in Text, NEW script \in Text, NEW q \in 1..Len(source) + 1, At(source, q, script),
         NEW f \in 1..Len(script) + 1
  PROVE  /\ q + f - 1 \in 1..Len(source) + 1
         /\ f \in 1..Len(script) => q + f - 1 \in 1..Len(source)
         /\ DocumentPlace(TextIndexToPosition(source, q), TextIndexToPosition(script, f)) =
              TextIndexToPosition(source, q + f - 1)
<1>1. Len(source) \in Nat /\ Len(script) \in Nat /\ q \in Nat /\ q >= 1 /\ f \in Nat /\ f >= 1
  BY DEF Text
<1>2. q + Len(script) - 1 <= Len(source)
  BY <1>1, AtElements
<1>3. Shifted(source, q, script, f)
  BY PieceShifted
<1>4. PICK p, r : p = TextIndexToPosition(source, q) /\ r = TextIndexToPosition(script, f)
  OBVIOUS
<1>5. p[1] = Line(source, q) /\ p[2] = Col(source, q) /\ r[1] = Line(script, f) /\ r[2] = Col(script, f)
  BY <1>4 DEF TextIndexToPosition
<1>6. DocumentPlace(p, r) = <<Line(source, q + f - 1), Col(source, q + f - 1)>>
  BY <1>3, <1>5 DEF DocumentPlace, Shifted
<1>7. DocumentPlace(p, r) = TextIndexToPosition(source, q + f - 1)
  BY <1>6 DEF TextIndexToPosition
<1> QED BY <1>1, <1>2, <1>4, <1>7

-----------------------------------------------------------------------------
(* The history of a buffer.                                                *)

\* What a buffer is, before anything is said of its cursor and its limit.
BufferFields == [text : Text, at : Place, anchor : Place, undo : Seq(State), redo : Seq(State)]

\* The entries of a history but its newest are the newest of another.
KeepsNewest(undo, new) == \A k \in 1..Len(new) - 1 : new[k] = undo[Len(undo) + 1 - Len(new) + k]

\* An entry more, the oldest one gone at the limit.
LEMMA HistoryGrows ==
  ASSUME NEW undo \in Seq(State), Len(undo) <= UndoHistoryLimit, NEW s \in State,
         NEW new, new = AppendUndoSnapshot(undo, s)
  PROVE  /\ new \in Seq(State) /\ new # <<>> /\ new[Len(new)] = s
         /\ Len(new) = IF Len(undo) < UndoHistoryLimit THEN Len(undo) + 1 ELSE UndoHistoryLimit
         /\ KeepsNewest(undo, new)
<1>1. UndoHistoryLimit \in Nat /\ UndoHistoryLimit >= 1
  BY HistoryAssumption
<1>2. PICK all : all = Append(undo, s)
  OBVIOUS
<1>3. /\ all \in Seq(State) /\ Len(all) = Len(undo) + 1 /\ Len(undo) \in Nat
      /\ all[Len(undo) + 1] = s /\ \A k \in 1..Len(undo) : all[k] = undo[k]
  BY <1>2
<1>4. PICK from : from = IF Len(undo) < UndoHistoryLimit THEN 1 ELSE Len(undo) + 2 - UndoHistoryLimit
  OBVIOUS
<1>5. Max({1, Len(all) - UndoHistoryLimit + 1}) = from
  <2>1. PICK x : x = Len(all) - UndoHistoryLimit + 1
    OBVIOUS
  <2>2. x \in Int
    BY <1>1, <1>3, <2>1
  <2>3. Max({1, x}) = IF 1 >= x THEN 1 ELSE x
    BY <2>2, MaxMinOfTwo
  <2> QED BY <1>1, <1>3, <1>4, <2>1, <2>2, <2>3
<1>6. new = SubSeq(all, from, Len(all))
  BY <1>2, <1>5, Zenon DEF AppendUndoSnapshot
<1>7. from \in 1..Len(all)
  BY <1>1, <1>3, <1>4
<1>8. /\ new \in Seq(State) /\ Len(new) = Len(all) - from + 1
      /\ \A k \in 1..Len(all) - from + 1 : new[k] = all[from + k - 1]
  BY <1>3, <1>6, <1>7
<1>9. Len(new) = IF Len(undo) < UndoHistoryLimit THEN Len(undo) + 1 ELSE UndoHistoryLimit
  BY <1>1, <1>3, <1>4, <1>8
<1>10. new # <<>> /\ new[Len(new)] = s
  BY <1>1, <1>3, <1>7, <1>8, <1>9
<1>11. ASSUME NEW k \in 1..Len(new) - 1
       PROVE  new[k] = undo[Len(undo) + 1 - Len(new) + k]
  <2>1. k \in 1..Len(all) - from + 1 /\ from + k - 1 = Len(undo) + 1 - Len(new) + k
    BY <1>3, <1>7, <1>8
  <2>2. from + k - 1 \in 1..Len(undo)
    BY <1>3, <1>7, <1>8
  <2>3. new[k] = all[from + k - 1]
    BY <1>8, <2>1
  <2>4. all[from + k - 1] = undo[from + k - 1]
    BY <1>3, <2>2
  <2> QED BY <2>1, <2>3, <2>4
<1> QED BY <1>8, <1>9, <1>10, <1>11 DEF KeepsNewest

\* The history before an edit of what state s says of the buffer.
Recorded(undo, s) == IF undo # <<>> /\ Last(undo) = s THEN undo ELSE AppendUndoSnapshot(undo, s)

\* Neither the text nor its history is touched.
SameHistory(b, n) == n.text = b.text /\ n.undo = b.undo /\ n.redo = b.redo

\* An edit: what was there is on top of the history, and nothing can be redone.
EditedFrom(b, n) ==
  /\ n.redo = <<>>
  /\ \E s \in State : s.text = b.text /\ s.at = b.at /\ n.undo = Recorded(b.undo, s)

\* What a key or a command other than undo and redo makes of a buffer.
Changed(b, n) == BufferOK(n) /\ (SameHistory(b, n) \/ EditedFrom(b, n))

\* A buffer that has the history and the text of a good one is good when its cursor is.
LEMMA MovedIsChanged ==
  ASSUME NEW b, BufferOK(b), NEW n \in BufferFields, SameHistory(b, n), InText(b.text, n.at)
  PROVE  Changed(b, n)
BY DEF Changed, BufferOK, BufferFields, SameHistory

\* So is one that has been edited after what was there has been recorded.
LEMMA RecordedIsChanged ==
  ASSUME NEW b, BufferOK(b), NEW s \in State, s.text = b.text, s.at = b.at,
         NEW n \in BufferFields, n.undo = Recorded(b.undo, s), n.redo = <<>>, InText(n.text, n.at)
  PROVE  Changed(b, n)
<1>1. b.undo \in Seq(State) /\ Len(b.undo) \in Nat /\ Len(b.undo) <= UndoHistoryLimit
  <2>1. b.undo \in Seq(State) /\ b.redo \in Seq(State) /\ Len(b.undo) + Len(b.redo) <= UndoHistoryLimit
    BY DEF BufferOK
  <2>2. Len(b.undo) \in Nat /\ Len(b.redo) \in Nat /\ UndoHistoryLimit \in Nat
    BY <2>1, HistoryAssumption
  <2>3. PICK u \in Nat, r \in Nat, most \in Nat : u = Len(b.undo) /\ r = Len(b.redo) /\ most = UndoHistoryLimit
    BY <2>2
  <2>4. u + r <= most
    BY <2>1, <2>3
  <2>5. u <= most
    BY <2>4
  <2> QED BY <2>1, <2>2, <2>3, <2>5
<1>2. Len(n.undo) <= UndoHistoryLimit
  <2>1. CASE n.undo = b.undo
    BY <1>1, <2>1
  <2>2. CASE n.undo = AppendUndoSnapshot(b.undo, s)
    <3>1. PICK undo \in Seq(State) : undo = b.undo
      BY <1>1
    <3>2. PICK new : new = AppendUndoSnapshot(undo, s)
      OBVIOUS
    <3>3. Len(new) = IF Len(undo) < UndoHistoryLimit THEN Len(undo) + 1 ELSE UndoHistoryLimit
      BY <1>1, <3>1, <3>2, HistoryGrows
    <3> QED BY <1>1, <2>2, <3>1, <3>2, <3>3, HistoryAssumption
  <2> QED BY <2>1, <2>2 DEF Recorded
<1>3. Len(n.undo) + Len(n.redo) <= UndoHistoryLimit
  <2>1. n.undo \in Seq(State) /\ Len(n.redo) = 0
    BY DEF BufferFields
  <2> QED BY <1>2, <2>1, HistoryAssumption
<1>4. BufferOK(n)
  BY <1>3 DEF BufferOK, BufferFields
<1>5. EditedFrom(b, n)
  BY DEF EditedFrom
<1> QED BY <1>4, <1>5 DEF Changed

-----------------------------------------------------------------------------
(* Selections and edits.                                                   *)

\* Two texts one behind the other.
LEMMA TextsTogether ==
  ASSUME NEW r \in Text, NEW s \in Text
  PROVE  /\ r \o s \in Text /\ Len(r \o s) = Len(r) + Len(s)
         /\ \A k \in 1..Len(s) : (r \o s)[Len(r) + k] = s[k]
<1> DEFINE t == r \o s
<1>1. r \in Seq(STRING) /\ s \in Seq(STRING)
  BY DEF Text
<1>2. /\ t \in Seq(STRING) /\ Len(t) = Len(r) + Len(s)
      /\ \A i \in 1..Len(r) + Len(s) : t[i] = IF i <= Len(r) THEN r[i] ELSE s[i - Len(r)]
  BY <1>1, ConcatProperties
<1>3. ASSUME NEW k \in 1..Len(s)
      PROVE  t[Len(r) + k] = s[k]
  <2>1. Len(r) + k \in 1..Len(r) + Len(s) /\ ~(Len(r) + k <= Len(r)) /\ Len(r) + k - Len(r) = k
    BY <1>1
  <2> QED BY <1>2, <2>1
<1> QED BY <1>2, <1>3 DEF Text

\* The cursor is somewhere in the text, or behind it.
LEMMA CursorInText ==
  ASSUME NEW b \in BufferFields
  PROVE  Cursor(b) \in 1..Len(b.text) + 1 /\ Len(b.text) \in Nat
BY IndexInText DEF Cursor, BufferFields, Text

\* A selection is a range of positions.
LEMMA SelectionInText ==
  ASSUME NEW b \in BufferFields
  PROVE  /\ SelectionRange(b) = <<SelectionRange(b)[1], SelectionRange(b)[2]>>
         /\ SelectionRange(b)[1] \in 1..Len(b.text) + 1 /\ SelectionRange(b)[2] \in 1..Len(b.text) + 1
         /\ SelectionRange(b)[1] <= SelectionRange(b)[2]
<1>1. PICK x, y, top : x = Cursor(b) /\ y = PositionToTextIndex(b.text, b.anchor) /\ top = Len(b.text) + 1
  OBVIOUS
<1>2. x \in 1..top /\ y \in 1..top /\ top \in Nat
  <2>1. b.text \in Text /\ b.anchor \in Place
    BY DEF BufferFields
  <2>2. y \in 1..top
    BY <1>1, <2>1, IndexInText
  <2> QED BY <1>1, <2>2, CursorInText
<1>3. PICK z \in {x, y} : {Cursor(b)} \cup (IF b.anchor = NoPlace THEN {} ELSE {PositionToTextIndex(b.text, b.anchor)}) = {x, z}
  BY <1>1
<1>4. SelectionRange(b) = <<Min({x, z}), Max({x, z})>>
  BY <1>3, Zenon DEF SelectionRange
<1>5. PICK low, high : low = Min({x, z}) /\ high = Max({x, z})
  OBVIOUS
<1>6. low \in 1..top /\ high \in 1..top /\ low <= high
  <2>1. x \in Int /\ z \in Int /\ x \in 1..top /\ z \in 1..top
    BY <1>2
  <2>2. /\ high = IF x >= z THEN x ELSE z
        /\ low = IF x <= z THEN x ELSE z
    BY <1>5, <2>1, MaxMinOfTwo
  <2> QED BY <2>1, <2>2
<1>7. SelectionRange(b) = <<low, high>>
  BY <1>4, <1>5
<1> QED BY <1>1, <1>6, <1>7

\* What a replacement makes of a buffer: its cursor is behind what is new, and
\* what stood behind what is replaced stands there.
LEMMA SplicedTyped ==
  ASSUME NEW b \in BufferFields, NEW from \in 1..Len(b.text) + 1, NEW to \in 1..Len(b.text) + 1,
         NEW new \in Text, NEW n, n = Spliced(b, from, to, new)
  PROVE  /\ n \in BufferFields /\ n.undo = b.undo /\ n.redo = b.redo /\ InText(n.text, n.at)
         /\ SubSeq(n.text, Cursor(n), Len(n.text)) = SubSeq(b.text, to, Len(b.text))
<1>1. PICK s \in Text : s = b.text
  BY DEF BufferFields
<1>2. PICK head, rest, t : head = SubSeq(s, 1, from - 1) /\ rest = SubSeq(s, to, Len(s)) /\ t = head \o new \o rest
  OBVIOUS
<1>3. from \in 1..Len(s) + 1 /\ to \in 1..Len(s) + 1 /\ Len(s) \in Nat /\ Len(new) \in Nat
  BY <1>1 DEF Text
<1>4. head \in Text /\ Len(head) = from - 1
  <2>1. from - 1 \in Int /\ from - 1 <= Len(s)
    BY <1>3
  <2>2. SubSeq(s, 1, from - 1) \in Text /\ Len(SubSeq(s, 1, from - 1)) = IF 1 <= from - 1 THEN from - 1 - 1 + 1 ELSE 0
    BY <2>1, PieceOfText
  <2> QED BY <1>2, <1>3, <2>2
<1>5. rest \in Text /\ Len(rest) = Len(s) - to + 1
  <2>1. to \in Int /\ to >= 1 /\ Len(s) \in Int /\ Len(s) <= Len(s)
    BY <1>3
  <2>2. SubSeq(s, to, Len(s)) \in Text /\ Len(SubSeq(s, to, Len(s))) = IF to <= Len(s) THEN Len(s) - to + 1 ELSE 0
    BY <2>1, PieceOfText
  <2> QED BY <1>2, <1>3, <2>2
<1>6. /\ t \in Text /\ Len(t) = from - 1 + Len(new) + (Len(s) - to + 1)
      /\ \A k \in 1..Len(rest) : t[from - 1 + Len(new) + k] = rest[k]
  <2>1. PICK front : front = head \o new
    OBVIOUS
  <2>2. front \in Text /\ Len(front) = Len(head) + Len(new)
    BY <1>4, <2>1, TextsTogether
  <2>3. front \in Text /\ rest \in Text /\ t = front \o rest
    BY <1>2, <1>5, <2>1, <2>2
  <2>4. /\ t \in Text /\ Len(t) = Len(front) + Len(rest)
        /\ \A k \in 1..Len(rest) : t[Len(front) + k] = rest[k]
    <3>1. PICK u \in Text, v \in Text : u = front /\ v = rest
      BY <2>3
    <3>2. t = u \o v
      BY <2>3, <3>1
    <3>3. /\ u \o v \in Text /\ Len(u \o v) = Len(u) + Len(v)
          /\ \A k \in 1..Len(v) : (u \o v)[Len(u) + k] = v[k]
      BY TextsTogether
    <3> QED BY <3>1, <3>2, <3>3
  <2>5. Len(front) = from - 1 + Len(new)
    BY <1>4, <2>2
  <2> QED BY <1>5, <2>4, <2>5
<1>7. PICK at : at = TextIndexToPosition(t, from + Len(new))
  OBVIOUS
<1>8. n = [b EXCEPT !.text = t, !.at = at, !.anchor = NoPlace]
  BY <1>1, <1>2, <1>7, Zenon DEF Spliced
<1>9. from + Len(new) \in 1..Len(t) + 1
  BY <1>3, <1>6
<1>10. at \in Place /\ InText(t, at) /\ PositionToTextIndex(t, at) = from + Len(new)
  BY <1>6, <1>7, <1>9, PlaceOfIndex
<1>11. NoPlace \in Place
  BY DEF NoPlace, Place
<1>12. n = [text |-> t, at |-> at, anchor |-> NoPlace, undo |-> b.undo, redo |-> b.redo]
  BY <1>8 DEF BufferFields
<1>13. n \in BufferFields /\ n.undo = b.undo /\ n.redo = b.redo /\ n.text = t /\ n.at = at
  BY <1>6, <1>10, <1>11, <1>12 DEF BufferFields
<1>14. Cursor(n) = from + Len(new)
  BY <1>10, <1>13 DEF Cursor
<1>15. SubSeq(t, from + Len(new), Len(t)) = rest
  <2>1. PICK a, e : a = from + Len(new) /\ e = Len(t)
    OBVIOUS
  <2>2. a \in Int /\ a >= 1 /\ e \in Int /\ e <= Len(t) /\ a <= e + 1
    BY <1>3, <1>6, <1>9, <2>1
  <2>3. PICK piece : piece = SubSeq(t, a, e)
    OBVIOUS
  <2>4. /\ piece \in Text /\ Len(piece) = IF a <= e THEN e - a + 1 ELSE 0
        /\ \A k \in 1..e - a + 1 : piece[k] = t[a + k - 1]
    BY <1>6, <2>2, <2>3, PieceOfText
  <2>5. Len(piece) = Len(rest) /\ Len(rest) = e - a + 1
    BY <1>3, <1>5, <1>6, <2>1, <2>2, <2>4
  <2>6. ASSUME NEW k \in 1..Len(piece)
        PROVE  piece[k] = rest[k]
    <3>1. a + k - 1 = from - 1 + Len(new) + k
      BY <1>3, <2>1, <2>2
    <3> QED BY <1>6, <2>4, <2>5, <3>1
  <2>7. piece = rest
    BY <1>5, <2>4, <2>5, <2>6, SameText
  <2> QED BY <2>1, <2>3, <2>7
<1> QED BY <1>1, <1>2, <1>10, <1>13, <1>14, <1>15

\* A buffer without its selection is the same otherwise.
LEMMA ClearedTyped ==
  ASSUME NEW b \in BufferFields, NEW c, c = ClearSelection(b)
  PROVE  /\ c \in BufferFields /\ c.anchor = NoPlace
         /\ c.text = b.text /\ c.at = b.at /\ c.undo = b.undo /\ c.redo = b.redo
<1>1. c = [b EXCEPT !.anchor = NoPlace]
  BY DEF ClearSelection
<1>2. NoPlace \in Place
  BY DEF NoPlace, Place
<1>3. c = [text |-> b.text, at |-> b.at, anchor |-> NoPlace, undo |-> b.undo, redo |-> b.redo]
  BY <1>1 DEF BufferFields
<1> QED BY <1>2, <1>3 DEF BufferFields

\* A buffer whose state has been recorded is the same but for its history.
LEMMA RecordedTyped ==
  ASSUME NEW b, BufferOK(b), NEW r, r = RecordUndo(b)
  PROVE  /\ b \in BufferFields /\ Snapshot(b) \in State
         /\ Snapshot(b).text = b.text /\ Snapshot(b).at = b.at
         /\ r \in BufferFields /\ r.text = b.text /\ r.at = b.at /\ r.anchor = b.anchor
         /\ r.undo = Recorded(b.undo, Snapshot(b)) /\ r.redo = <<>>
<1>1. b \in BufferFields /\ Len(b.undo) + Len(b.redo) <= UndoHistoryLimit
  BY DEF BufferOK, BufferFields
<1>2. PICK s : s = Snapshot(b)
  OBVIOUS
<1>3. s \in State /\ s.text = b.text /\ s.at = b.at
  BY <1>1, <1>2 DEF Snapshot, State, BufferFields
<1>4. PICK undo \in Seq(State) : undo = b.undo
  BY <1>1 DEF BufferFields
<1>5. Len(undo) <= UndoHistoryLimit
  <2>1. Len(b.undo) \in Nat /\ Len(b.redo) \in Nat /\ UndoHistoryLimit \in Nat
    BY <1>1, HistoryAssumption DEF BufferFields
  <2>2. PICK u \in Nat, v \in Nat, most \in Nat : u = Len(b.undo) /\ v = Len(b.redo) /\ most = UndoHistoryLimit
    BY <2>1
  <2>3. u + v <= most
    BY <1>1, <2>2
  <2>4. u <= most
    BY <2>3
  <2> QED BY <1>4, <2>2, <2>4
<1>6. Recorded(undo, s) \in Seq(State)
  <2>1. PICK new : new = AppendUndoSnapshot(undo, s)
    OBVIOUS
  <2>2. new \in Seq(State)
    BY <1>3, <1>5, <2>1, HistoryGrows
  <2> QED BY <2>1, <2>2 DEF Recorded
<1>7. r = [b EXCEPT !.undo = Recorded(b.undo, s), !.redo = <<>>]
  BY <1>2 DEF RecordUndo, Recorded
<1>8. <<>> \in Seq(State)
  OBVIOUS
<1>9. PICK grown, none : grown = Recorded(undo, s) /\ none = <<>>
  OBVIOUS
<1>10. r = [text |-> b.text, at |-> b.at, anchor |-> b.anchor, undo |-> grown, redo |-> none]
  BY <1>1, <1>4, <1>7, <1>9 DEF BufferFields
<1>11. r \in BufferFields
  BY <1>1, <1>6, <1>8, <1>9, <1>10 DEF BufferFields
<1> QED BY <1>1, <1>2, <1>3, <1>4, <1>9, <1>10, <1>11

\* A replacement after what was there has been recorded, with or without a selection.
LEMMA SplicedIsChanged ==
  ASSUME NEW b, BufferOK(b), NEW c \in {b, ClearSelection(b)},
         NEW from \in 1..Len(b.text) + 1, NEW to \in 1..Len(b.text) + 1, NEW new \in Text,
         NEW n, n = Spliced(RecordUndo(c), from, to, new)
  PROVE  Changed(b, n) /\ n.undo = RecordUndo(c).undo
<1>1. b \in BufferFields
  BY DEF BufferOK, BufferFields
<1>2. c \in BufferFields /\ c.text = b.text /\ c.at = b.at /\ c.undo = b.undo /\ c.redo = b.redo
  BY <1>1, ClearedTyped
<1>3. BufferOK(c)
  BY <1>2 DEF BufferOK, BufferFields
<1>4. PICK r : r = RecordUndo(c)
  OBVIOUS
<1>5. PICK s : s = Snapshot(c)
  OBVIOUS
<1>6. /\ s \in State /\ s.text = b.text /\ s.at = b.at
      /\ r \in BufferFields /\ r.text = b.text /\ r.undo = Recorded(b.undo, s) /\ r.redo = <<>>
  BY <1>2, <1>3, <1>4, <1>5, RecordedTyped
<1>7. from \in 1..Len(r.text) + 1 /\ to \in 1..Len(r.text) + 1 /\ n = Spliced(r, from, to, new)
  BY <1>4, <1>6
<1>8. n \in BufferFields /\ n.undo = r.undo /\ n.redo = r.redo /\ InText(n.text, n.at)
  BY <1>6, <1>7, SplicedTyped
<1>9. Changed(b, n)
  BY <1>6, <1>8, RecordedIsChanged
<1> QED BY <1>4, <1>8, <1>9

\* A selection taken away.
LEMMA SelectionDeleted ==
  ASSUME NEW b, BufferOK(b), NEW n, n = DeleteSelection(RecordUndo(b))
  PROVE  /\ Changed(b, n) /\ n \in BufferFields
         /\ n.undo = Recorded(b.undo, Snapshot(b)) /\ n.redo = <<>>
         /\ SubSeq(n.text, Cursor(n), Len(n.text)) = SubSeq(b.text, SelectionRange(b)[2], Len(b.text))
<1>1. PICK r, s : r = RecordUndo(b) /\ s = Snapshot(b)
  OBVIOUS
<1>2. /\ s \in State /\ s.text = b.text /\ s.at = b.at /\ b \in BufferFields
      /\ r \in BufferFields /\ r.text = b.text /\ r.at = b.at /\ r.anchor = b.anchor
      /\ r.undo = Recorded(b.undo, s) /\ r.redo = <<>>
  BY <1>1, RecordedTyped
<1>3. SelectionRange(r) = SelectionRange(b)
  <2>1. Cursor(r) = Cursor(b)
    BY <1>2 DEF Cursor
  <2>2. PositionToTextIndex(r.text, r.anchor) = PositionToTextIndex(b.text, b.anchor)
    BY <1>2
  <2> QED BY <1>2, <2>1, <2>2, Zenon DEF SelectionRange
<1>4. PICK from, to, none : from = SelectionRange(b)[1] /\ to = SelectionRange(b)[2] /\ none = <<>>
  OBVIOUS
<1>5. from \in 1..Len(r.text) + 1 /\ to \in 1..Len(r.text) + 1
  BY <1>2, <1>4, SelectionInText
<1>6. none \in Text
  <2>1. <<>> \in Seq(STRING)
    OBVIOUS
  <2> QED BY <1>4, <2>1 DEF Text
<1>7. n = Spliced(r, from, to, none)
  BY <1>1, <1>3, <1>4, Zenon DEF DeleteSelection
<1>8. /\ n \in BufferFields /\ n.undo = r.undo /\ n.redo = r.redo /\ InText(n.text, n.at)
      /\ SubSeq(n.text, Cursor(n), Len(n.text)) = SubSeq(r.text, to, Len(r.text))
  BY <1>2, <1>5, <1>6, <1>7, SplicedTyped
<1>9. Changed(b, n)
  BY <1>2, <1>8, RecordedIsChanged
<1> QED BY <1>1, <1>2, <1>4, <1>8, <1>9

\* What is inserted comes in place of the selection.
LEMMA InsertedIsChanged ==
  ASSUME NEW b, BufferOK(b), NEW new \in Text, NEW n, n = InsertText(b, new)
  PROVE  /\ Changed(b, n)
         /\ \/ n = b
            \/ SubSeq(n.text, Cursor(n), Len(n.text)) = SubSeq(b.text, SelectionRange(b)[2], Len(b.text))
<1>1. CASE new = <<>>
  <2>1. n = b
    BY <1>1 DEF InsertText
  <2>2. b \in BufferFields /\ InText(b.text, b.at) /\ SameHistory(b, b)
    BY DEF BufferOK, BufferFields, SameHistory
  <2>3. Changed(b, b)
    BY <2>2, MovedIsChanged
  <2> QED BY <2>1, <2>3
<1>2. CASE new # <<>>
  <2>1. PICK d, s : d = DeleteSelection(RecordUndo(b)) /\ s = Snapshot(b)
    OBVIOUS
  <2>2. /\ d \in BufferFields /\ d.undo = Recorded(b.undo, s) /\ d.redo = <<>>
        /\ SubSeq(d.text, Cursor(d), Len(d.text)) = SubSeq(b.text, SelectionRange(b)[2], Len(b.text))
    BY <2>1, SelectionDeleted
  <2>3. s \in State /\ s.text = b.text /\ s.at = b.at
    BY <2>1, RecordedTyped
  <2>4. PICK at : at = Cursor(d)
    OBVIOUS
  <2>5. at \in 1..Len(d.text) + 1
    BY <2>2, <2>4, CursorInText
  <2>6. n = Spliced(d, at, at, new)
    BY <1>2, <2>1, <2>4, Zenon DEF InsertText
  <2>7. /\ n \in BufferFields /\ n.undo = d.undo /\ n.redo = d.redo /\ InText(n.text, n.at)
        /\ SubSeq(n.text, Cursor(n), Len(n.text)) = SubSeq(d.text, at, Len(d.text))
    BY <2>2, <2>5, <2>6, SplicedTyped
  <2>8. Changed(b, n)
    BY <2>2, <2>3, <2>7, RecordedIsChanged
  <2> QED BY <2>2, <2>4, <2>7, <2>8
<1> QED BY <1>1, <1>2

\* What the keys that delete make of the range they find.
LEMMA DeletedIsChanged ==
  ASSUME NEW b, BufferOK(b), NEW from \in 1..Len(b.text) + 1, NEW to \in 1..Len(b.text) + 1
  PROVE  Changed(b, Deleted(b, from, to))
<1>1. CASE HasSelection(b)
  <2>1. PICK n : n = DeleteSelection(RecordUndo(b))
    OBVIOUS
  <2>2. Changed(b, n)
    BY <2>1, SelectionDeleted
  <2> QED BY <1>1, <2>1, <2>2 DEF Deleted
<1>2. CASE ~HasSelection(b) /\ from = to
  <2>1. PICK n : n = ClearSelection(b)
    OBVIOUS
  <2>2. b \in BufferFields /\ InText(b.text, b.at)
    BY DEF BufferOK, BufferFields
  <2>3. n \in BufferFields /\ SameHistory(b, n) /\ InText(b.text, n.at)
    BY <2>1, <2>2, ClearedTyped DEF SameHistory
  <2>4. Changed(b, n)
    BY <2>3, MovedIsChanged
  <2> QED BY <1>2, <2>1, <2>4 DEF Deleted
<1>3. CASE ~HasSelection(b) /\ from # to
  <2>1. PICK c, none : c = ClearSelection(b) /\ none = <<>>
    OBVIOUS
  <2>2. none \in Text
    <3>1. <<>> \in Seq(STRING)
      OBVIOUS
    <3> QED BY <2>1, <3>1 DEF Text
  <2>3. PICK n : n = Spliced(RecordUndo(c), from, to, none)
    OBVIOUS
  <2>4. Changed(b, n)
    BY <2>1, <2>2, <2>3, SplicedIsChanged
  <2> QED BY <1>3, <2>1, <2>3, <2>4 DEF Deleted
<1> QED BY <1>1, <1>2, <1>3

\* Where a run of characters of one kind ends.
LEMMA EndOfKindInText ==
  ASSUME NEW t \in Text, NEW i \in 1..Len(t) + 1, NEW kind
  PROVE  EndOfKind(t, i, kind) \in 1..Len(t) + 1
<1>1. PICK other : other = {j \in i..Len(t) : TokenKind(t[j]) # kind}
  OBVIOUS
<1>2. other \subseteq 1..Len(t) /\ other \subseteq Nat /\ Len(t) \in Nat
  BY <1>1 DEF Text
<1>3. EndOfKind(t, i, kind) = IF other = {} THEN Len(t) + 1 ELSE Min(other)
  BY <1>1, Zenon DEF EndOfKind
<1>4. CASE other = {}
  BY <1>2, <1>3, <1>4
<1>5. CASE other # {}
  <2>1. Min(other) \in other
    BY <1>2, <1>5, MinBelongs
  <2>2. EndOfKind(t, i, kind) = Min(other)
    BY <1>3, <1>5
  <2>3. EndOfKind(t, i, kind) \in 1..Len(t)
    BY <1>2, <2>1, <2>2
  <2> QED BY <1>2, <2>3
<1> QED BY <1>4, <1>5

\* Words are found in the text.
LEMMA TokensInText ==
  ASSUME NEW t \in Text, NEW i \in 1..Len(t) + 1
  PROVE  NextTokenPosition(t, i) \in 1..Len(t) + 1 /\ PreviousTokenPosition(t, i) \in 1..Len(t) + 1
<1>1. Len(t) \in Nat
  BY DEF Text
<1>2. NextTokenPosition(t, i) \in 1..Len(t) + 1
  <2>1. PICK e : e = EndOfKind(t, i, TokenKind(t[i]))
    OBVIOUS
  <2>2. e \in 1..Len(t) + 1
    BY <2>1, EndOfKindInText
  <2>3. EndOfKind(t, e, "space") \in 1..Len(t) + 1
    BY <2>2, EndOfKindInText
  <2> QED BY <2>1, <2>3 DEF NextTokenPosition
<1>3. PreviousTokenPosition(t, i) \in 1..Len(t) + 1
  <2>1. PICK last, other : last = LastIn(t, 1, i - 1) /\ other = {j \in 1..last : TokenKind(t[j]) # TokenKind(t[last])}
    OBVIOUS
  <2>2. PreviousTokenPosition(t, i) = IF last = 0 THEN 1 ELSE IF other = {} THEN 1 ELSE Max(other) + 1
    BY <2>1, Zenon DEF PreviousTokenPosition
  <2>3. last = 0 \/ last \in 1..i - 1
    BY <2>1, LastInCases
  <2>4. last # 0 /\ other # {} => Max(other) \in 1..last
    <3>1. HAVE last # 0 /\ other # {}
    <3>2. last \in Nat /\ other \subseteq 1..last
      BY <2>1, <2>3, <3>1
    <3>3. Max(other) \in other
      BY <3>1, <3>2, MaxBelongs
    <3> QED BY <3>2, <3>3
  <2> QED BY <1>1, <2>2, <2>3, <2>4
<1> QED BY <1>2, <1>3

\* A cursor that goes to a place of the text, with the selection or without.
LEMMA ExtendedIsChanged ==
  ASSUME NEW b, BufferOK(b), NEW extend, NEW p \in Place, InText(b.text, p)
  PROVE  Changed(b, [Extended(b, extend) EXCEPT !.at = p]) /\ Extended(b, extend).at = b.at
<1>1. b \in BufferFields /\ NoPlace \in Place
  BY DEF BufferOK, BufferFields, NoPlace, Place
<1>2. PICK e : e = Extended(b, extend)
  OBVIOUS
<1>3. PICK anchor \in Place : e = [b EXCEPT !.anchor = anchor]
  <2>1. CASE e = [b EXCEPT !.anchor = b.at]
    BY <1>1, <2>1 DEF BufferFields
  <2>2. CASE e = [b EXCEPT !.anchor = NoPlace]
    BY <1>1, <2>2
  <2>3. CASE e = b
    <3>1. b = [b EXCEPT !.anchor = b.anchor]
      BY <1>1 DEF BufferFields
    <3> QED BY <1>1, <2>3, <3>1 DEF BufferFields
  <2> QED BY <1>2, <2>1, <2>2, <2>3 DEF Extended, StartSelection, ClearSelection
<1>4. PICK n : n = [e EXCEPT !.at = p]
  OBVIOUS
<1>5. n = [text |-> b.text, at |-> p, anchor |-> anchor, undo |-> b.undo, redo |-> b.redo] /\ e.at = b.at
  BY <1>1, <1>3, <1>4 DEF BufferFields
<1>6. n \in BufferFields /\ SameHistory(b, n) /\ InText(b.text, n.at)
  BY <1>1, <1>5 DEF BufferFields, SameHistory
<1> QED BY <1>2, <1>4, <1>5, <1>6, MovedIsChanged

\* Every way the keys move it does that.
LEMMA MovesAreChanges ==
  ASSUME NEW b, BufferOK(b), NEW extend
  PROVE  /\ \A p \in Place : Changed(b, MoveTo(b, p, extend))
         /\ \A rows \in Int : Changed(b, MoveRows(b, rows, extend))
         /\ Changed(b, MoveLeft(b, extend)) /\ Changed(b, MoveRight(b, extend))
         /\ Changed(b, MoveLineStart(b, extend)) /\ Changed(b, MoveLineEnd(b, extend))
         /\ Changed(b, MoveFileStart(b, extend)) /\ Changed(b, MoveFileEnd(b, extend))
         /\ Changed(b, MoveWordLeft(b, extend)) /\ Changed(b, MoveWordRight(b, extend))
<1>1. b \in BufferFields /\ b.text \in Text /\ b.at \in Place /\ InText(b.text, b.at)
  BY DEF BufferOK, BufferFields
<1>0. PICK t \in Text : t = b.text
  BY <1>1
<1>2. PICK i \in 1..Len(t) + 1 : t = b.text /\ i = Cursor(b)
  BY <1>0, <1>1, CursorInText
<1>3. ASSUME NEW j \in 1..Len(t) + 1
      PROVE  Changed(b, [Extended(b, extend) EXCEPT !.at = TextIndexToPosition(b.text, j)])
  <2>1. PICK p : p = TextIndexToPosition(b.text, j)
    OBVIOUS
  <2>2. p \in Place /\ InText(b.text, p)
    BY <1>2, <2>1, PlaceOfIndex
  <2> QED BY <2>1, <2>2, ExtendedIsChanged
<1>4. ASSUME NEW p \in Place
      PROVE  Changed(b, [Extended(b, extend) EXCEPT !.at = ClampPosition(b.text, p)])
  <2>1. PICK q : q = ClampPosition(b.text, p)
    OBVIOUS
  <2>2. q \in Place /\ InText(b.text, q)
    BY <1>1, <2>1, ClampInText
  <2> QED BY <2>1, <2>2, ExtendedIsChanged
<1>5. \A p \in Place : Changed(b, MoveTo(b, p, extend))
  BY <1>4 DEF MoveTo
<1>6. ASSUME NEW rows \in Int
      PROVE  Changed(b, MoveRows(b, rows, extend))
  <2>1. Extended(b, extend).at = b.at
    BY <1>1, ExtendedIsChanged
  <2>2. PICK p : p = <<b.at[1] + rows, b.at[2]>>
    OBVIOUS
  <2>3. p \in Place
    BY <1>1, <2>2 DEF Place
  <2>4. MoveRows(b, rows, extend) = [Extended(b, extend) EXCEPT !.at = ClampPosition(b.text, p)]
    BY <2>1, <2>2 DEF MoveRows
  <2> QED BY <1>4, <2>3, <2>4
<1>7. Changed(b, MoveLeft(b, extend)) /\ Changed(b, MoveRight(b, extend))
  <2>1. PICK l, r : l = Max({1, Cursor(b) - 1}) /\ r = Min({Len(b.text) + 1, Cursor(b) + 1})
    OBVIOUS
  <2>2. l \in 1..Len(t) + 1 /\ r \in 1..Len(t) + 1
    <3>1. Len(t) \in Nat /\ i - 1 \in Int /\ i + 1 \in Int /\ Len(t) + 1 \in Int
      BY <1>2 DEF Text
    <3>2. PICK one \in Int, x \in Int, y \in Int, top \in Int : one = 1 /\ x = i - 1 /\ y = i + 1 /\ top = Len(t) + 1
      BY <3>1
    <3>3. l = Max({one, x}) /\ r = Min({top, y})
      BY <1>2, <2>1, <3>2
    <3>4. /\ l = IF one >= x THEN one ELSE x
          /\ r = IF top <= y THEN top ELSE y
      BY <3>3, MaxMinOfTwo
    <3> QED BY <3>1, <3>2, <3>4
  <2> QED BY <1>3, <2>1, <2>2 DEF MoveLeft, MoveRight
<1>8. Changed(b, MoveWordLeft(b, extend)) /\ Changed(b, MoveWordRight(b, extend))
  <2>1. NextTokenPosition(t, i) \in 1..Len(t) + 1 /\ PreviousTokenPosition(t, i) \in 1..Len(t) + 1
    BY TokensInText
  <2> QED BY <1>2, <1>3, <2>1 DEF MoveWordLeft, MoveWordRight
<1>9. Changed(b, MoveLineStart(b, extend)) /\ Changed(b, MoveLineEnd(b, extend)) /\ Changed(b, MoveFileStart(b, extend))
  <2>1. <<b.at[1], 0>> \in Place /\ <<1, 0>> \in Place
    BY <1>1 DEF Place
  <2>2. <<b.at[1], Width(b.text, b.at[1])>> \in Place
    <3>1. PICK line : line = b.at[1]
      OBVIOUS
    <3>2. line \in 1..LineCount(t) /\ line \in Int
      BY <1>1, <1>2, <3>1 DEF InText, Place
    <3>3. Width(t, line) \in Nat
      BY <3>2, LineInText
    <3> QED BY <1>2, <3>1, <3>2, <3>3 DEF Place
  <2> QED BY <1>5, <2>1, <2>2 DEF MoveLineStart, MoveLineEnd, MoveFileStart
<1>10. Changed(b, MoveFileEnd(b, extend))
  <2>1. Len(t) + 1 \in 1..Len(t) + 1
    BY <1>2 DEF Text
  <2>2. TextIndexToPosition(t, Len(t) + 1) \in Place
    BY <2>1, PlaceOfIndex
  <2> QED BY <1>2, <1>5, <2>2 DEF MoveFileEnd
<1> QED BY <1>5, <1>6, <1>7, <1>8, <1>9, <1>10

\* A sequence of one element.
LEMMA OneTyped ==
  ASSUME NEW S, NEW e \in S
  PROVE  <<e>> \in Seq(S) /\ Len(<<e>>) = 1
OBVIOUS

\* A literal that the program writes is a text.
LEMMA WrittenIsText ==
  ASSUME NEW c \in Written
  PROVE  <<c>> \in Text
<1>1. PICK s \in STRING : s = c
  BY EditorAssumption
<1>2. <<s>> \in Seq(STRING)
  BY OneTyped
<1> QED BY <1>1, <1>2 DEF Text

\* A search puts the selection on what it finds.
LEMMA SearchIsChange ==
  ASSUME NEW b, BufferOK(b), NEW query \in Queries, NEW forward
  PROVE  Changed(b, MoveToSearchMatch(b, query, forward))
<1>1. b \in BufferFields /\ b.text \in Text /\ InText(b.text, b.at)
  BY DEF BufferOK, BufferFields
<1>2. query \in Text \ {<<>>}
  BY EditorAssumption DEF Text
<1>3. PICK matches, m : matches = FindSearchMatches(b.text, query) /\ m = SearchMatch(b, matches, forward)
  OBVIOUS
<1>4. MoveToSearchMatch(b, query, forward) =
        IF matches = <<>> THEN ClearSelection(b)
        ELSE [b EXCEPT !.at = TextIndexToPosition(b.text, m + Len(query)), !.anchor = TextIndexToPosition(b.text, m)]
  BY <1>3, Zenon DEF MoveToSearchMatch
<1>5. CASE matches = <<>>
  <2>1. PICK n : n = ClearSelection(b)
    OBVIOUS
  <2>2. n \in BufferFields /\ SameHistory(b, n) /\ InText(b.text, n.at)
    BY <1>1, <2>1, ClearedTyped DEF SameHistory
  <2>3. Changed(b, n)
    BY <2>2, MovedIsChanged
  <2> QED BY <1>4, <1>5, <2>1, <2>3
<1>6. CASE matches # <<>>
  <2>1. PICK t \in Text : t = b.text
    BY <1>1
  <2>2. PICK P : P = Places(t, query)
    OBVIOUS
  <2>3. P \subseteq 1..Len(t) /\ Len(t) \in Nat
    BY <2>2 DEF Places, Text
  <2>4. matches \in Seq(P)
    BY <1>2, <1>3, <2>1, <2>2, MatchesInText
  <2>5. m \in P
    BY <1>3, <1>6, <2>3, <2>4, SearchMatchInText
  <2>6. m \in 1..Len(t) + 1 /\ m + Len(query) \in 1..Len(t) + 1
    <3>1. Len(query) \in Nat
      BY <1>2 DEF Text
    <3> QED BY <2>2, <2>3, <2>5, <3>1 DEF Places
  <2>7. PICK p, q : p = TextIndexToPosition(t, m + Len(query)) /\ q = TextIndexToPosition(t, m)
    OBVIOUS
  <2>8. p \in Place /\ InText(t, p) /\ q \in Place
    BY <2>6, <2>7, PlaceOfIndex
  <2>9. PICK n : n = [b EXCEPT !.at = p, !.anchor = q]
    OBVIOUS
  <2>10. n = [text |-> b.text, at |-> p, anchor |-> q, undo |-> b.undo, redo |-> b.redo]
    BY <1>1, <2>9 DEF BufferFields
  <2>11. n \in BufferFields /\ SameHistory(b, n) /\ InText(b.text, n.at)
    BY <1>1, <2>1, <2>8, <2>10 DEF BufferFields, SameHistory
  <2>12. Changed(b, n)
    BY <2>11, MovedIsChanged
  <2> QED BY <1>4, <1>6, <2>1, <2>7, <2>9, <2>12
<1> QED BY <1>5, <1>6

\* The cursor put on an error of the text is on it.
LEMMA ErrorMoveIsChange ==
  ASSUME NEW b, BufferOK(b), NEW p \in Place, NEW n, n = MoveBufferToError(b, p)
  PROVE  /\ Changed(b, n) /\ n.text = b.text
         /\ InText(b.text, p) => n.at = p
<1>1. b \in BufferFields /\ b.text \in Text
  BY DEF BufferOK, BufferFields
<1>2. PICK c, q : c = ClearSelection(b) /\ q = ClampPosition(b.text, p)
  OBVIOUS
<1>3. c \in BufferFields /\ c.text = b.text /\ c.undo = b.undo /\ c.redo = b.redo
  BY <1>1, <1>2, ClearedTyped
<1>4. /\ q \in Place /\ InText(b.text, q)
      /\ InText(b.text, p) => q = p
  BY <1>1, <1>2, ClampInText
<1>5. n = [c EXCEPT !.at = q]
  BY <1>2 DEF MoveBufferToError
<1>6. n = [text |-> c.text, at |-> q, anchor |-> c.anchor, undo |-> c.undo, redo |-> c.redo]
  BY <1>3, <1>5 DEF BufferFields
<1>7. n \in BufferFields /\ SameHistory(b, n) /\ InText(b.text, n.at) /\ n.at = q
  BY <1>3, <1>4, <1>6 DEF BufferFields, SameHistory
<1>8. Changed(b, n)
  BY <1>7, MovedIsChanged
<1> QED BY <1>3, <1>4, <1>6, <1>7, <1>8

\* What is completed comes in place of the word before the cursor.
LEMMA CompletionIsChange ==
  ASSUME NEW b, BufferOK(b), NEW objects, NEW known, NEW n \in Completed(b, objects, known)
  PROVE  /\ Changed(b, n)
         /\ \/ n = b
            \/ SubSeq(n.text, Cursor(n), Len(n.text)) = SubSeq(b.text, Cursor(b), Len(b.text))
<1>1. b \in BufferFields /\ b.text \in Text /\ InText(b.text, b.at) /\ SameHistory(b, b)
  BY DEF BufferOK, BufferFields, SameHistory
<1>2. PICK context : context = Context(b)
  OBVIOUS
<1>3. PICK candidates : candidates = CompletionCandidates(context, objects, known)
  OBVIOUS
<1>4. n = b \/ \E c \in candidates : n = ApplyCompletion(b, context, c)
  <2>1. n \in Offered(b, context, candidates)
    BY <1>2, <1>3, Zenon DEF Completed, CompletedIn
  <2> QED BY <2>1 DEF Offered
<1>5. Changed(b, b)
  BY <1>1, MovedIsChanged
<1>6. ASSUME NEW c \in candidates, n = ApplyCompletion(b, context, c), n # b
      PROVE  Changed(b, n) /\ SubSeq(n.text, Cursor(n), Len(n.text)) = SubSeq(b.text, Cursor(b), Len(b.text))
  <2>1. c \in STRING
    <3>1. PICK cached, others :
            /\ cached = UNION {ColumnsOf(table) : table \in TableNames(context) \cap known}
            /\ others = IF context.qualifier # <<>> THEN {} ELSE Keywords \cup IF objects THEN DOMAIN Schema ELSE {}
            /\ candidates = Matching(context.prefix, cached \cup others)
      BY <1>3, Zenon DEF CompletionCandidates
    <3>2. c \in cached \cup others
      BY <3>1 DEF Matching
    <3>3. others \subseteq STRING
      <4>1. Keywords \subseteq STRING /\ DOMAIN Schema \subseteq STRING
        BY EditorAssumption
      <4> QED BY <3>1, <4>1
    <3>4. ASSUME NEW table
          PROVE  ColumnsOf(table) \subseteq STRING
      <4>1. CASE table \in DOMAIN Schema
        <5>1. PICK columnNames \in Seq(STRING) : columnNames = Schema[table]
          BY <4>1, EditorAssumption
        <5>2. ToSet(columnNames) \subseteq STRING
          BY DEF ToSet
        <5> QED BY <4>1, <5>1, <5>2 DEF ColumnsOf
      <4>2. CASE table \notin DOMAIN Schema
        BY <4>2 DEF ColumnsOf
      <4> QED BY <4>1, <4>2
    <3>5. cached \subseteq STRING
      <4>1. ASSUME NEW x \in cached
            PROVE  x \in STRING
        <5>1. PICK table \in TableNames(context) \cap known : x \in ColumnsOf(table)
          BY <3>1, Zenon
        <5> QED BY <3>4, <5>1
      <4> QED BY <4>1
    <3> QED BY <3>2, <3>3, <3>5
  <2>2. PICK i, line : i = Cursor(b) /\ line = LineStart(b.text, i)
    OBVIOUS
  <2>3. i \in 1..Len(b.text) + 1 /\ Len(b.text) \in Nat
    BY <1>1, <2>2, CursorInText
  <2>4. line \in 1..i
    BY <1>1, <2>2, <2>3, PositionPlace
  <2>5. PICK start : start = IF i > line /\ IsWord(b.text[i - 1]) THEN i - 1 ELSE i
    OBVIOUS
  <2>6. context.start = start /\ context.end = i
    <3>1. PICK statement : context = CompletionContextForBuffer(b, statement)
      BY <1>2 DEF Context
    <3>2. context = ContextAt(b.text, statement, line, start, i)
      BY <2>2, <2>5, <3>1, Zenon DEF CompletionContextForBuffer
    <3> QED BY <3>2 DEF ContextAt
  <2>7. start \in 1..Len(b.text) + 1
    BY <2>3, <2>4, <2>5
  <2>8. PICK new : new = <<c>>
    OBVIOUS
  <2>9. new \in Text
    <3>1. PICK s \in STRING : s = c
      BY <2>1
    <3>2. <<s>> \in Seq(STRING)
      BY OneTyped
    <3> QED BY <2>8, <3>1, <3>2 DEF Text
  <2>10. PICK d : d = Spliced(b, start, i, new)
    OBVIOUS
  <2>11. /\ d \in BufferFields /\ InText(d.text, d.at)
         /\ SubSeq(d.text, Cursor(d), Len(d.text)) = SubSeq(b.text, i, Len(b.text))
    <3>1. b \in BufferFields
      BY <1>1
    <3>2. d \in BufferFields /\ InText(d.text, d.at)
      BY <2>3, <2>7, <2>9, <2>10, <3>1, SplicedTyped
    <3>3. SubSeq(d.text, Cursor(d), Len(d.text)) = SubSeq(b.text, i, Len(b.text))
      BY <2>3, <2>7, <2>9, <2>10, <3>1, SplicedTyped
    <3> QED BY <3>2, <3>3
  <2>12. PICK r : r = RecordUndo(b)
    OBVIOUS
  <2>13. PICK s : s = Snapshot(b)
    OBVIOUS
  <2>14. /\ s \in State /\ s.text = b.text /\ s.at = b.at
         /\ r \in BufferFields /\ r.undo = Recorded(b.undo, s) /\ r.redo = <<>>
    BY <2>12, <2>13, RecordedTyped
  <2>15. n = [d EXCEPT !.undo = r.undo, !.redo = r.redo]
    <3>1. n = IF d.text = b.text THEN b ELSE [d EXCEPT !.undo = RecordUndo(b).undo, !.redo = <<>>]
      BY <1>6, <2>6, <2>8, <2>10, Zenon DEF ApplyCompletion
    <3> QED BY <1>6, <2>12, <2>14, <3>1
  <2>16. n = [text |-> d.text, at |-> d.at, anchor |-> d.anchor, undo |-> r.undo, redo |-> r.redo]
    BY <2>11, <2>15 DEF BufferFields
  <2>17. n \in BufferFields /\ n.text = d.text /\ n.at = d.at /\ n.undo = r.undo /\ n.redo = r.redo
    BY <2>11, <2>14, <2>16 DEF BufferFields
  <2>18. Changed(b, n)
    BY <2>11, <2>14, <2>17, RecordedIsChanged
  <2>19. Cursor(n) = Cursor(d)
    BY <2>17 DEF Cursor
  <2> QED BY <2>2, <2>11, <2>17, <2>18, <2>19
<1> QED BY <1>4, <1>5, <1>6

-----------------------------------------------------------------------------
(* Comments, case, generated SQL.                                          *)

\* The lines of a text are texts.
LEMMA LinesTyped ==
  ASSUME NEW t \in Text
  PROVE  Lines(t) \in Seq(Text)
<1>1. PICK newlines : newlines = Newlines(t)
  OBVIOUS
<1> DEFINE all == {0} \cup {i \in 1..Len(t) : t[i] = NL}
           from(n) == CHOOSE i \in all : Cardinality({j \in all : j < i}) = n - 1
<1>7. Lines(t) = [n \in 1..Cardinality(all) |-> SubSeq(t, from(n) + 1, LineEnd(t, from(n) + 1) - 1)]
  BY DEF Lines
<1>2. all = {0} \cup newlines
  BY <1>1 DEF Newlines
<1>11. ASSUME NEW n, \E i \in all : Cardinality({j \in all : j < i}) = n - 1
       PROVE  from(n) \in all
  BY <1>11
<1> HIDE DEF all, from
<1>3. Len(t) \in Nat /\ newlines \in SUBSET (1..Len(t)) /\ IsFiniteSet(newlines) /\ Cardinality(newlines) \in Nat
  <2>1. newlines \subseteq Newlines(t)
    BY <1>1
  <2>2. IsFiniteSet(newlines) /\ Cardinality(newlines) \in Nat /\ Len(t) \in Nat
    BY <2>1, NewlinesFinite
  <2> QED BY <1>1, <2>2 DEF Newlines
<1>4. Cardinality(all) = Cardinality(newlines) + 1
  <2>1. 0 \notin newlines
    BY <1>3
  <2>2. Cardinality(newlines \cup {0}) = Cardinality(newlines) + 1
    BY <1>3, <2>1, FS_AddElement
  <2>3. newlines \cup {0} = all
    BY <1>2
  <2> QED BY <2>2, <2>3
<1>5. ASSUME NEW n \in 1..Cardinality(all)
      PROVE  \E i \in all : Cardinality({j \in all : j < i}) = n - 1
  <2>1. CASE n = 1
    <3>1. PICK B : B = {j \in all : j < 0}
      OBVIOUS
    <3>2. B = {}
      <4>1. ASSUME NEW j \in all
            PROVE  ~(j < 0)
        BY <1>2, <1>3
      <4> QED BY <3>1, <4>1
    <3>3. Cardinality(B) = 0
      BY <3>2, FS_EmptySet
    <3>4. 0 \in all
      BY <1>2
    <3> QED BY <2>1, <3>1, <3>3, <3>4
  <2>2. CASE n # 1
    <3>1. PICK k \in Nat : k = n - 2
      BY <1>3, <1>4, <2>2
    <3>2. k < Cardinality(newlines)
      BY <1>3, <1>4, <3>1
    <3>3. PICK i \in newlines : Cardinality({j \in newlines : j < i}) = k
      <4>1. PICK top \in Nat : top = Len(t)
        BY <1>3
      <4>2. PICK T \in SUBSET (1..top) : T = newlines
        BY <1>3, <4>1
      <4>3. k < Cardinality(T)
        BY <3>2, <4>2
      <4>4. \E i \in T : Cardinality({j \in T : j < i}) = k
        BY <4>3, Ranked
      <4> QED BY <4>2, <4>4
    <3>4. PICK B : B = {j \in newlines : j < i}
      OBVIOUS
    <3>5. IsFiniteSet(B)
      <4>1. B \subseteq newlines
        BY <3>4
      <4> QED BY <1>3, <4>1, FS_Subset
    <3>6. {j \in all : j < i} = B \cup {0} /\ 0 \notin B
      BY <1>2, <1>3, <3>4
    <3>7. Cardinality(B \cup {0}) = Cardinality(B) + 1
      BY <3>5, <3>6, FS_AddElement
    <3>8. Cardinality({j \in all : j < i}) = n - 1
      BY <3>1, <3>3, <3>4, <3>6, <3>7
    <3> QED BY <1>2, <3>8
  <2> QED BY <2>1, <2>2
<1>6. ASSUME NEW n \in 1..Cardinality(all)
      PROVE  SubSeq(t, from(n) + 1, LineEnd(t, from(n) + 1) - 1) \in Text
  <2>1. PICK place : place = from(n)
    OBVIOUS
  <2>2. place \in all
    BY <1>5, <1>11, <2>1
  <2>3. place + 1 \in 1..Len(t) + 1
    BY <1>2, <1>3, <2>2
  <2>4. PICK a \in 1..Len(t) + 1 : a = place + 1
    BY <2>3
  <2>5. LineEnd(t, a) \in a..Len(t) + 1
    BY LineEndAfter
  <2>6. PICK e \in Int : e = LineEnd(t, a) - 1 /\ e <= Len(t)
    BY <1>3, <2>5
  <2>7. SubSeq(t, a, e) \in Text
    BY <1>3, <2>6, PieceOfText
  <2> QED BY <2>1, <2>4, <2>6, <2>7
<1>8. PICK lines : lines = Lines(t)
  OBVIOUS
<1>9. lines \in [1..Cardinality(all) -> Text]
  BY <1>6, <1>7, <1>8, Zenon
<1>10. Cardinality(all) \in Nat
  BY <1>3, <1>4
<1> QED BY <1>8, <1>9, <1>10

\* A sequence of three elements.
LEMMA ThreeTyped ==
  ASSUME NEW S, NEW x \in S, NEW y \in S, NEW z \in S
  PROVE  <<x, y, z>> \in Seq(S)
OBVIOUS

\* Two texts one behind the other are a text.
LEMMA JoinedTyped ==
  ASSUME NEW r \in Text, NEW s \in Text
  PROVE  r \o s \in Text
BY TextsTogether

\* A line put into a comment, and one taken out of it, is a text.
LEMMA CommentsTyped ==
  ASSUME NEW line \in Text
  PROVE  CommentSqlLine(line) \in Text /\ UncommentSqlLine(line) \in Text
<1>1. Len(line) \in Nat
  BY DEF Text
<1>2. PICK from : from = MinOr({i \in DOMAIN line : line[i] \notin Blank}, Len(line) + 1)
  OBVIOUS
<1>3. from \in 1..Len(line) + 1
  <2>1. PICK T : T = {i \in DOMAIN line : line[i] \notin Blank}
    OBVIOUS
  <2>2. T \subseteq 1..Len(line) /\ T \subseteq Nat
    BY <2>1 DEF Text
  <2>3. CASE T = {}
    <3>1. from = Len(line) + 1
      BY <1>2, <2>1, <2>2, <2>3, MinOrCases
    <3> QED BY <1>1, <3>1
  <2>4. CASE T # {}
    <3>1. from \in T
      BY <1>2, <2>1, <2>2, <2>4, MinOrCases
    <3> QED BY <1>1, <2>2, <3>1
  <2> QED BY <2>3, <2>4
<1>4. PICK code : code = Code(line)
  OBVIOUS
<1>5. code \in Text /\ Len(code) \in Nat
  <2>1. code = SubSeq(line, from, Len(line))
    BY <1>2, <1>4 DEF Code
  <2>2. code \in Text
    BY <1>1, <1>3, <2>1, PieceOfText
  <2> QED BY <2>2 DEF Text
<1>6. PICK indent : indent = Indent(line)
  OBVIOUS
<1>7. indent \in Text
  <2>1. PICK e \in Int : e = Len(line) - Len(code) /\ e <= Len(line)
    BY <1>1, <1>5
  <2>2. indent = SubSeq(line, 1, e)
    BY <1>4, <1>6, <2>1 DEF Indent
  <2>3. SubSeq(line, 1, e) \in Text
    <3>1. 1 \in Int /\ 1 >= 1 /\ e <= Len(line)
      BY <2>1
    <3> QED BY <3>1, PieceOfText
  <2> QED BY <2>2, <2>3
<1>8. CommentSqlLine(line) \in Text
  <2>1. PICK d \in STRING, e \in STRING : d = "-" /\ e = " "
    <3>1. "-" \in Written /\ " " \in Written
      BY DEF Written
    <3> QED BY <3>1, EditorAssumption
  <2>2. <<d, d, e>> \in Text
    <3>1. PICK S : S = STRING
      OBVIOUS
    <3>2. d \in S /\ e \in S
      BY <3>1
    <3>3. <<d, d, e>> \in Seq(S)
      BY <3>2, ThreeTyped
    <3> QED BY <3>1, <3>3 DEF Text
  <2>3. PICK mark \in Text : mark = <<"-", "-", " ">>
    BY <2>1, <2>2
  <2>4. indent \o mark \in Text
    BY <1>7, JoinedTyped
  <2>5. (indent \o mark) \o code \in Text
    BY <1>5, <2>4, JoinedTyped
  <2> QED BY <1>4, <1>6, <2>3, <2>5 DEF CommentSqlLine
<1>9. UncommentSqlLine(line) \in Text
  <2>1. PICK k : k = CASE At(code, 1, <<"-", "-", " ">>) -> 4
                       [] At(code, 1, <<"-", "-">>) /\ ~At(code, 1, <<"-", "-", " ">>) -> 3
                       [] OTHER -> 1
    OBVIOUS
  <2>2. k \in {1, 3, 4}
    BY <2>1
  <2>3. PICK bare : bare = SubSeq(code, k, Len(code))
    OBVIOUS
  <2>4. bare \in Text
    <3>1. k \in Int /\ k >= 1 /\ Len(code) \in Int /\ Len(code) <= Len(code)
      BY <1>5, <2>2
    <3> QED BY <1>5, <2>3, <3>1, PieceOfText
  <2>5. UncommentSqlLine(line) = indent \o bare
    BY <1>4, <1>6, <2>1, <2>3, Zenon DEF UncommentSqlLine
  <2> QED BY <1>7, <2>4, <2>5, JoinedTyped
<1> QED BY <1>8, <1>9

\* Lines put into comments, or taken out of them, change the text under the cursor.
LEMMA ToggleIsChange ==
  ASSUME NEW b, BufferOK(b)
  PROVE  Changed(b, ToggleComment(b))
<1> DEFINE lines == Lines(b.text)
           rows == {r \in CommentTargetRows(b) : Strip(lines[r]) # <<>>}
           comment == \E r \in rows : ~LineIsSqlCommented(lines[r])
           toggled(line) == IF comment THEN CommentSqlLine(line) ELSE UncommentSqlLine(line)
           new == [r \in DOMAIN lines |-> IF r \in rows THEN toggled(lines[r]) ELSE lines[r]]
           pieces == [r \in DOMAIN new |-> (IF r = 1 THEN <<>> ELSE <<NL>>) \o new[r]]
<1>1. ToggleComment(b) =
        IF rows = {} THEN ClearSelection(b)
        ELSE [ClearSelection(RecordUndo(b)) EXCEPT !.text = FlattenSeq(pieces),
                                                   !.at = ClampPosition(FlattenSeq(pieces), b.at)]
  BY DEF ToggleComment
<1>2. b \in BufferFields /\ b.text \in Text /\ InText(b.text, b.at) /\ b.at \in Place
  BY DEF BufferOK, BufferFields
<1>3. lines \in Seq(Text)
  BY <1>2, LinesTyped
<1>4. new = [r \in DOMAIN lines |-> IF r \in rows THEN toggled(lines[r]) ELSE lines[r]]
  OBVIOUS
<1>5. pieces = [r \in DOMAIN new |-> (IF r = 1 THEN <<>> ELSE <<NL>>) \o new[r]]
  OBVIOUS
<1>6. ASSUME NEW line \in Text
      PROVE  toggled(line) \in Text
  BY CommentsTyped
<1> HIDE DEF lines, rows, toggled, new, pieces
<1>7. PICK n \in Nat : DOMAIN lines = 1..n /\ \A r \in 1..n : lines[r] \in Text
  BY <1>3
<1>8. new \in [1..n -> Text]
  BY <1>4, <1>6, <1>7
<1>9. pieces \in [1..n -> Text]
  <2>1. <<NL>> \in Text
    BY WrittenIsText DEF Written
  <2>2. <<>> \in Text
    <3>1. <<>> \in Seq(STRING)
      OBVIOUS
    <3> QED BY <3>1 DEF Text
  <2>3. PICK one \in Text, none \in Text : one = <<NL>> /\ none = <<>>
    BY <2>1, <2>2
  <2>4. \A r \in 1..n : none \o new[r] \in Text /\ one \o new[r] \in Text
    BY <1>8, JoinedTyped
  <2>5. \A r \in 1..n : (IF r = 1 THEN none ELSE one) \o new[r] \in Text
    BY <2>4
  <2>6. pieces = [r \in 1..n |-> (IF r = 1 THEN none ELSE one) \o new[r]]
    BY <1>5, <1>8, <2>3
  <2> QED BY <2>5, <2>6
<1>10. PICK t : t = FlattenSeq(pieces)
  OBVIOUS
<1>11. t \in Text
  <2>1. pieces \in Seq(Text)
    BY <1>9
  <2>2. pieces \in Seq(Seq(STRING))
    BY <2>1 DEF Text
  <2>3. t \in Seq(STRING)
    BY <1>10, <2>2, FlattenTyped
  <2> QED BY <2>3 DEF Text
<1>12. CASE rows = {}
  <2>1. PICK n0 : n0 = ClearSelection(b)
    OBVIOUS
  <2>2. n0 \in BufferFields /\ SameHistory(b, n0) /\ InText(b.text, n0.at)
    BY <1>2, <2>1, ClearedTyped DEF SameHistory
  <2>3. Changed(b, n0)
    BY <2>2, MovedIsChanged
  <2> QED BY <1>1, <1>12, <2>1, <2>3
<1>13. CASE rows # {}
  <2>1. PICK r, s, c : r = RecordUndo(b) /\ s = Snapshot(b) /\ c = ClearSelection(r)
    OBVIOUS
  <2>2. /\ s \in State /\ s.text = b.text /\ s.at = b.at
        /\ r \in BufferFields /\ r.undo = Recorded(b.undo, s) /\ r.redo = <<>>
    BY <2>1, RecordedTyped
  <2>3. c \in BufferFields /\ c.undo = r.undo /\ c.redo = r.redo
    BY <2>1, <2>2, ClearedTyped
  <2>4. PICK p : p = ClampPosition(t, b.at)
    OBVIOUS
  <2>5. p \in Place /\ InText(t, p)
    BY <1>2, <1>11, <2>4, ClampInText
  <2>6. PICK m : m = [c EXCEPT !.text = t, !.at = p]
    OBVIOUS
  <2>7. m = [text |-> t, at |-> p, anchor |-> c.anchor, undo |-> c.undo, redo |-> c.redo]
    BY <2>3, <2>6 DEF BufferFields
  <2>8. m \in BufferFields /\ m.text = t /\ m.at = p /\ m.undo = r.undo /\ m.redo = r.redo
    BY <1>11, <2>3, <2>5, <2>7 DEF BufferFields
  <2>9. Changed(b, m)
    BY <2>2, <2>5, <2>8, RecordedIsChanged
  <2> QED BY <1>1, <1>10, <1>13, <2>1, <2>4, <2>6, <2>9
<1> QED BY <1>12, <1>13

\* What a change of case makes of a range is a text.
LEMMA UpperTyped ==
  ASSUME NEW t \in Text, NEW from \in 1..Len(t) + 1, NEW to \in 1..Len(t) + 1, from <= to, NEW modes
  PROVE  UpperCode(t, from, to, modes) \in Text
<1> DEFINE code(i) == modes[Line(t, i)][Col(t, i) + 1] \notin {"line", "block", "q", "single", "double"}
           upper(i) == IF t[i] # NL /\ code(i) THEN Upper(t[i]) ELSE t[i]
<1>1. UpperCode(t, from, to, modes) = [n \in 1..to - from |-> upper(from + n - 1)]
  BY DEF UpperCode
<1>2. ASSUME NEW i \in 1..Len(t)
      PROVE  upper(i) \in STRING
  <2>1. t[i] \in STRING
    BY DEF Text
  <2>2. PICK W \in STRING : W = "W"
    BY EditorAssumption DEF Written
  <2>3. Upper(t[i]) \in {W, t[i]}
    BY <2>2 DEF Upper
  <2>4. upper(i) \in {W, t[i]}
    BY <2>3
  <2> QED BY <2>1, <2>4
<1> HIDE DEF upper
<1>3. PICK n \in Nat : n = to - from
  OBVIOUS
<1>4. \A k \in 1..n : from + k - 1 \in 1..Len(t)
  <2>1. Len(t) \in Nat
    BY DEF Text
  <2> QED BY <1>3, <2>1
<1>5. \A k \in 1..n : upper(from + k - 1) \in STRING
  BY <1>2, <1>4
<1>6. PICK new : new = [k \in 1..n |-> upper(from + k - 1)]
  OBVIOUS
<1>7. new \in Seq(STRING)
  BY <1>5, <1>6
<1> QED BY <1>1, <1>3, <1>6, <1>7 DEF Text

\* A selection in upper case stays selected.
LEMMA TransformIsChange ==
  ASSUME NEW b, BufferOK(b)
  PROVE  Changed(b, TransformSelection(b))
<1>1. b \in BufferFields /\ b.text \in Text /\ InText(b.text, b.at) /\ SameHistory(b, b)
  BY DEF BufferOK, BufferFields, SameHistory
<1>2. PICK range, new : range = SelectionRange(b) /\ new = TransformSqlCode(b)
  OBVIOUS
<1>3. TransformSelection(b) = IF ~HasSelection(b) \/ new = SelectedText(b) THEN b ELSE Transformed(b, range, new)
  BY <1>2, Zenon DEF TransformSelection
<1>4. CASE TransformSelection(b) = b
  BY <1>1, <1>4, MovedIsChanged
<1>5. CASE TransformSelection(b) = Transformed(b, range, new)
  <2>1. PICK from, to : from = range[1] /\ to = range[2]
    OBVIOUS
  <2>2. from \in 1..Len(b.text) + 1 /\ to \in 1..Len(b.text) + 1 /\ from <= to
    BY <1>1, <1>2, <2>1, SelectionInText
  <2>3. new \in Text
    <3>1. PICK modes : new = UpperCode(b.text, from, to, modes)
      BY <1>2, <2>1 DEF TransformSqlCode
    <3> QED BY <1>1, <2>2, <3>1, UpperTyped
  <2>4. PICK d : d = Spliced(RecordUndo(b), from, to, new)
    OBVIOUS
  <2>5. PICK r, s : r = RecordUndo(b) /\ s = Snapshot(b)
    OBVIOUS
  <2>6. /\ s \in State /\ s.text = b.text /\ s.at = b.at
        /\ r \in BufferFields /\ r.text = b.text /\ r.undo = Recorded(b.undo, s) /\ r.redo = <<>>
    BY <2>5, RecordedTyped
  <2>7. from \in 1..Len(r.text) + 1 /\ to \in 1..Len(r.text) + 1 /\ d = Spliced(r, from, to, new)
    BY <2>2, <2>4, <2>5, <2>6
  <2>8. d \in BufferFields /\ d.undo = r.undo /\ d.redo = r.redo /\ InText(d.text, d.at)
    BY <2>3, <2>6, <2>7, SplicedTyped
  <2>9. PICK p : p = TextIndexToPosition(b.text, from)
    OBVIOUS
  <2>10. p \in Place
    BY <1>1, <2>2, <2>9, PlaceOfIndex
  <2>11. PICK n : n = [d EXCEPT !.anchor = p]
    OBVIOUS
  <2>12. n = [text |-> d.text, at |-> d.at, anchor |-> p, undo |-> d.undo, redo |-> d.redo]
    BY <2>8, <2>11 DEF BufferFields
  <2>13. n \in BufferFields /\ n.text = d.text /\ n.at = d.at /\ n.undo = r.undo /\ n.redo = r.redo
    BY <2>8, <2>10, <2>12 DEF BufferFields
  <2>14. Changed(b, n)
    BY <2>6, <2>8, <2>13, RecordedIsChanged
  <2>15. n = Transformed(b, range, new)
    BY <2>1, <2>4, <2>9, <2>11 DEF Transformed
  <2> QED BY <1>5, <2>14, <2>15
<1> QED BY <1>3, <1>4, <1>5

\* A sequence of two elements, and of four.
LEMMA TwoAndFourTyped ==
  ASSUME NEW S, NEW x \in S, NEW y \in S, NEW z \in S, NEW u \in S
  PROVE  <<x, y>> \in Seq(S) /\ <<x, y, z, u>> \in Seq(S)
OBVIOUS

\* The SQL generated for a table is a text.
LEMMA GeneratedSqlTyped ==
  ASSUME NEW table \in DOMAIN Schema
  PROVE  GeneratedSql(table) \subseteq Text
<1> DEFINE all == Schema[table]
           colons == [n \in DOMAIN all |-> <<":", all[n]>>]
           settings == [n \in DOMAIN all |-> <<all[n], ":", all[n]>>]
           bound == FlattenSeq(colons)
           assigned == FlattenSeq(settings)
<1>1. GeneratedSql(table) =
        {<<"select">> \o all \o <<"from", table, ";", NL>>,
         <<"insert", "into", table, "(">> \o all \o <<")", "values", "(">> \o bound \o <<")", ";", NL>>,
         <<"update", table, "set">> \o assigned \o <<"where", ";", NL>>}
  BY DEF GeneratedSql
<1>2. PICK S : S = STRING
  OBVIOUS
<1>3. table \in S /\ all \in Seq(S)
  BY <1>2, EditorAssumption
<1>4. \A c \in Written : c \in S
  BY <1>2, EditorAssumption
<1>5. colons \in Seq(Seq(S)) /\ settings \in Seq(Seq(S))
  <2>1. PICK n \in Nat : DOMAIN all = 1..n /\ \A i \in 1..n : all[i] \in S
    BY <1>3
  <2>2. PICK colon \in S : colon = ":"
    BY <1>4 DEF Written
  <2>3. \A i \in 1..n : <<colon, all[i]>> \in Seq(S)
    BY <2>1, TwoAndFourTyped
  <2>4. \A i \in 1..n : <<all[i], colon, all[i]>> \in Seq(S)
    BY <2>1, ThreeTyped
  <2>5. colons \in [1..n -> Seq(S)]
    <3>1. colons = [i \in 1..n |-> <<colon, all[i]>>]
      BY <2>1, <2>2
    <3> QED BY <2>3, <3>1, Zenon
  <2>6. settings \in [1..n -> Seq(S)]
    <3>1. settings = [i \in 1..n |-> <<all[i], colon, all[i]>>]
      BY <2>1, <2>2
    <3> QED BY <2>4, <3>1, Zenon
  <2>7. PICK c, d : c = colons /\ d = settings
    OBVIOUS
  <2>8. c \in Seq(Seq(S)) /\ d \in Seq(Seq(S))
    BY <2>5, <2>6, <2>7
  <2> QED BY <2>7, <2>8
<1> HIDE DEF all, colons, settings
<1>6. bound \in Seq(S) /\ assigned \in Seq(S)
  BY <1>5, FlattenTyped
<1> HIDE DEF bound, assigned
<1>7. <<"select">> \in Seq(S)
  <2>1. PICK w \in S : w = "select"
    BY <1>4 DEF Written
  <2>2. <<w>> \in Seq(S)
    BY OneTyped
  <2> QED BY <2>1, <2>2
<1>8. PICK w \in S, x \in S, y \in S, z \in S : w = "from" /\ x = ";" /\ y = NL /\ z = "("
  BY <1>4 DEF Written
<1>9. PICK into \in S, insert \in S, values \in S, closed \in S :
        into = "into" /\ insert = "insert" /\ values = "values" /\ closed = ")"
  BY <1>4 DEF Written
<1>10. PICK update \in S, set \in S, where \in S : update = "update" /\ set = "set" /\ where = "where"
  BY <1>4 DEF Written
<1>11. /\ <<w, table, x, y>> \in Seq(S)
       /\ <<insert, into, table, z>> \in Seq(S)
  BY <1>3, TwoAndFourTyped
<1>12. /\ <<closed, values, z>> \in Seq(S)
       /\ <<closed, x, y>> \in Seq(S)
       /\ <<update, table, set>> \in Seq(S)
       /\ <<where, x, y>> \in Seq(S)
  BY <1>3, ThreeTyped
<1>13. ASSUME NEW p \in Seq(S), NEW q \in Seq(S)
       PROVE  p \o q \in Seq(S)
  OBVIOUS
<1>14. <<"select">> \o all \o <<"from", table, ";", NL>> \in Seq(S)
  <2>1. PICK p \in Seq(S), q \in Seq(S) : p = <<"select">> /\ q = <<"from", table, ";", NL>>
    BY <1>7, <1>8, <1>11
  <2>2. p \o all \o q \in Seq(S)
    BY <1>3, <1>13
  <2> QED BY <2>1, <2>2
<1>15. <<"insert", "into", table, "(">> \o all \o <<")", "values", "(">> \o bound \o <<")", ";", NL>> \in Seq(S)
  <2>1. PICK p \in Seq(S), q \in Seq(S), r \in Seq(S) :
          p = <<"insert", "into", table, "(">> /\ q = <<")", "values", "(">> /\ r = <<")", ";", NL>>
    BY <1>8, <1>9, <1>11, <1>12
  <2>2. p \o all \o q \o bound \o r \in Seq(S)
    BY <1>3, <1>6, <1>13
  <2> QED BY <2>1, <2>2
<1>16. <<"update", table, "set">> \o assigned \o <<"where", ";", NL>> \in Seq(S)
  <2>1. PICK p \in Seq(S), q \in Seq(S) : p = <<"update", table, "set">> /\ q = <<"where", ";", NL>>
    BY <1>8, <1>10, <1>12
  <2>2. p \o assigned \o q \in Seq(S)
    BY <1>6, <1>13
  <2> QED BY <2>1, <2>2
<1>17. GeneratedSql(table) \subseteq Seq(S)
  <2>1. PICK p, q, r : /\ p = <<"select">> \o all \o <<"from", table, ";", NL>>
                       /\ q = <<"insert", "into", table, "(">> \o all \o <<")", "values", "(">> \o bound \o <<")", ";", NL>>
                       /\ r = <<"update", table, "set">> \o assigned \o <<"where", ";", NL>>
    OBVIOUS
  <2>2. p \in Seq(S) /\ q \in Seq(S) /\ r \in Seq(S)
    BY <1>14, <1>15, <1>16, <2>1
  <2>3. GeneratedSql(table) = {p, q, r}
    BY <1>1, <2>1, Zenon
  <2> QED BY <2>2, <2>3
<1> QED BY <1>2, <1>17 DEF Text

\* What generating makes of a buffer: nothing, or what is inserted.
LEMMA GeneratedIsChange ==
  ASSUME NEW b, BufferOK(b), NEW table \in DOMAIN Schema, NEW n \in Generated(b, table)
  PROVE  /\ Changed(b, n)
         /\ \/ n = b
            \/ SubSeq(n.text, Cursor(n), Len(n.text)) = SubSeq(b.text, SelectionRange(b)[2], Len(b.text))
<1>1. b \in BufferFields /\ InText(b.text, b.at) /\ SameHistory(b, b)
  BY DEF BufferOK, BufferFields, SameHistory
<1>2. Changed(b, b)
  BY <1>1, MovedIsChanged
<1>3. n = b \/ \E sql \in GeneratedSql(table) : n = InsertText(b, sql)
  BY DEF Generated
<1>4. ASSUME NEW sql \in GeneratedSql(table), n = InsertText(b, sql)
      PROVE  /\ Changed(b, n)
             /\ \/ n = b
                \/ SubSeq(n.text, Cursor(n), Len(n.text)) = SubSeq(b.text, SelectionRange(b)[2], Len(b.text))
  <2>1. sql \in Text
    BY GeneratedSqlTyped
  <2>2. Changed(b, n)
    BY <1>4, <2>1, InsertedIsChanged
  <2>3. n = b \/ SubSeq(n.text, Cursor(n), Len(n.text)) = SubSeq(b.text, SelectionRange(b)[2], Len(b.text))
    BY <1>4, <2>1, InsertedIsChanged
  <2> QED BY <2>2, <2>3
<1> QED BY <1>2, <1>3, <1>4

-----------------------------------------------------------------------------
(* Undo and redo.                                                          *)

\* The texts of a history, one for each entry.
LEMMA TextsTyped ==
  ASSUME NEW h \in Seq(State)
  PROVE  /\ Texts(h) \in Seq(Text) /\ Len(Texts(h)) = Len(h)
         /\ \A k \in 1..Len(h) : Texts(h)[k] = h[k].text
<1>1. PICK n \in Nat : n = Len(h) /\ DOMAIN h = 1..n /\ \A k \in 1..n : h[k] \in State
  OBVIOUS
<1>2. PICK texts : texts = Texts(h)
  OBVIOUS
<1>3. texts = [k \in 1..n |-> h[k].text]
  BY <1>1, <1>2 DEF Texts
<1>4. \A k \in 1..n : h[k].text \in Text
  BY <1>1 DEF State
<1>5. texts \in Seq(Text) /\ Len(texts) = n /\ \A k \in 1..n : texts[k] = h[k].text
  BY <1>3, <1>4
<1> QED BY <1>1, <1>2, <1>5

\* How three sequences are put together does not matter.
LEMMA ThreeInARow ==
  ASSUME NEW S
  PROVE  \A a, b, c \in Seq(S) : a \o (b \o c) = (a \o b) \o c
BY ConcatAssociative

\* The texts a, x, y, c in a row, read with x as the current one and with y.
InOneRow(a, x, y, c) == a \o <<x>> \o Reverse(Append(c, y)) = Append(a, x) \o <<y>> \o Reverse(c)

\* A text goes from one side of the current one to the other.
LEMMA OneStepAlong ==
  ASSUME NEW S, NEW a \in Seq(S), NEW x \in S, NEW y \in S, NEW c \in Seq(S)
  PROVE  InOneRow(a, x, y, c)
<1>1. PICK m \in Nat, n \in Nat : m = Len(a) /\ n = Len(c)
  OBVIOUS
<1>2. PICK r : r = Reverse(c)
  OBVIOUS
<1>3. r \in Seq(S) /\ Len(r) = n /\ \A i \in 1..n : r[i] = c[n - i + 1]
  BY <1>1, <1>2 DEF Reverse
<1>4. PICK q : q = Reverse(Append(c, y))
  OBVIOUS
<1>5. q \in Seq(S) /\ Len(q) = n + 1 /\ q[1] = y /\ \A i \in 1..n : q[i + 1] = c[n - i + 1]
  BY <1>1, <1>4 DEF Reverse
<1>6. PICK left : left = a \o <<x>>
  OBVIOUS
<1>7. left \in Seq(S) /\ Len(left) = m + 1 /\ left = Append(a, x)
  BY <1>1, <1>6
<1>8. PICK one : one = <<y>>
  OBVIOUS
<1>9. one \in Seq(S) /\ Len(one) = 1 /\ one[1] = y
  BY <1>8
<1>10. PICK f, g : f = left \o q /\ g = left \o one \o r
  OBVIOUS
<1>11. q = one \o r
  <2>1. PICK u : u = one \o r
    OBVIOUS
  <2>6. one \in Seq(S) /\ r \in Seq(S)
    BY <1>3, <1>9
  <2>7. /\ u \in Seq(S) /\ Len(u) = Len(one) + Len(r)
        /\ \A i \in 1..Len(one) + Len(r) : u[i] = IF i <= Len(one) THEN one[i] ELSE r[i - Len(one)]
    BY <2>1, <2>6, ConcatProperties
  <2>2. u \in Seq(S) /\ Len(u) = n + 1
    BY <1>3, <1>9, <2>7
  <2>8. \A i \in 1..n + 1 : u[i] = IF i <= 1 THEN one[i] ELSE r[i - 1]
    BY <1>3, <1>9, <2>7
  <2>3. u[1] = y /\ \A i \in 1..n : u[i + 1] = r[i]
    <3>1. u[1] = y
      BY <1>9, <2>8
    <3>2. ASSUME NEW i \in 1..n
          PROVE  u[i + 1] = r[i]
      <4>1. i + 1 \in 1..n + 1 /\ ~(i + 1 <= 1) /\ i + 1 - 1 = i
        OBVIOUS
      <4> QED BY <2>8, <4>1
    <3> QED BY <3>1, <3>2
  <2>4. \A i \in 1..n + 1 : u[i] = q[i]
    <3>1. ASSUME NEW i \in 1..n + 1
          PROVE  u[i] = q[i]
      <4>1. CASE i = 1
        BY <1>5, <2>3, <4>1
      <4>2. CASE i # 1
        <5>1. PICK k \in 1..n : i = k + 1
          BY <4>2
        <5> QED BY <1>3, <1>5, <2>3, <5>1
      <4> QED BY <4>1, <4>2
    <3> QED BY <3>1
  <2>5. u = q
    BY <1>5, <2>2, <2>4, SeqEqual
  <2> QED BY <2>1, <2>5
<1>12. left \o (one \o r) = (left \o one) \o r
  <2>1. left \in Seq(S) /\ one \in Seq(S) /\ r \in Seq(S)
    BY <1>3, <1>7, <1>9
  <2>2. PICK u \in Seq(S), v \in Seq(S), w \in Seq(S) : u = left /\ v = one /\ w = r
    BY <2>1
  <2>3. u \o (v \o w) = (u \o v) \o w
    BY ThreeInARow
  <2> QED BY <2>2, <2>3
<1> QED BY <1>2, <1>4, <1>6, <1>7, <1>8, <1>11, <1>12 DEF InOneRow

\* All but the last of a sequence, and the last one.
LEMMA FrontAndLast ==
  ASSUME NEW S, NEW s \in Seq(S), s # <<>>
  PROVE  /\ Front(s) \in Seq(S) /\ Len(Front(s)) = Len(s) - 1 /\ Last(s) \in S
         /\ \A k \in 1..Len(s) - 1 : Front(s)[k] = s[k]
<1>1. Len(s) \in Nat /\ Len(s) >= 1
  BY EmptySeq
<1>2. Last(s) \in S
  BY <1>1 DEF Last
<1>3. PICK f : f = SubSeq(s, 1, Len(s) - 1)
  OBVIOUS
<1>4. f \in Seq(S) /\ Len(f) = Len(s) - 1 /\ \A k \in 1..Len(s) - 1 : f[k] = s[k]
  <2>1. PICK one \in Int, n \in Int : one = 1 /\ n = Len(s) - 1 /\ n >= 0
    BY <1>1
  <2>2. \A k \in one..n : s[k] \in S
    BY <1>1, <2>1
  <2>3. /\ SubSeq(s, one, n) \in Seq(S)
        /\ Len(SubSeq(s, one, n)) = IF one <= n THEN n - one + 1 ELSE 0
        /\ \A k \in 1..n - one + 1 : SubSeq(s, one, n)[k] = s[one + k - 1]
    BY <2>2, SubSeqProperties
  <2>4. f = SubSeq(s, one, n)
    BY <1>3, <2>1
  <2>5. Len(f) = n
    BY <2>1, <2>3, <2>4
  <2>6. ASSUME NEW k \in 1..n
        PROVE  f[k] = s[k]
    <3>1. k \in 1..n - one + 1 /\ one + k - 1 = k
      BY <2>1
    <3> QED BY <2>3, <2>4, <3>1
  <2> QED BY <2>1, <2>3, <2>4, <2>5, <2>6
<1> QED BY <1>2, <1>3, <1>4 DEF Front

\* The texts of a history that has one entry more than another.
LEMMA TextsAppend ==
  ASSUME NEW h \in Seq(State), NEW s \in State
  PROVE  Texts(Append(h, s)) = Append(Texts(h), s.text)
<1>1. PICK g : g = Append(h, s)
  OBVIOUS
<1>2. g \in Seq(State) /\ Len(g) = Len(h) + 1 /\ g[Len(h) + 1] = s /\ \A k \in 1..Len(h) : g[k] = h[k]
  BY <1>1
<1>3. PICK a, b : a = Texts(g) /\ b = Texts(h)
  OBVIOUS
<1>4. a \in Seq(Text) /\ Len(a) = Len(h) + 1
  BY <1>2, <1>3, TextsTyped
<1>5. \A k \in 1..Len(h) + 1 : a[k] = g[k].text
  <2>1. \A k \in 1..Len(g) : Texts(g)[k] = g[k].text
    BY <1>2, TextsTyped
  <2> QED BY <1>2, <1>3, <2>1
<1>6. b \in Seq(Text) /\ Len(b) = Len(h)
  BY <1>3, TextsTyped
<1>7. \A k \in 1..Len(h) : b[k] = h[k].text
  BY <1>3, TextsTyped
<1>8. PICK x \in Text : x = s.text
  BY DEF State
<1>9. PICK c : c = Append(b, x)
  OBVIOUS
<1>10. c \in Seq(Text) /\ Len(c) = Len(h) + 1 /\ c[Len(h) + 1] = x /\ \A k \in 1..Len(h) : c[k] = b[k]
  BY <1>6, <1>9
<1>11. \A k \in 1..Len(h) + 1 : a[k] = c[k]
  <2>1. ASSUME NEW k \in 1..Len(h) + 1
        PROVE  a[k] = c[k]
    <3>1. CASE k \in 1..Len(h)
      BY <1>2, <1>5, <1>7, <1>10, <3>1
    <3>2. CASE k = Len(h) + 1
      BY <1>2, <1>5, <1>8, <1>10, <3>2
    <3>3. Len(h) \in Nat
      OBVIOUS
    <3> QED BY <3>1, <3>2, <3>3
  <2> QED BY <2>1
<1>12. a = c
  BY <1>4, <1>10, <1>11, SeqEqual
<1> QED BY <1>1, <1>3, <1>8, <1>9, <1>12

\* One step along the line of texts, to and fro.
Walked(b, n) == Timeline(n) = Timeline(b) /\ Len(n.undo) \in {Len(b.undo) - 1, Len(b.undo) + 1}

\* What undo and redo put back is in the text it goes with.
LEMMA RestoredTyped ==
  ASSUME NEW c \in BufferFields, NEW s \in State, NEW n, n = RestoreSnapshot(c, s)
  PROVE  /\ n \in BufferFields /\ n.text = s.text /\ n.undo = c.undo /\ n.redo = c.redo
         /\ n.at = ClampPosition(s.text, s.at) /\ InText(n.text, n.at)
<1>1. s.text \in Text /\ s.at \in Place /\ s.anchor \in Place
  BY DEF State
<1>2. PICK p : p = ClampPosition(s.text, s.at)
  OBVIOUS
<1>3. p \in Place /\ InText(s.text, p)
  BY <1>1, <1>2, ClampInText
<1>4. n = [c EXCEPT !.text = s.text, !.at = p, !.anchor = s.anchor]
  BY <1>2 DEF RestoreSnapshot
<1>5. n = [text |-> s.text, at |-> p, anchor |-> s.anchor, undo |-> c.undo, redo |-> c.redo]
  BY <1>4 DEF BufferFields
<1>6. n \in BufferFields
  BY <1>1, <1>3, <1>5 DEF BufferFields
<1> QED BY <1>2, <1>3, <1>5, <1>6

\* A state of a buffer as an entry of a history.
LEMMA SnapshotTyped ==
  ASSUME NEW b \in BufferFields
  PROVE  Snapshot(b) \in State /\ Snapshot(b).text = b.text /\ Snapshot(b).at = b.at
BY DEF Snapshot, State, BufferFields

\* Undo goes one step back.
LEMMA UndoWalks ==
  ASSUME NEW b, BufferOK(b), NEW n, n = Undo(b)
  PROVE  BufferOK(n) /\ (n = b \/ Walked(b, n))
<1>1. CASE b.undo = <<>>
  BY <1>1 DEF Undo
<1>2. CASE b.undo # <<>>
  <2>1. b \in BufferFields /\ Len(b.undo) + Len(b.redo) <= UndoHistoryLimit
    BY DEF BufferOK, BufferFields
  <2>2. PICK undo \in Seq(State) : undo = b.undo
    BY <2>1 DEF BufferFields
  <2>3. PICK redo \in Seq(State) : redo = b.redo
    BY <2>1 DEF BufferFields
  <2>4. PICK old, s, now : old = Front(undo) /\ s = Last(undo) /\ now = Snapshot(b)
    OBVIOUS
  <2>5. old \in Seq(State) /\ Len(old) = Len(undo) - 1 /\ s \in State
    BY <1>2, <2>2, <2>4, FrontAndLast
  <2>6. now \in State /\ now.text = b.text
    BY <2>1, <2>4, SnapshotTyped
  <2>7. PICK next : next = Append(redo, now)
    OBVIOUS
  <2>8. next \in Seq(State) /\ Len(next) = Len(redo) + 1
    BY <2>6, <2>7
  <2>9. PICK c : c = [b EXCEPT !.undo = old, !.redo = next]
    OBVIOUS
  <2>10. c = [text |-> b.text, at |-> b.at, anchor |-> b.anchor, undo |-> old, redo |-> next]
    BY <2>1, <2>9 DEF BufferFields
  <2>11. c \in BufferFields /\ c.undo = old /\ c.redo = next
    BY <2>1, <2>5, <2>8, <2>10 DEF BufferFields
  <2>12. n = RestoreSnapshot(c, s)
    BY <1>2, <2>2, <2>3, <2>4, <2>7, <2>9, Zenon DEF Undo
  <2>13. /\ n \in BufferFields /\ n.text = s.text /\ n.undo = old /\ n.redo = next
         /\ InText(n.text, n.at)
    BY <2>5, <2>11, <2>12, RestoredTyped
  <2>14. Len(undo) \in Nat /\ Len(redo) \in Nat /\ UndoHistoryLimit \in Nat
    BY HistoryAssumption
  <2>15. Len(n.undo) + Len(n.redo) <= UndoHistoryLimit
    <3>1. PICK u \in Nat, v \in Nat, most \in Nat : u = Len(undo) /\ v = Len(redo) /\ most = UndoHistoryLimit
      BY <2>14
    <3>2. u + v <= most
      BY <2>1, <2>2, <2>3, <3>1
    <3>3. Len(n.undo) = u - 1 /\ Len(n.redo) = v + 1
      BY <2>5, <2>8, <2>13, <3>1
    <3> QED BY <3>1, <3>2, <3>3
  <2>16. BufferOK(n)
    BY <2>13, <2>15 DEF BufferOK, BufferFields
  <2>17. undo = Append(old, s)
    <3>1. PICK h : h = Append(old, s)
      OBVIOUS
    <3>2. h \in Seq(State) /\ Len(h) = Len(undo) /\ h[Len(undo)] = s /\ \A k \in 1..Len(undo) - 1 : h[k] = old[k]
      BY <2>5, <2>14, <3>1
    <3>3. \A k \in 1..Len(undo) - 1 : old[k] = undo[k]
      BY <1>2, <2>2, <2>4, FrontAndLast
    <3>4. s = undo[Len(undo)]
      BY <2>4 DEF Last
    <3>5. \A k \in 1..Len(h) : h[k] = undo[k]
      <4>1. ASSUME NEW k \in 1..Len(h)
            PROVE  h[k] = undo[k]
        <5>1. CASE k = Len(undo)
          BY <3>2, <3>4, <5>1
        <5>2. CASE k # Len(undo)
          <6>1. k \in 1..Len(undo) - 1
            BY <2>14, <3>2, <5>2
          <6> QED BY <3>2, <3>3, <6>1
        <5> QED BY <5>1, <5>2
      <4> QED BY <4>1
    <3>6. h = undo
      BY <3>2, <3>5, SeqEqual
    <3> QED BY <3>1, <3>6
  <2>18. Timeline(n) = Timeline(b)
    <3>1. PICK a, r, x, y : a = Texts(old) /\ r = Texts(redo) /\ x = s.text /\ y = b.text
      OBVIOUS
    <3>2. a \in Seq(Text) /\ r \in Seq(Text)
      BY <2>5, <3>1, TextsTyped
    <3>3. x \in Text /\ y \in Text
      BY <2>1, <2>5, <3>1 DEF State, BufferFields
    <3>4. Texts(undo) = Append(a, x)
      BY <2>5, <2>17, <3>1, TextsAppend
    <3>5. Texts(next) = Append(r, y)
      BY <2>6, <2>7, <3>1, TextsAppend
    <3>6. InOneRow(a, x, y, r)
      BY <3>2, <3>3, OneStepAlong
    <3>7. Timeline(n) = a \o <<x>> \o Reverse(Append(r, y))
      BY <2>13, <3>1, <3>5 DEF Timeline
    <3>8. Timeline(b) = Append(a, x) \o <<y>> \o Reverse(r)
      BY <2>2, <2>3, <3>1, <3>4 DEF Timeline
    <3> QED BY <3>6, <3>7, <3>8 DEF InOneRow
  <2>19. Len(n.undo) = Len(b.undo) - 1
    BY <2>2, <2>5, <2>13
  <2> QED BY <2>16, <2>18, <2>19 DEF Walked
<1> QED BY <1>1, <1>2

\* Redo goes one step forth, and nothing falls out of the history.
LEMMA RedoWalks ==
  ASSUME NEW b, BufferOK(b), NEW n, n = Redo(b)
  PROVE  BufferOK(n) /\ (n = b \/ Walked(b, n))
<1>1. CASE b.redo = <<>>
  BY <1>1 DEF Redo
<1>2. CASE b.redo # <<>>
  <2>1. b \in BufferFields /\ Len(b.undo) + Len(b.redo) <= UndoHistoryLimit
    BY DEF BufferOK, BufferFields
  <2>2. PICK undo \in Seq(State) : undo = b.undo
    BY <2>1 DEF BufferFields
  <2>3. PICK redo \in Seq(State) : redo = b.redo
    BY <2>1 DEF BufferFields
  <2>4. PICK left, s, now : left = Front(redo) /\ s = Last(redo) /\ now = Snapshot(b)
    OBVIOUS
  <2>5. left \in Seq(State) /\ Len(left) = Len(redo) - 1 /\ s \in State
    BY <1>2, <2>3, <2>4, FrontAndLast
  <2>6. now \in State /\ now.text = b.text
    BY <2>1, <2>4, SnapshotTyped
  <2>7. Len(undo) \in Nat /\ Len(redo) \in Nat /\ Len(redo) >= 1 /\ UndoHistoryLimit \in Nat
    BY <1>2, <2>3, HistoryAssumption, EmptySeq
  <2>8. Len(undo) < UndoHistoryLimit /\ Len(undo) + Len(redo) <= UndoHistoryLimit
    <3>1. PICK u \in Nat, v \in Nat, most \in Nat : u = Len(undo) /\ v = Len(redo) /\ most = UndoHistoryLimit
      BY <2>7
    <3>2. u + v <= most /\ v >= 1
      BY <2>1, <2>2, <2>3, <2>7, <3>1
    <3> QED BY <3>1, <3>2
  <2>9. PICK grown : grown = AppendUndoSnapshot(undo, now)
    OBVIOUS
  <2>10. /\ grown \in Seq(State) /\ grown # <<>> /\ grown[Len(grown)] = now
         /\ Len(grown) = IF Len(undo) < UndoHistoryLimit THEN Len(undo) + 1 ELSE UndoHistoryLimit
         /\ \A k \in 1..Len(grown) - 1 : grown[k] = undo[Len(undo) + 1 - Len(grown) + k]
    <3>1. Len(undo) <= UndoHistoryLimit
      BY <2>7, <2>8
    <3>2. grown \in Seq(State) /\ grown # <<>> /\ grown[Len(grown)] = now
      BY <2>6, <2>9, <3>1, HistoryGrows
    <3>3. Len(grown) = IF Len(undo) < UndoHistoryLimit THEN Len(undo) + 1 ELSE UndoHistoryLimit
      BY <2>6, <2>9, <3>1, HistoryGrows
    <3>4. KeepsNewest(undo, grown)
      BY <2>6, <2>9, <3>1, HistoryGrows
    <3> QED BY <3>2, <3>3, <3>4 DEF KeepsNewest
  <2>11. Len(grown) = Len(undo) + 1
    BY <2>10, <2>8
  <2>12. PICK c : c = [b EXCEPT !.undo = grown, !.redo = left]
    OBVIOUS
  <2>13. c = [text |-> b.text, at |-> b.at, anchor |-> b.anchor, undo |-> grown, redo |-> left]
    BY <2>1, <2>12 DEF BufferFields
  <2>14. c \in BufferFields /\ c.undo = grown /\ c.redo = left
    BY <2>1, <2>5, <2>10, <2>13 DEF BufferFields
  <2>15. n = RestoreSnapshot(c, s)
    BY <1>2, <2>2, <2>3, <2>4, <2>9, <2>12, Zenon DEF Redo
  <2>16. /\ n \in BufferFields /\ n.text = s.text /\ n.undo = grown /\ n.redo = left
         /\ InText(n.text, n.at)
    BY <2>5, <2>14, <2>15, RestoredTyped
  <2>17. Len(n.undo) + Len(n.redo) <= UndoHistoryLimit
    <3>1. PICK u \in Nat, v \in Nat, most \in Nat : u = Len(undo) /\ v = Len(redo) /\ most = UndoHistoryLimit
      BY <2>7
    <3>2. u + v <= most
      BY <2>8, <3>1
    <3>3. Len(n.undo) = u + 1 /\ Len(n.redo) = v - 1
      BY <2>5, <2>16, <2>11, <3>1
    <3> QED BY <3>1, <3>2, <3>3
  <2>18. BufferOK(n)
    BY <2>16, <2>17 DEF BufferOK, BufferFields
  <2>19. grown = Append(undo, now)
    <3>1. PICK h : h = Append(undo, now)
      OBVIOUS
    <3>2. h \in Seq(State) /\ Len(h) = Len(undo) + 1 /\ h[Len(undo) + 1] = now /\ \A k \in 1..Len(undo) : h[k] = undo[k]
      BY <2>6, <3>1
    <3>3. \A k \in 1..Len(h) : h[k] = grown[k]
      <4>1. ASSUME NEW k \in 1..Len(h)
            PROVE  h[k] = grown[k]
        <5>1. CASE k = Len(undo) + 1
          BY <2>10, <2>11, <3>2, <5>1
        <5>2. CASE k # Len(undo) + 1
          <6>1. k \in 1..Len(undo) /\ k \in 1..Len(grown) - 1 /\ Len(undo) + 1 - Len(grown) + k = k
            BY <2>7, <2>11, <3>2, <5>2
          <6>2. grown[k] = undo[Len(undo) + 1 - Len(grown) + k]
            BY <2>10, <6>1
          <6> QED BY <3>2, <6>1, <6>2
        <5> QED BY <5>1, <5>2
      <4> QED BY <4>1
    <3>4. h = grown
      BY <2>10, <2>11, <3>2, <3>3, SeqEqual
    <3> QED BY <3>1, <3>4
  <2>20. redo = Append(left, s)
    <3>1. PICK h : h = Append(left, s)
      OBVIOUS
    <3>2. h \in Seq(State) /\ Len(h) = Len(redo) /\ h[Len(redo)] = s /\ \A k \in 1..Len(redo) - 1 : h[k] = left[k]
      BY <2>5, <2>7, <3>1
    <3>3. \A k \in 1..Len(redo) - 1 : left[k] = redo[k]
      BY <1>2, <2>3, <2>4, FrontAndLast
    <3>4. s = redo[Len(redo)]
      BY <2>4 DEF Last
    <3>5. \A k \in 1..Len(h) : h[k] = redo[k]
      <4>1. ASSUME NEW k \in 1..Len(h)
            PROVE  h[k] = redo[k]
        <5>1. CASE k = Len(redo)
          BY <3>2, <3>4, <5>1
        <5>2. CASE k # Len(redo)
          <6>1. k \in 1..Len(redo) - 1
            BY <2>7, <3>2, <5>2
          <6> QED BY <3>2, <3>3, <6>1
        <5> QED BY <5>1, <5>2
      <4> QED BY <4>1
    <3>6. h = redo
      BY <3>2, <3>5, SeqEqual
    <3> QED BY <3>1, <3>6
  <2>21. Timeline(n) = Timeline(b)
    <3>1. PICK a, r, x, y : a = Texts(undo) /\ r = Texts(left) /\ x = b.text /\ y = s.text
      OBVIOUS
    <3>2. a \in Seq(Text) /\ r \in Seq(Text)
      BY <2>5, <3>1, TextsTyped
    <3>3. x \in Text /\ y \in Text
      BY <2>1, <2>5, <3>1 DEF State, BufferFields
    <3>4. Texts(grown) = Append(a, x)
      BY <2>6, <2>19, <3>1, TextsAppend
    <3>5. Texts(redo) = Append(r, y)
      BY <2>5, <2>20, <3>1, TextsAppend
    <3>6. InOneRow(a, x, y, r)
      BY <3>2, <3>3, OneStepAlong
    <3>7. Timeline(b) = a \o <<x>> \o Reverse(Append(r, y))
      BY <2>2, <2>3, <3>1, <3>5 DEF Timeline
    <3>8. Timeline(n) = Append(a, x) \o <<y>> \o Reverse(r)
      BY <2>16, <3>1, <3>4 DEF Timeline
    <3> QED BY <3>6, <3>7, <3>8 DEF InOneRow
  <2>22. Len(n.undo) = Len(b.undo) + 1
    BY <2>2, <2>16, <2>11
  <2> QED BY <2>18, <2>21, <2>22 DEF Walked
<1> QED BY <1>1, <1>2

\* What a history keeps of another one but for its newest entry is a suffix of it.
LEMMA KeptIsSuffix ==
  ASSUME NEW undo \in Seq(State), NEW new \in Seq(State), new # <<>>, Len(new) - 1 <= Len(undo),
         KeepsNewest(undo, new)
  PROVE  IsSuffix(Front(new), undo)
<1>1. PICK f : f = Front(new)
  OBVIOUS
<1>2. f \in Seq(State) /\ Len(f) = Len(new) - 1 /\ Len(f) <= Len(undo)
  BY <1>1, FrontAndLast
<1>3. \A k \in 1..Len(f) : f[k] = new[k]
  <2>1. \A k \in 1..Len(new) - 1 : Front(new)[k] = new[k]
    BY FrontAndLast
  <2> QED BY <1>1, <1>2, <2>1
<1>4. PICK m \in Nat, n \in Nat : m = Len(f) /\ n = Len(undo) /\ m <= n
  BY <1>2
<1>5. \A k \in 1..m : f[k] = undo[n - m + k]
  <2>1. ASSUME NEW k \in 1..m
        PROVE  f[k] = undo[n - m + k]
    <3>1. k \in 1..Len(new) - 1 /\ Len(undo) + 1 - Len(new) + k = n - m + k
      BY <1>2, <1>4
    <3>2. new[k] = undo[Len(undo) + 1 - Len(new) + k]
      BY <3>1 DEF KeepsNewest
    <3> QED BY <1>3, <1>4, <3>1, <3>2
  <2> QED BY <2>1
<1>6. PICK p, q : p = Reverse(f) /\ q = Reverse(undo)
  OBVIOUS
<1>7. p \in Seq(State) /\ Len(p) = m /\ \A i \in 1..m : p[i] = f[m - i + 1]
  BY <1>2, <1>4, <1>6 DEF Reverse
<1>8. q \in Seq(State) /\ Len(q) = n /\ \A i \in 1..n : q[i] = undo[n - i + 1]
  BY <1>4, <1>6 DEF Reverse
<1>9. \A i \in 1..m : p[i] = q[i]
  <2>1. ASSUME NEW i \in 1..m
        PROVE  p[i] = q[i]
    <3>1. PICK k \in 1..m : k = m - i + 1
      OBVIOUS
    <3>2. n - m + k = n - i + 1 /\ i \in 1..n
      BY <1>4, <3>1
    <3>3. f[k] = undo[n - i + 1]
      BY <1>5, <3>2
    <3> QED BY <1>7, <1>8, <3>1, <3>2, <3>3
  <2> QED BY <2>1
<1>10. SubSeq(p, 1, m) = SubSeq(q, 1, m)
  <2>1. PICK x, y : x = SubSeq(p, 1, m) /\ y = SubSeq(q, 1, m)
    OBVIOUS
  <2>2. x = [i \in 1..m |-> p[i]]
    BY <1>7, <2>1
  <2>3. y = [i \in 1..m |-> q[i]]
    BY <1>4, <1>8, <2>1
  <2> QED BY <1>9, <2>1, <2>2, <2>3
<1> QED BY <1>1, <1>4, <1>6, <1>7, <1>8, <1>10 DEF IsSuffix, IsPrefix

\* An edit is taken back as a whole by one undo.
LEMMA EditIsUndone ==
  ASSUME NEW b, BufferOK(b), NEW n, BufferOK(n), EditedFrom(b, n)
  PROVE  /\ n.undo # <<>> /\ n.redo = <<>>
         /\ Undo(n).text = b.text /\ Undo(n).at = b.at
         /\ \/ n.undo = b.undo
            \/ /\ Len(n.undo) = Min({Len(b.undo) + 1, UndoHistoryLimit})
               /\ IsSuffix(Front(n.undo), b.undo)
<1>1. /\ b \in BufferFields /\ b.text \in Text /\ b.at \in Place /\ InText(b.text, b.at)
      /\ Len(b.undo) + Len(b.redo) <= UndoHistoryLimit /\ b.undo \in Seq(State) /\ b.redo \in Seq(State)
  BY DEF BufferOK, BufferFields
<1>2. n \in BufferFields
  BY DEF BufferOK, BufferFields
<1>3. PICK s \in State : s.text = b.text /\ s.at = b.at /\ n.undo = Recorded(b.undo, s)
  BY DEF EditedFrom
<1>4. PICK undo \in Seq(State) : undo = b.undo
  BY <1>1
<1>5. PICK new \in Seq(State) : new = n.undo
  BY <1>2 DEF BufferFields
<1>6. Len(undo) <= UndoHistoryLimit /\ Len(undo) \in Nat /\ UndoHistoryLimit \in Nat /\ UndoHistoryLimit >= 1
  <2>1. PICK u \in Nat, v \in Nat, most \in Nat : u = Len(b.undo) /\ v = Len(b.redo) /\ most = UndoHistoryLimit
    BY <1>1, HistoryAssumption
  <2>2. u + v <= most
    BY <1>1, <2>1
  <2>3. u <= most
    BY <2>2
  <2> QED BY <1>4, <2>1, <2>3, HistoryAssumption
<1>7. /\ new # <<>> /\ Last(new) = s
      /\ new = undo \/ new = AppendUndoSnapshot(undo, s)
  <2>1. CASE undo # <<>> /\ Last(undo) = s
    BY <1>3, <1>4, <1>5, <2>1 DEF Recorded
  <2>2. CASE ~(undo # <<>> /\ Last(undo) = s)
    <3>1. new = AppendUndoSnapshot(undo, s)
      BY <1>3, <1>4, <1>5, <2>2 DEF Recorded
    <3>2. new # <<>> /\ new[Len(new)] = s
      BY <1>6, <3>1, HistoryGrows
    <3> QED BY <3>1, <3>2 DEF Last
  <2> QED BY <2>1, <2>2
<1>8. Undo(n).text = b.text /\ Undo(n).at = b.at
  <2>1. PICK old, now : old = Front(new) /\ now = Snapshot(n)
    OBVIOUS
  <2>2. old \in Seq(State)
    BY <1>7, <2>1, FrontAndLast
  <2>3. now \in State
    BY <1>2, <2>1, SnapshotTyped
  <2>4. PICK redo \in Seq(State) : redo = n.redo
    BY <1>2 DEF BufferFields
  <2>5. PICK next : next = Append(redo, now)
    OBVIOUS
  <2>6. next \in Seq(State)
    BY <2>3, <2>5
  <2>7. PICK c : c = [n EXCEPT !.undo = old, !.redo = next]
    OBVIOUS
  <2>8. c = [text |-> n.text, at |-> n.at, anchor |-> n.anchor, undo |-> old, redo |-> next]
    BY <1>2, <2>7 DEF BufferFields
  <2>9. c \in BufferFields
    BY <1>2, <2>2, <2>6, <2>8 DEF BufferFields
  <2>10. PICK u : u = Undo(n)
    OBVIOUS
  <2>11. u = RestoreSnapshot(c, s)
    BY <1>5, <1>7, <2>1, <2>4, <2>5, <2>7, <2>10, Zenon DEF Undo
  <2>12. u.text = s.text /\ u.at = ClampPosition(s.text, s.at)
    BY <2>9, <2>11, RestoredTyped
  <2>13. ClampPosition(b.text, b.at) = b.at
    BY <1>1, ClampInText
  <2> QED BY <1>3, <2>10, <2>12, <2>13
<1>9. CASE new = undo
  BY <1>3, <1>4, <1>5, <1>7, <1>8, <1>9 DEF EditedFrom
<1>10. CASE new = AppendUndoSnapshot(undo, s)
  <2>1. Len(new) = IF Len(undo) < UndoHistoryLimit THEN Len(undo) + 1 ELSE UndoHistoryLimit
    BY <1>6, <1>10, HistoryGrows
  <2>2. KeepsNewest(undo, new)
    BY <1>6, <1>10, HistoryGrows
  <2>3. Len(new) - 1 <= Len(undo)
    BY <1>6, <2>1
  <2>4. IsSuffix(Front(new), undo)
    BY <1>7, <2>2, <2>3, KeptIsSuffix
  <2>5. Len(new) = Min({Len(undo) + 1, UndoHistoryLimit})
    <3>1. PICK x \in Int, y \in Int : x = Len(undo) + 1 /\ y = UndoHistoryLimit
      BY <1>6
    <3>2. Min({x, y}) = IF x <= y THEN x ELSE y
      BY MaxMinOfTwo
    <3>3. Len(new) = IF x <= y THEN x ELSE y
      BY <1>6, <2>1, <3>1
    <3> QED BY <3>1, <3>2, <3>3
  <2>6. Len(n.undo) = Min({Len(b.undo) + 1, UndoHistoryLimit}) /\ IsSuffix(Front(n.undo), b.undo)
    BY <1>4, <1>5, <2>4, <2>5
  <2>7. n.undo # <<>> /\ n.redo = <<>>
    BY <1>5, <1>7 DEF EditedFrom
  <2> QED BY <1>8, <2>6, <2>7
<1> QED BY <1>7, <1>9, <1>10
-----------------------------------------------------------------------------
(* What an action makes of a tab.                                          *)

Stepped(b, n) == BufferOK(n) /\ (SameHistory(b, n) \/ EditedFrom(b, n) \/ Walked(b, n))

\* The keys that delete take away what they find around the cursor.
LEMMA DeletionsAreChanges ==
  ASSUME NEW b, BufferOK(b)
  PROVE  /\ Changed(b, Backspace(b)) /\ Changed(b, Delete(b))
         /\ Changed(b, DeleteWordLeft(b)) /\ Changed(b, DeleteWordRight(b))
<1>1. b \in BufferFields /\ b.text \in Text
  BY DEF BufferOK, BufferFields
<1>2. PICK i \in 1..Len(b.text) + 1 : i = Cursor(b)
  BY <1>1, CursorInText
<1>3. PICK m \in Nat : m = Len(b.text)
  BY <1>1 DEF Text
<1>4. Max({1, i - 1}) \in 1..m + 1 /\ Min({m + 1, i + 1}) \in 1..m + 1
  <2>1. i \in Int /\ 1 <= i /\ i <= m + 1
    BY <1>2, <1>3
  <2>2. Max({1, i - 1}) = IF 1 >= i - 1 THEN 1 ELSE i - 1
    BY <2>1, MaxMinOfTwo
  <2>3. Min({m + 1, i + 1}) = IF m + 1 <= i + 1 THEN m + 1 ELSE i + 1
    <3>1. PICK x, y \in Int : x = m + 1 /\ y = i + 1
      BY <2>1, <1>3
    <3> QED BY <3>1, MaxMinOfTwo
  <2> QED BY <2>1, <2>2, <2>3, <1>3
<1>5. NextTokenPosition(b.text, i) \in 1..m + 1 /\ PreviousTokenPosition(b.text, i) \in 1..m + 1
  BY <1>1, <1>2, <1>3, TokensInText
<1>6. Backspace(b) = Deleted(b, Max({1, i - 1}), i)
  BY <1>2 DEF Backspace
<1>7. Delete(b) = Deleted(b, i, Min({m + 1, i + 1}))
  BY <1>2, <1>3 DEF Delete
<1>8. DeleteWordLeft(b) = Deleted(b, PreviousTokenPosition(b.text, i), i)
  BY <1>2 DEF DeleteWordLeft
<1>9. DeleteWordRight(b) = Deleted(b, i, NextTokenPosition(b.text, i))
  BY <1>2 DEF DeleteWordRight
<1>10. \A x, y \in 1..m + 1 : Changed(b, Deleted(b, x, y))
  BY <1>3, DeletedIsChanged
<1>11. i \in 1..m + 1
  BY <1>2, <1>3
<1> QED BY <1>4, <1>5, <1>6, <1>7, <1>8, <1>9, <1>10, <1>11

\* What is selected is a piece of the text, which stands where the selection begins.
LEMMA SelectedIsText ==
  ASSUME NEW b \in BufferFields
  PROVE  SelectedText(b) \in Text /\ At(b.text, SelectionRange(b)[1], SelectedText(b))
<1>1. b.text \in Text
  BY DEF BufferFields
<1>2. PICK x \in 1..Len(b.text) + 1 : x = SelectionRange(b)[1]
  BY SelectionInText
<1>3. PICK y \in 1..Len(b.text) + 1 : y = SelectionRange(b)[2]
  BY SelectionInText
<1>4. x <= y
  BY <1>2, <1>3, SelectionInText
<1>5. SelectedText(b) = SubSeq(b.text, x, y - 1)
  BY <1>2, <1>3 DEF SelectedText
<1> QED BY <1>1, <1>2, <1>3, <1>4, <1>5, PieceStands, PieceOfText

\* A change is a step, and so is nothing at all, and so are undo and redo.
LEMMA ChangesAreSteps ==
  ASSUME NEW b, BufferOK(b)
  PROVE  /\ Stepped(b, b) /\ Stepped(b, Undo(b)) /\ Stepped(b, Redo(b))
         /\ \A n : Changed(b, n) => Stepped(b, n)
<1>1. Stepped(b, b)
  BY DEF Stepped, SameHistory
<1>2. Stepped(b, Undo(b)) /\ Stepped(b, Redo(b))
  BY <1>1, UndoWalks, RedoWalks DEF Stepped
<1> QED BY <1>1, <1>2 DEF Stepped, Changed

TabsStepped == DOMAIN buffers' = Tab /\ \A t \in Tab : Stepped(buffers[t], buffers'[t])

\* A step of one tab leaves the others alone.
LEMMA OneTabSteps ==
  ASSUME EditorInvariant, NEW t \in Tab, NEW n, Stepped(buffers[t], n),
         buffers' = [buffers EXCEPT ![t] = n]
  PROVE  TabsStepped
<1>1. DOMAIN buffers = Tab /\ \A u \in Tab : BufferOK(buffers[u])
  BY DEF EditorInvariant
<1>2. \A u \in Tab : Stepped(buffers[u], buffers[u])
  BY <1>1, ChangesAreSteps
<1>3. \A u \in Tab : buffers'[u] = IF u = t THEN n ELSE buffers[u]
  BY <1>1
<1>4. DOMAIN buffers' = Tab
  BY <1>1
<1> QED BY <1>2, <1>3, <1>4 DEF TabsStepped

\* And none at all.
LEMMA NoTabSteps ==
  ASSUME EditorInvariant, UNCHANGED buffers
  PROVE  TabsStepped
<1>1. DOMAIN buffers = Tab /\ \A u \in Tab : BufferOK(buffers[u])
  BY DEF EditorInvariant
<1> QED BY <1>1, ChangesAreSteps DEF TabsStepped

EditorKey ==
  \/ Type \/ EditKey \/ MoveKey \/ UndoBuffer \/ RedoBuffer
  \/ ToggleCurrentLineComment \/ UppercaseSelection
  \/ CopySelection \/ CutSelection \/ PasteClipboard
  \/ RepeatSearch \/ GoToLine \/ SwitchToTab \/ SwitchFocus

\* What the keys leave as good as it was.
DeskKept == plan' \in Plans /\ active' \in Tab /\ clipboard' \in Text

\* The keys of the editor take steps in the active tab and touch neither the
\* diagnostics nor what runs.
LEMMA KeysStep ==
  ASSUME EditorInvariant, EditorKey
  PROVE  TabsStepped /\ DeskKept /\ UNCHANGED <<diagnostics, operation>>
<1>1. PICK b : b = Buffer
  OBVIOUS
<1>2. /\ BufferOK(b) /\ active \in Tab /\ plan \in Plans /\ clipboard \in Text
      /\ b = buffers[active] /\ b \in BufferFields
  BY <1>1 DEF EditorInvariant, Buffer, BufferOK, BufferFields
<1>3. \A n : Changed(b, n) => Stepped(b, n)
  BY <1>2, ChangesAreSteps
<1>4. ASSUME NEW n, Stepped(b, n), Key(n), UNCHANGED plan, clipboard' \in Text
      PROVE  TabsStepped /\ DeskKept /\ UNCHANGED <<diagnostics, operation>>
  <2>1. TabsStepped
    BY <1>2, <1>4, OneTabSteps DEF Key
  <2> QED BY <1>2, <1>4, <2>1 DEF Key, DeskKept, background
<1>5. CASE Type
  <2>1. PICK f \in plan.fragments : Key(InsertText(b, f)) /\ UNCHANGED <<plan, clipboard>>
    BY <1>1, <1>5 DEF Type, Command
  <2>2. f \in Text
    BY <1>2, <2>1, EditorAssumption DEF Text
  <2>3. Changed(b, InsertText(b, f))
    BY <1>2, <2>2, InsertedIsChanged
  <2> QED BY <1>2, <1>3, <1>4, <2>1, <2>3
<1>6. CASE EditKey
  <2>1. PICK n \in {Backspace(b), Delete(b), DeleteWordLeft(b), DeleteWordRight(b)} :
          Key(n) /\ UNCHANGED <<plan, clipboard>>
    BY <1>1, <1>6 DEF EditKey, Command
  <2>2. Changed(b, n)
    BY <1>2, <2>1, DeletionsAreChanges
  <2> QED BY <1>2, <1>3, <1>4, <2>1, <2>2
<1>7. CASE MoveKey
  <2>1. PICK extend \in BOOLEAN : \E n \in
          {MoveLeft(b, extend), MoveRight(b, extend), MoveRows(b, -1, extend),
           MoveRows(b, 1, extend), MoveRows(b, -10, extend), MoveRows(b, 10, extend),
           MoveLineStart(b, extend), MoveLineEnd(b, extend), MoveFileStart(b, extend),
           MoveFileEnd(b, extend), MoveWordLeft(b, extend), MoveWordRight(b, extend)} :
             Key(n) /\ UNCHANGED <<plan, clipboard>>
    BY <1>1, <1>7 DEF MoveKey, Command
  <2>2. /\ Changed(b, MoveRows(b, -1, extend)) /\ Changed(b, MoveRows(b, 1, extend))
        /\ Changed(b, MoveRows(b, -10, extend)) /\ Changed(b, MoveRows(b, 10, extend))
        /\ Changed(b, MoveLeft(b, extend)) /\ Changed(b, MoveRight(b, extend))
        /\ Changed(b, MoveLineStart(b, extend)) /\ Changed(b, MoveLineEnd(b, extend))
        /\ Changed(b, MoveFileStart(b, extend)) /\ Changed(b, MoveFileEnd(b, extend))
        /\ Changed(b, MoveWordLeft(b, extend)) /\ Changed(b, MoveWordRight(b, extend))
    <3>1. -1 \in Int /\ 1 \in Int /\ -10 \in Int /\ 10 \in Int
      OBVIOUS
    <3> QED BY <1>2, <3>1, MovesAreChanges
  <2>3. PICK n : Key(n) /\ UNCHANGED <<plan, clipboard>> /\ Changed(b, n)
    BY <2>1, <2>2
  <2> QED BY <1>2, <1>3, <1>4, <2>3
<1>8. CASE UndoBuffer
  BY <1>1, <1>2, <1>4, <1>8, ChangesAreSteps DEF UndoBuffer, Command
<1>9. CASE RedoBuffer
  BY <1>1, <1>2, <1>4, <1>9, ChangesAreSteps DEF RedoBuffer, Command
<1>10. CASE ToggleCurrentLineComment
  <2>1. Changed(b, ToggleComment(b))
    BY <1>2, ToggleIsChange
  <2> QED BY <1>1, <1>2, <1>3, <1>4, <1>10, <2>1 DEF ToggleCurrentLineComment, Command
<1>11. CASE UppercaseSelection
  <2>1. Changed(b, TransformSelection(b))
    BY <1>2, TransformIsChange
  <2> QED BY <1>1, <1>2, <1>3, <1>4, <1>11, <2>1 DEF UppercaseSelection, Command
<1>12. CASE CopySelection
  <2>1. SelectedText(b) \in Text
    BY <1>2, SelectedIsText
  <2> QED BY <1>1, <1>2, <1>4, <1>12, <2>1, ChangesAreSteps DEF CopySelection, Command
<1>13. CASE CutSelection
  <2>1. SelectedText(b) \in Text
    BY <1>2, SelectedIsText
  <2>2. Changed(b, DeleteSelection(RecordUndo(b)))
    BY <1>2, SelectionDeleted
  <2> QED BY <1>1, <1>2, <1>3, <1>4, <1>13, <2>1, <2>2 DEF CutSelection, Command
<1>14. CASE PasteClipboard
  <2>1. Changed(b, InsertText(b, clipboard))
    BY <1>2, InsertedIsChanged
  <2> QED BY <1>1, <1>2, <1>3, <1>4, <1>14, <2>1 DEF PasteClipboard, Command
<1>15. CASE RepeatSearch
  <2>1. PICK query \in Queries, forward \in BOOLEAN :
          Key(MoveToSearchMatch(b, query, forward)) /\ UNCHANGED <<plan, clipboard>>
    BY <1>1, <1>15 DEF RepeatSearch, Command
  <2>2. Changed(b, MoveToSearchMatch(b, query, forward))
    BY <1>2, <2>1, SearchIsChange
  <2> QED BY <1>2, <1>3, <1>4, <2>1, <2>2
<1>16. CASE GoToLine
  <2>1. PICK line \in 1..LineCount(b.text) : buffers' = [buffers EXCEPT ![active] = MoveTo(@, <<line, 0>>, FALSE)]
    BY <1>1, <1>16 DEF GoToLine
  <2>2. buffers' = [buffers EXCEPT ![active] = MoveTo(b, <<line, 0>>, FALSE)]
    BY <1>2, <2>1
  <2>3. <<line, 0>> \in Place
    BY <2>1 DEF Place
  <2>4. Changed(b, MoveTo(b, <<line, 0>>, FALSE))
    BY <1>2, <2>3, MovesAreChanges
  <2>5. TabsStepped
    BY <1>2, <1>3, <2>2, <2>4, OneTabSteps
  <2> QED BY <1>2, <1>16, <2>5 DEF GoToLine, Command, DeskKept, background
<1>17. CASE SwitchToTab
  BY <1>2, <1>17, NoTabSteps DEF SwitchToTab, Command, DeskKept, background
<1>18. CASE SwitchFocus
  BY <1>2, <1>18, NoTabSteps DEF SwitchFocus, Command, DeskKept, background
<1> QED BY <1>5, <1>6, <1>7, <1>8, <1>9, <1>10, <1>11, <1>12, <1>13, <1>14, <1>15, <1>16, <1>17, <1>18 DEF EditorKey

-----------------------------------------------------------------------------
(* Where errors are.                                                       *)

\* A character of what stands in the source is at a place of the source.
LEMMA ErrorPlaced ==
  ASSUME NEW source \in Text, NEW sql \in Text, NEW place, StandsAt(source, sql, place),
         NEW k \in 1..Len(sql)
  PROVE  /\ PointsAt(source, [text |-> sql, at |-> k], DocumentPlace(place, TextIndexToPosition(sql, k)))
         /\ DocumentPlace(place, TextIndexToPosition(sql, k)) \in Place
<1>1. PICK q \in 1..Len(source) + 1 : At(source, q, sql) /\ place = TextIndexToPosition(source, q)
  BY DEF StandsAt
<1>2. Len(source) \in Nat /\ Len(sql) \in Nat
  BY DEF Text
<1>3. PICK r \in 1..Len(source) + 1 : r = q + k - 1
  BY <1>1, <1>2, PieceAtPlace
<1>4. r \in 1..Len(source) /\ DocumentPlace(place, TextIndexToPosition(sql, k)) = TextIndexToPosition(source, r)
  BY <1>1, <1>2, <1>3, PieceAtPlace
<1>5. r - k + 1 = q
  BY <1>1, <1>3
<1>6. PointsAt(source, [text |-> sql, at |-> k], TextIndexToPosition(source, r))
  BY <1>1, <1>4, <1>5 DEF PointsAt
<1>7. TextIndexToPosition(source, r) \in Place
  BY <1>3, PlaceOfIndex
<1> QED BY <1>4, <1>6, <1>7

\* The cursor put on such a place is on the character the error is about.
LEMMA CursorOnError ==
  ASSUME NEW b, BufferOK(b), NEW fault, NEW p \in Place, PointsAt(b.text, fault, p),
         NEW n, n = MoveBufferToError(b, p)
  PROVE  Changed(b, n) /\ At(n.text, Cursor(n) - fault.at + 1, fault.text)
<1>1. b.text \in Text
  BY DEF BufferOK
<1>2. PICK q \in 1..Len(b.text) : At(b.text, q - fault.at + 1, fault.text) /\ p = TextIndexToPosition(b.text, q)
  BY DEF PointsAt
<1>3. q \in 1..Len(b.text) + 1
  BY <1>1, <1>2 DEF Text
<1>4. InText(b.text, p) /\ PositionToTextIndex(b.text, p) = q
  BY <1>1, <1>2, <1>3, PlaceOfIndex
<1>5. Changed(b, n) /\ n.text = b.text /\ n.at = p
  BY <1>4, ErrorMoveIsChange
<1>6. Cursor(n) = q
  BY <1>4, <1>5 DEF Cursor
<1> QED BY <1>2, <1>5, <1>6

\* What is put into an order is what there was.
LEMMA InOrderTyped ==
  ASSUME NEW n \in Nat, NEW T \in SUBSET (1..n), T # {}
  PROVE  InOrder(T) \in Seq(T) /\ InOrder(T) # <<>> /\ Len(InOrder(T)) \in Nat
<1>1. IsFiniteSet(T) /\ Cardinality(T) \in Nat
  <2>1. IsFiniteSet(1..n)
    BY FS_Interval
  <2>2. IsFiniteSet(T)
    BY <2>1, FS_Subset
  <2> QED BY <2>2, FS_CardinalityType
<1>2. Cardinality(T) # 0
  BY <1>1, FS_EmptySet
<1>3. PICK c \in Nat : c = Cardinality(T) /\ c # 0
  BY <1>1, <1>2
<1>4. ASSUME NEW k \in 1..c PROVE (CHOOSE i \in T : Cardinality({j \in T : j < i}) = k - 1) \in T
  <2>1. k - 1 \in Nat /\ k - 1 < Cardinality(T)
    BY <1>3, <1>4
  <2>2. \E i \in T : Cardinality({j \in T : j < i}) = k - 1
    BY <2>1, Ranked
  <2> QED BY <2>2
<1>5. InOrder(T) = [k \in 1..c |-> CHOOSE i \in T : Cardinality({j \in T : j < i}) = k - 1]
  BY <1>3 DEF InOrder
<1>6. InOrder(T) \in [1..c -> T]
  BY <1>4, <1>5
<1>7. InOrder(T) \in Seq(T) /\ Len(InOrder(T)) = c
  BY <1>3, <1>6
<1> QED BY <1>3, <1>7

\* The statements of a piece of the source stand in the source where they are sent from.
LEMMA SentStands ==
  ASSUME NEW source \in Text, NEW script \in Text, NEW p \in Place, StandsAt(source, script, p)
  PROVE  /\ Sent(script, p) \in Seq([text : Text, place : Place])
         /\ \A n \in DOMAIN Sent(script, p) :
              StandsAt(source, Sent(script, p)[n].text, Sent(script, p)[n].place)
<1>1. PICK q \in 1..Len(source) + 1 : At(source, q, script) /\ p = TextIndexToPosition(source, q)
  BY DEF StandsAt
<1>2. PICK all \in Seq(StatementsIn(script)) : all = SplitScript(script)
  BY SplitScriptStands
<1>3. Sent(script, p) = [n \in DOMAIN all |-> PlacedIn(script, p, all[n])]
  BY <1>2 DEF Sent
<1>4. PICK m \in Nat : m = Len(all) /\ DOMAIN all = 1..m /\ \A n \in 1..m : all[n] \in StatementsIn(script)
  BY <1>2
<1>5. ASSUME NEW n \in 1..m
      PROVE  /\ PlacedIn(script, p, all[n]) \in [text : Text, place : Place]
             /\ StandsAt(source, PlacedIn(script, p, all[n]).text, PlacedIn(script, p, all[n]).place)
  <2>1. PICK s \in StatementsIn(script) : s = all[n]
    BY <1>4
  <2>2. s.text \in Text /\ s.from \in 1..Len(script) /\ At(script, s.from, s.text)
    BY DEF StatementsIn
  <2>3. PICK f \in 1..Len(script) + 1 : f = s.from
    BY <2>2 DEF Text
  <2>4. PICK r \in 1..Len(source) + 1 : r = q + f - 1
    BY <1>1, <2>3, PieceAtPlace
  <2>5. DocumentPlace(p, TextIndexToPosition(script, f)) = TextIndexToPosition(source, r)
    BY <1>1, <2>3, <2>4, PieceAtPlace
  <2>6. At(source, r, s.text)
    <3>1. q \in Int /\ f \in Int
      BY <1>1, <2>3
    <3> QED BY <1>1, <2>2, <2>3, <2>4, <3>1, AtWithin
  <2>7. TextIndexToPosition(source, r) \in Place
    BY <2>4, PlaceOfIndex
  <2>8. PlacedIn(script, p, s) = [text |-> s.text, place |-> TextIndexToPosition(source, r)]
    BY <2>3, <2>5 DEF PlacedIn
  <2>9. StandsAt(source, s.text, TextIndexToPosition(source, r))
    BY <2>4, <2>6 DEF StandsAt
  <2> QED BY <2>1, <2>2, <2>7, <2>8, <2>9
<1>6. Sent(script, p) \in [1..m -> [text : Text, place : Place]] /\ DOMAIN Sent(script, p) = 1..m
  BY <1>3, <1>4, <1>5
<1>7. Sent(script, p) \in Seq([text : Text, place : Place])
  <2>1. PICK E : E = [text : Text, place : Place]
    OBVIOUS
  <2>2. PICK sent : sent = Sent(script, p)
    OBVIOUS
  <2>3. sent \in [1..m -> E]
    BY <1>6, <2>1, <2>2
  <2>4. sent \in Seq(E)
    BY <2>3
  <2> QED BY <2>1, <2>2, <2>4
<1>8. \A n \in 1..m : Sent(script, p)[n] = PlacedIn(script, p, all[n])
  BY <1>3, <1>4
<1> QED BY <1>5, <1>6, <1>7, <1>8

DiagnosticsKept == DOMAIN diagnostics' = Tab /\ \A t \in Tab : DiagnosticsOK(diagnostics'[t])

\* New diagnostics that are at one of their places have the cursor there.
Pointed(old, d, b) ==
  LET fault == d.faults[d.index + 1]
  IN  (d # old /\ d.index >= 0) => At(b.text, Cursor(b) - fault.at + 1, fault.text)
AllPointed == \A t \in Tab : Pointed(diagnostics[t], diagnostics'[t], buffers'[t])

\* Diagnostics of one tab, whose cursor may go to them.
LEMMA OneTabPointed ==
  ASSUME EditorInvariant, NEW t \in Tab, NEW d, DiagnosticsOK(d), NEW n, Stepped(buffers[t], n),
         Pointed(diagnostics[t], d, n), DOMAIN buffers' = Tab,
         \A u \in Tab : buffers'[u] = IF u = t THEN n ELSE buffers[u],
         diagnostics' = [diagnostics EXCEPT ![t] = d]
  PROVE  TabsStepped /\ DiagnosticsKept /\ AllPointed
<1>1. /\ DOMAIN buffers = Tab /\ DOMAIN diagnostics = Tab
      /\ \A u \in Tab : BufferOK(buffers[u]) /\ DiagnosticsOK(diagnostics[u])
  BY DEF EditorInvariant
<1>2. \A u \in Tab : Stepped(buffers[u], buffers[u])
  BY <1>1, ChangesAreSteps
<1>3. DOMAIN diagnostics' = Tab /\ \A u \in Tab : diagnostics'[u] = IF u = t THEN d ELSE diagnostics[u]
  BY <1>1
<1>4. TabsStepped
  BY <1>2 DEF TabsStepped
<1>5. DiagnosticsKept
  BY <1>1, <1>3 DEF DiagnosticsKept
<1>6. ASSUME NEW u \in Tab PROVE Pointed(diagnostics[u], diagnostics'[u], buffers'[u])
  <2>1. CASE u = t
    <3>1. diagnostics'[u] = d /\ buffers'[u] = n
      BY <1>3, <2>1
    <3> QED BY <2>1, <3>1
  <2>2. CASE u # t
    <3>1. diagnostics'[u] = diagnostics[u]
      BY <1>3, <2>2
    <3> QED BY <3>1 DEF Pointed
  <2> QED BY <2>1, <2>2
<1> QED BY <1>4, <1>5, <1>6 DEF AllPointed

\* No diagnostics at all.
LEMMA NoDiagnosticsOK ==
  ASSUME NEW old, NEW b
  PROVE  DiagnosticsOK(NoDiagnostics) /\ Pointed(old, NoDiagnostics, b)
<1>1. PICK E, F : E = Place /\ F = [text : Text, at : Int]
  OBVIOUS
<1>2. <<>> \in Seq(E) /\ <<>> \in Seq(F)
  OBVIOUS
<1>3. <<>> \in Text
  BY DEF Text
<1>4. NoDiagnostics = [places |-> <<>>, index |-> -1, source |-> <<>>, faults |-> <<>>]
  BY DEF NoDiagnostics
<1>5. PICK e : e = <<>> /\ Len(e) = 0 /\ DOMAIN e = {}
  OBVIOUS
<1>6. PICK d : d = NoDiagnostics
  OBVIOUS
<1>7. /\ d \in [places : Seq(Place), index : Int, source : Text, faults : Seq([text : Text, at : Int])]
      /\ d.places = e /\ d.faults = e /\ d.index = -1
  BY <1>1, <1>2, <1>3, <1>4, <1>5, <1>6
<1>8. DiagnosticsOK(d)
  BY <1>5, <1>7 DEF DiagnosticsOK
<1>9. Pointed(old, d, b)
  BY <1>7 DEF Pointed
<1> QED BY <1>6, <1>8, <1>9

\* A script that preflight rejects leaves the cursor on its first issue.
LEMMA RejectionPoints ==
  ASSUME EditorInvariant, NEW script \in Text, NEW p \in Place, StandsAt(Buffer.text, script, p),
         NEW issues \in SUBSET (1..Len(script)), issues # {}, RejectScriptPreflight(script, p, issues)
  PROVE  TabsStepped /\ DiagnosticsKept /\ AllPointed
<1>1. PICK b : b = Buffer
  OBVIOUS
<1>2. BufferOK(b) /\ active \in Tab /\ b = buffers[active] /\ b.text \in Text
  BY <1>1 DEF EditorInvariant, Buffer, BufferOK
<1>3. PICK m \in Nat : m = Len(script)
  BY DEF Text
<1>4. PICK at \in Seq(issues) : at = InOrder(issues) /\ at # <<>>
  BY <1>3, InOrderTyped
<1>5. PICK c \in Nat : c = Len(at) /\ DOMAIN at = 1..c /\ c >= 1 /\ \A k \in 1..c : at[k] \in 1..Len(script)
  <2>1. PICK c \in Nat : c = Len(at) /\ DOMAIN at = 1..c /\ \A k \in 1..c : at[k] \in issues
    BY <1>4
  <2>2. c >= 1
    BY <1>4, <2>1
  <2> QED BY <2>1, <2>2
<1>6. PICK places : places = [k \in 1..c |-> DocumentPlace(p, TextIndexToPosition(script, at[k]))]
  OBVIOUS
<1>7. PICK faults : faults = [k \in 1..c |-> [text |-> script, at |-> at[k]]]
  OBVIOUS
<1>8. PICK d : d = [places |-> places, index |-> 0, source |-> b.text, faults |-> faults]
  OBVIOUS
<1>9. /\ diagnostics' = [diagnostics EXCEPT ![active] = d]
      /\ buffers' = [buffers EXCEPT ![active] = MoveBufferToError(@, places[1])]
  BY <1>1, <1>4, <1>5, <1>6, <1>7, <1>8 DEF RejectScriptPreflight
<1>10. \A k \in 1..c : places[k] \in Place /\ PointsAt(b.text, faults[k], places[k])
  <2>1. ASSUME NEW k \in 1..c PROVE places[k] \in Place /\ PointsAt(b.text, faults[k], places[k])
    <3>1. PICK f \in 1..Len(script) : f = at[k]
      BY <1>5
    <3>2. /\ places[k] = DocumentPlace(p, TextIndexToPosition(script, f))
          /\ faults[k] = [text |-> script, at |-> f]
      BY <1>6, <1>7, <3>1
    <3> QED BY <1>1, <1>2, <3>2, ErrorPlaced
  <2> QED BY <2>1
<1>11. PICK E, F : E = Place /\ F = [text : Text, at : Int]
  OBVIOUS
<1>12. \A k \in 1..c : faults[k] \in F
  BY <1>5, <1>7, <1>11
<1>13. places \in Seq(E) /\ Len(places) = c /\ DOMAIN places = 1..c
  BY <1>6, <1>10, <1>11
<1>14. faults \in Seq(F) /\ Len(faults) = c
  <2>1. faults \in [1..c -> F]
    BY <1>7, <1>12
  <2> QED BY <2>1
<1>15. /\ d \in [places : Seq(Place), index : Int, source : Text, faults : Seq([text : Text, at : Int])]
       /\ d.places = places /\ d.faults = faults /\ d.index = 0 /\ d.source = b.text
  BY <1>2, <1>8, <1>11, <1>13, <1>14
<1>16. DiagnosticsOK(d)
  BY <1>5, <1>10, <1>13, <1>14, <1>15 DEF DiagnosticsOK
<1>17. PICK n : n = MoveBufferToError(b, places[1])
  OBVIOUS
<1>18. Changed(b, n) /\ At(n.text, Cursor(n) - faults[1].at + 1, faults[1].text)
  <2>1. PICK fault, place : fault = faults[1] /\ place = places[1]
    OBVIOUS
  <2>2. place \in Place /\ PointsAt(b.text, fault, place)
    BY <1>5, <1>10, <2>1
  <2> QED BY <1>2, <1>17, <2>1, <2>2, CursorOnError
<1>19. Pointed(diagnostics[active], d, n)
  BY <1>15, <1>18 DEF Pointed
<1>20. Stepped(b, n)
  BY <1>2, <1>18, ChangesAreSteps
<1>21. DOMAIN buffers' = Tab /\ \A u \in Tab : buffers'[u] = IF u = active THEN n ELSE buffers[u]
  <2>1. DOMAIN buffers = Tab
    BY DEF EditorInvariant
  <2> QED BY <1>2, <1>9, <1>17, <2>1
<1>22. PICK t \in Tab : t = active
  BY <1>2
<1>23. /\ Stepped(buffers[t], n) /\ Pointed(diagnostics[t], d, n)
       /\ diagnostics' = [diagnostics EXCEPT ![t] = d]
       /\ \A u \in Tab : buffers'[u] = IF u = t THEN n ELSE buffers[u]
  BY <1>2, <1>9, <1>19, <1>20, <1>21, <1>22
<1> QED BY <1>16, <1>21, <1>23, OneTabPointed

-----------------------------------------------------------------------------
(* Running.                                                                *)

Ran == TabsStepped /\ DiagnosticsKept /\ AllPointed /\ OperationOK(operation')

\* Diagnostics that stay as they are.
LEMMA DiagnosticsStay ==
  ASSUME EditorInvariant, UNCHANGED diagnostics
  PROVE  DiagnosticsKept /\ AllPointed
BY DEF EditorInvariant, DiagnosticsKept, AllPointed, Pointed

\* What is started stands in the text it is sent from.
LEMMA StartedStands ==
  ASSUME EditorInvariant, NEW kind \in {"execute", "explain"},
         NEW statements \in Seq([text : Text, place : Place]),
         \A n \in DOMAIN statements : StandsAt(Buffer.text, statements[n].text, statements[n].place),
         Start(kind, statements)
  PROVE  Ran
<1>1. PICK b : b = Buffer
  OBVIOUS
<1>2. BufferOK(b) /\ active \in Tab /\ b = buffers[active] /\ b.text \in Text /\ OperationOK(operation)
  BY <1>1 DEF EditorInvariant, Buffer, BufferOK
<1>3. TabsStepped
  BY NoTabSteps DEF Start
<1>4. CASE statements = <<>>
  <2>1. diagnostics' = [diagnostics EXCEPT ![active] = NoDiagnostics] /\ operation' = operation /\ UNCHANGED buffers
    BY <1>4 DEF Start
  <2>2. DOMAIN diagnostics = Tab /\ \A u \in Tab : DiagnosticsOK(diagnostics[u])
    BY DEF EditorInvariant
  <2>3. DOMAIN diagnostics' = Tab
        /\ \A u \in Tab : diagnostics'[u] = IF u = active THEN NoDiagnostics ELSE diagnostics[u]
    BY <2>1, <2>2
  <2>4. DiagnosticsKept
    BY <2>2, <2>3, NoDiagnosticsOK DEF DiagnosticsKept
  <2>5. AllPointed
    <3>1. ASSUME NEW u \in Tab PROVE Pointed(diagnostics[u], diagnostics'[u], buffers'[u])
      <4>1. CASE u = active
        <5>1. diagnostics'[u] = NoDiagnostics
          BY <2>3, <4>1
        <5> QED BY <5>1, NoDiagnosticsOK
      <4>2. CASE u # active
        <5>1. diagnostics'[u] = diagnostics[u]
          BY <2>3, <4>2
        <5> QED BY <5>1 DEF Pointed
      <4> QED BY <4>1, <4>2
    <3> QED BY <3>1 DEF AllPointed
  <2> QED BY <1>2, <1>3, <2>1, <2>4, <2>5 DEF Ran
<1>5. CASE statements # <<>>
  <2>1. PICK o : o = [kind |-> kind, tab |-> active, source |-> b.text, statements |-> statements]
    OBVIOUS
  <2>2. operation' \in {o, operation} /\ UNCHANGED diagnostics
    BY <1>1, <1>5, <2>1 DEF Start
  <2>3. o.kind = kind /\ o.tab = active /\ o.source = b.text /\ o.statements = statements
    BY <2>1
  <2>4. OperationOK(o)
    BY <1>1, <1>2, <2>3 DEF OperationOK
  <2> QED BY <1>2, <1>3, <2>2, <2>4, DiagnosticsStay DEF Ran
<1> QED BY <1>4, <1>5

\* A statement of the text, with what preflight says of it.
LEMMA PlacedRuns ==
  ASSUME EditorInvariant, NEW kind \in {"execute", "explain"}, NEW text \in Text, NEW place \in Place,
         StandsAt(Buffer.text, text, place), RunPlaced(kind, text, place)
  PROVE  Ran
<1>1. OperationOK(operation)
  BY DEF EditorInvariant
<1>2. PICK issues \in SUBSET (1..Len(text)) : issues = PreflightScript(text)
  BY PreflightInText
<1>3. CASE issues # {}
  <2>1. RejectScriptPreflight(text, place, issues)
    BY <1>2, <1>3 DEF RunPlaced, Checked
  <2>2. TabsStepped /\ DiagnosticsKept /\ AllPointed
    BY <1>3, <2>1, RejectionPoints
  <2>3. operation' = operation
    BY <2>1 DEF RejectScriptPreflight
  <2> QED BY <1>1, <2>2, <2>3 DEF Ran
<1>4. CASE issues = {}
  <2>1. PICK s : s = [text |-> text, place |-> place]
    OBVIOUS
  <2>2. Start(kind, <<s>>)
    BY <1>2, <1>4, <2>1 DEF RunPlaced, Checked
  <2>3. s \in [text : Text, place : Place] /\ s.text = text /\ s.place = place
    BY <2>1
  <2>4. PICK all \in Seq([text : Text, place : Place]) : all = <<s>>
    BY <2>3, OneTyped
  <2>5. \A n \in DOMAIN all : StandsAt(Buffer.text, all[n].text, all[n].place)
    <3>1. DOMAIN all = {1} /\ all[1] = s
      BY <2>4
    <3> QED BY <2>3, <3>1
  <2> QED BY <2>2, <2>4, <2>5, StartedStands
<1> QED BY <1>3, <1>4

\* A piece of the text, with what preflight says of it.
LEMMA ScriptRuns ==
  ASSUME EditorInvariant, NEW script \in Text, NEW p \in Place,
         StandsAt(Buffer.text, script, p), RunScriptText(script, p)
  PROVE  Ran
<1>1. OperationOK(operation) /\ Buffer.text \in Text
  BY DEF EditorInvariant, Buffer, BufferOK
<1>2. PICK issues \in SUBSET (1..Len(script)) : issues = PreflightScript(script)
  BY PreflightInText
<1>3. CASE issues # {}
  <2>1. RejectScriptPreflight(script, p, issues)
    BY <1>2, <1>3 DEF RunScriptText, Checked
  <2>2. TabsStepped /\ DiagnosticsKept /\ AllPointed
    BY <1>3, <2>1, RejectionPoints
  <2>3. operation' = operation
    BY <2>1 DEF RejectScriptPreflight
  <2> QED BY <1>1, <2>2, <2>3 DEF Ran
<1>4. CASE issues = {}
  <2>1. Start("execute", Sent(script, p))
    BY <1>2, <1>4 DEF RunScriptText, Checked
  <2>2. PICK source \in Text : source = Buffer.text
    BY <1>1
  <2>3. PICK all \in Seq([text : Text, place : Place]) : all = Sent(script, p)
    BY <2>2, SentStands
  <2>4. \A n \in DOMAIN all : StandsAt(Buffer.text, all[n].text, all[n].place)
    BY <2>2, <2>3, SentStands
  <2> QED BY <2>1, <2>3, <2>4, StartedStands
<1> QED BY <1>3, <1>4

\* There is a statement at the cursor when there are statements.
LEMMA StatementChosen ==
  ASSUME NEW m \in Nat, m # 0, NEW statements, Len(statements) = m, DOMAIN statements = 1..m,
         NEW t, NEW line, NEW col
  PROVE  StatementAtCursor(t, statements, line, col) \in 1..m
<1>1. PICK under : under = {n \in DOMAIN statements : StatementContainsCursor(t, statements[n], line, col)}
  OBVIOUS
<1>2. PICK behind : behind = {n \in DOMAIN statements :
                      LET s == statements[n].from IN Line(t, s) > line \/ (Line(t, s) = line /\ Col(t, s) >= col)}
  OBVIOUS
<1>3. under \subseteq 1..m /\ behind \subseteq 1..m /\ under \subseteq Nat /\ behind \subseteq Nat
  BY <1>1, <1>2
<1>4. StatementAtCursor(t, statements, line, col) = MinOr(under, MinOr(behind, m))
  BY <1>1, <1>2 DEF StatementAtCursor
<1>5. \A T \in SUBSET (1..m) : \A d \in 1..m : MinOr(T, d) \in 1..m
  <2>1. ASSUME NEW T \in SUBSET (1..m), NEW d \in 1..m PROVE MinOr(T, d) \in 1..m
    <3>1. T \subseteq Nat /\ T \subseteq 1..m
      OBVIOUS
    <3>2. T # {} => MinOr(T, d) \in T
      BY <3>1, MinOrCases
    <3>3. T = {} => MinOr(T, d) = d
      BY <3>1, MinOrCases
    <3> QED BY <3>1, <3>2, <3>3
  <2> QED BY <2>1
<1>6. MinOr(under, MinOr(behind, m)) \in 1..m
  <2>1. m \in 1..m
    OBVIOUS
  <2>2. PICK d \in 1..m : d = MinOr(behind, m)
    BY <1>3, <1>5, <2>1
  <2> QED BY <1>3, <1>5, <2>2
<1> QED BY <1>4, <1>6

\* The statement at the cursor is run or explained where it stands.
LEMMA StatementRuns ==
  ASSUME EditorInvariant, NEW kind \in {"execute", "explain"}, RunStatementAtCursor(kind)
  PROVE  Ran
<1>1. PICK t \in Text : t = Buffer.text
  BY DEF EditorInvariant, Buffer, BufferOK
<1>2. PICK all \in Seq(StatementsIn(t)) : all = SplitScript(t)
  BY SplitScriptStands
<1>3. /\ all # <<>>
      /\ \E n \in {StatementAtCursor(t, all, Buffer.at[1], Buffer.at[2])} :
           RunPlaced(kind, all[n].text, TextIndexToPosition(t, all[n].from))
  BY <1>1, <1>2 DEF RunStatementAtCursor
<1>4. PICK m \in Nat : m = Len(all) /\ DOMAIN all = 1..m /\ m # 0
  BY <1>2, <1>3
<1>5. PICK n \in 1..m : RunPlaced(kind, all[n].text, TextIndexToPosition(t, all[n].from))
  BY <1>3, <1>4, StatementChosen
<1>6. PICK s \in StatementsIn(t) : s = all[n]
  BY <1>2, <1>4
<1>7. s.text \in Text /\ s.from \in 1..Len(t) /\ At(t, s.from, s.text)
  BY DEF StatementsIn
<1>8. PICK f \in 1..Len(t) + 1 : f = s.from
  BY <1>7 DEF Text
<1>9. PICK place \in Place : place = TextIndexToPosition(t, f)
  BY <1>8, PlaceOfIndex
<1>10. StandsAt(t, s.text, place)
  BY <1>7, <1>8, <1>9 DEF StandsAt
<1> QED BY <1>1, <1>5, <1>6, <1>7, <1>8, <1>9, <1>10, PlacedRuns

\* What the actions that run are.
Running == RunSelection \/ RunCurrentStatement \/ ExplainCurrentStatement \/ RunScript

\* Each of them sends pieces of the text of the active tab.
LEMMA RunningRuns ==
  ASSUME EditorInvariant, Running
  PROVE  Ran /\ DeskKept
<1>1. PICK b : b = Buffer
  OBVIOUS
<1>2. /\ BufferOK(b) /\ b \in BufferFields /\ b.text \in Text
      /\ active \in Tab /\ plan \in Plans /\ clipboard \in Text
  BY <1>1 DEF EditorInvariant, Buffer, BufferOK, BufferFields
<1>3. DeskKept
  BY <1>2 DEF Running, RunSelection, RunCurrentStatement, ExplainCurrentStatement, RunScript, Run, Command, DeskKept
<1>4. CASE RunSelection
  <2>1. PICK q \in 1..Len(b.text) + 1 : q = SelectionRange(b)[1]
    BY <1>2, SelectionInText
  <2>2. PICK script \in Text : script = SelectedText(b) /\ At(b.text, q, script)
    BY <1>2, <2>1, SelectedIsText
  <2>3. PICK p \in Place : p = TextIndexToPosition(b.text, q)
    BY <1>2, <2>1, PlaceOfIndex
  <2>4. StandsAt(b.text, script, p)
    BY <2>1, <2>2, <2>3 DEF StandsAt
  <2>5. RunScriptText(script, p)
    BY <1>1, <1>4, <2>1, <2>2, <2>3 DEF RunSelection
  <2> QED BY <1>1, <1>3, <2>4, <2>5, ScriptRuns
<1>5. CASE RunCurrentStatement
  BY <1>3, <1>5, StatementRuns DEF RunCurrentStatement
<1>6. CASE ExplainCurrentStatement
  BY <1>3, <1>6, StatementRuns DEF ExplainCurrentStatement
<1>7. CASE RunScript
  <2>1. PICK t \in Text : t = b.text
    BY <1>2
  <2>2. Len(t) \in Nat /\ t = SubSeq(t, 1, Len(t))
    BY DEF Text
  <2>3. At(t, 1, t)
    BY <2>2 DEF At
  <2>4. TextIndexToPosition(t, 1) = <<1, 0>> /\ <<1, 0>> \in Place
    BY FirstPosition DEF TextIndexToPosition, Place
  <2>5. StandsAt(t, t, <<1, 0>>)
    BY <2>2, <2>3, <2>4 DEF StandsAt
  <2>6. RunScriptText(t, <<1, 0>>)
    BY <1>1, <1>7, <2>1 DEF RunScript
  <2> QED BY <1>1, <1>3, <2>1, <2>4, <2>5, <2>6, ScriptRuns
<1> QED BY <1>4, <1>5, <1>6, <1>7 DEF Running

-----------------------------------------------------------------------------
(* The answer.                                                             *)

\* An element of a sequence of elements, and a sequence of one.
LEMMA ElementTyped ==
  ASSUME NEW S, NEW s \in Seq(S), NEW n \in DOMAIN s
  PROVE  s[n] \in S
OBVIOUS

\* The one element.
LEMMA OneElement ==
  ASSUME NEW S, NEW e \in S
  PROVE  /\ <<e>> \in Seq(S) /\ Len(<<e>>) = 1
         /\ DOMAIN <<e>> = {1} /\ <<e>>[1] = e
<1>1. <<e>> \in Seq(S) /\ Len(<<e>>) = 1
  BY OneTyped
<1>2. DOMAIN <<e>> = {1} /\ <<e>>[1] = e
  OBVIOUS
<1> QED BY <1>1, <1>2

\* A single diagnostic.
LEMMA OneDiagnosticOK ==
  ASSUME NEW source \in Text, NEW fault \in [text : Text, at : Int], NEW p \in Place,
         PointsAt(source, fault, p), NEW index \in {-1, 0}, NEW d,
         d = [places |-> <<p>>, index |-> index, source |-> source, faults |-> <<fault>>]
  PROVE  DiagnosticsOK(d) /\ d.index = index /\ d.faults[1] = fault
<1>1. PICK E, F : E = Place /\ F = [text : Text, at : Int]
  OBVIOUS
<1>2. PICK places : places = <<p>> /\ places \in Seq(E) /\ Len(places) = 1 /\ DOMAIN places = {1} /\ places[1] = p
  BY <1>1, OneElement
<1>3. PICK faults : faults = <<fault>> /\ faults \in Seq(F) /\ Len(faults) = 1 /\ faults[1] = fault
  <2>1. fault \in F
    BY <1>1
  <2> QED BY <2>1, OneElement
<1>4. d = [places |-> places, index |-> index, source |-> source, faults |-> faults]
  BY <1>2, <1>3
<1>5. /\ d \in [places : Seq(Place), index : Int, source : Text, faults : Seq([text : Text, at : Int])]
      /\ d.places = places /\ d.faults = faults /\ d.index = index /\ d.source = source
  BY <1>1, <1>2, <1>3, <1>4
<1>6. \A n \in DOMAIN d.places : PointsAt(d.source, d.faults[n], d.places[n])
  BY <1>2, <1>3, <1>5
<1>7. Len(d.faults) = Len(d.places) /\ d.index \in -1..Len(d.places) - 1
  BY <1>2, <1>3, <1>5
<1> QED BY <1>3, <1>5, <1>6, <1>7 DEF DiagnosticsOK

\* A failure without a place.
LEMMA PlacelessOK ==
  ASSUME NEW source \in Text, NEW d,
         d = [places |-> <<>>, index |-> -1, source |-> source, faults |-> <<>>]
  PROVE  DiagnosticsOK(d) /\ d.index = -1
<1>1. PICK E, F : E = Place /\ F = [text : Text, at : Int]
  OBVIOUS
<1>2. <<>> \in Seq(E) /\ <<>> \in Seq(F)
  OBVIOUS
<1>3. PICK e : e = <<>> /\ Len(e) = 0 /\ DOMAIN e = {}
  OBVIOUS
<1>4. /\ d \in [places : Seq(Place), index : Int, source : Text, faults : Seq([text : Text, at : Int])]
      /\ d.places = e /\ d.faults = e /\ d.index = -1
  BY <1>1, <1>2, <1>3
<1> QED BY <1>3, <1>4 DEF DiagnosticsOK

\* Diagnostics of one tab that leave every cursor where it is.
LEMMA OneTabTold ==
  ASSUME EditorInvariant, NEW t \in Tab, NEW d, DiagnosticsOK(d), d.index = -1, UNCHANGED buffers,
         diagnostics' = [diagnostics EXCEPT ![t] = d]
  PROVE  TabsStepped /\ DiagnosticsKept /\ AllPointed
<1>1. DOMAIN buffers = Tab /\ \A u \in Tab : BufferOK(buffers[u])
  BY DEF EditorInvariant
<1>2. PICK n : n = buffers[t]
  OBVIOUS
<1>3. Stepped(buffers[t], n)
  BY <1>1, <1>2, ChangesAreSteps
<1>4. Pointed(diagnostics[t], d, n)
  BY DEF Pointed
<1>5. DOMAIN buffers' = Tab /\ \A u \in Tab : buffers'[u] = IF u = t THEN n ELSE buffers[u]
  BY <1>1, <1>2
<1> QED BY <1>3, <1>4, <1>5, OneTabPointed

\* A failure is pointed at where the statement stood in the text it was sent from.
LEMMA FailurePoints ==
  ASSUME EditorInvariant, operation.kind \in {"execute", "explain"}, StatementFails
  PROVE  TabsStepped /\ DiagnosticsKept /\ AllPointed
<1>1. PICK o : o = operation
  OBVIOUS
<1>2. /\ o.tab \in Tab /\ o.source \in Text /\ o.statements \in Seq([text : Text, place : Place])
      /\ \A n \in DOMAIN o.statements : StandsAt(o.source, o.statements[n].text, o.statements[n].place)
  BY <1>1 DEF EditorInvariant, OperationOK, NoOperation
<1>3. PICK t \in Tab : t = o.tab
  BY <1>2
<1>4. BufferOK(buffers[t]) /\ DOMAIN buffers = Tab
  BY <1>3 DEF EditorInvariant
<1>5. PICK n \in DOMAIN o.statements : \E k \in 0..IF o.kind = "explain" THEN 0 ELSE Len(o.statements[n].text) :
        LET s     == o.statements[n]
            moved == k > 0 /\ buffers[t].text = o.source
        IN  /\ diagnostics' = [diagnostics EXCEPT ![t] =
                                 [places |-> IF k = 0 THEN <<>> ELSE <<ErrorPlace(s, k)>>,
                                  index  |-> IF moved THEN 0 ELSE -1, source |-> o.source,
                                  faults |-> IF k = 0 THEN <<>> ELSE <<[text |-> s.text, at |-> k]>>]]
            /\ buffers' = IF moved THEN [buffers EXCEPT ![t] = MoveBufferToError(@, ErrorPlace(s, k))] ELSE buffers
  BY <1>1, <1>3 DEF StatementFails
<1>6. PICK s \in [text : Text, place : Place] : s = o.statements[n] /\ StandsAt(o.source, s.text, s.place)
  <2>1. PICK E, all : E = [text : Text, place : Place] /\ all = o.statements
    OBVIOUS
  <2>2. all \in Seq(E) /\ n \in DOMAIN all
    BY <1>2, <1>5, <2>1
  <2>3. all[n] \in E
    BY <2>2, ElementTyped
  <2> QED BY <1>2, <2>1, <2>3
<1>7. PICK m \in Nat : m = Len(s.text)
  BY DEF Text
<1>8. PICK k \in 0..m, moved \in BOOLEAN :
        /\ moved <=> (k > 0 /\ buffers[t].text = o.source)
        /\ diagnostics' = [diagnostics EXCEPT ![t] =
                             [places |-> IF k = 0 THEN <<>> ELSE <<ErrorPlace(s, k)>>,
                              index  |-> IF moved THEN 0 ELSE -1, source |-> o.source,
                              faults |-> IF k = 0 THEN <<>> ELSE <<[text |-> s.text, at |-> k]>>]]
        /\ buffers' = IF moved THEN [buffers EXCEPT ![t] = MoveBufferToError(@, ErrorPlace(s, k))] ELSE buffers
  <2>1. PICK k \in 0..IF o.kind = "explain" THEN 0 ELSE m :
          /\ diagnostics' = [diagnostics EXCEPT ![t] =
                             [places |-> IF k = 0 THEN <<>> ELSE <<ErrorPlace(s, k)>>,
                              index  |-> IF k > 0 /\ buffers[t].text = o.source THEN 0 ELSE -1, source |-> o.source,
                              faults |-> IF k = 0 THEN <<>> ELSE <<[text |-> s.text, at |-> k]>>]]
          /\ buffers' = IF k > 0 /\ buffers[t].text = o.source
                        THEN [buffers EXCEPT ![t] = MoveBufferToError(@, ErrorPlace(s, k))] ELSE buffers
    BY <1>5, <1>6, <1>7
  <2>2. k \in 0..m
    BY <2>1
  <2>3. PICK moved \in BOOLEAN : moved <=> (k > 0 /\ buffers[t].text = o.source)
    OBVIOUS
  <2> QED BY <2>1, <2>2, <2>3
<1>9. CASE k = 0
  <2>1. PICK d : d = [places |-> <<>>, index |-> -1, source |-> o.source, faults |-> <<>>]
    OBVIOUS
  <2>2. diagnostics' = [diagnostics EXCEPT ![t] = d] /\ UNCHANGED buffers
    BY <1>8, <1>9, <2>1
  <2>3. DiagnosticsOK(d) /\ d.index = -1
    BY <1>2, <2>1, PlacelessOK
  <2> QED BY <2>2, <2>3, OneTabTold
<1>10. CASE k > 0
  <2>1. k \in 1..Len(s.text) /\ k # 0 /\ k \in Int
    BY <1>7, <1>10
  <2>2. PICK fault \in [text : Text, at : Int] : fault = [text |-> s.text, at |-> k]
    BY <2>1
  <2>3. PICK p \in Place : p = ErrorPlace(s, k) /\ PointsAt(o.source, fault, p)
    <3>1. PICK sql, place : sql = s.text /\ place = s.place /\ sql \in Text
      OBVIOUS
    <3> QED BY <1>2, <1>6, <2>1, <2>2, <3>1, ErrorPlaced DEF ErrorPlace
  <2>4. PICK index \in {-1, 0} : index = IF moved THEN 0 ELSE -1
    OBVIOUS
  <2>5. PICK d : d = [places |-> <<p>>, index |-> index, source |-> o.source, faults |-> <<fault>>]
    OBVIOUS
  <2>6. diagnostics' = [diagnostics EXCEPT ![t] = d]
    BY <1>8, <2>1, <2>2, <2>3, <2>4, <2>5
  <2>7. DiagnosticsOK(d) /\ d.index = index /\ d.faults[1] = fault
    BY <1>2, <2>3, <2>5, OneDiagnosticOK
  <2>8. CASE ~moved
    <3>1. UNCHANGED buffers
      BY <1>8, <2>8
    <3> QED BY <2>4, <2>6, <2>7, <2>8, <3>1, OneTabTold
  <2>9. CASE moved
    <3>1. PICK b, q : b = buffers[t] /\ q = MoveBufferToError(b, p)
      OBVIOUS
    <3>2. b.text = o.source /\ buffers' = [buffers EXCEPT ![t] = q]
      BY <1>8, <2>3, <2>9, <3>1
    <3>3. Changed(b, q) /\ At(q.text, Cursor(q) - fault.at + 1, fault.text)
      BY <1>4, <2>3, <3>1, <3>2, CursorOnError
    <3>4. Stepped(buffers[t], q)
      BY <1>4, <3>1, <3>3, ChangesAreSteps
    <3>5. Pointed(diagnostics[t], d, q)
      BY <2>4, <2>7, <2>9, <3>3 DEF Pointed
    <3>6. DOMAIN buffers' = Tab /\ \A u \in Tab : buffers'[u] = IF u = t THEN q ELSE buffers[u]
      BY <1>4, <3>2
    <3> QED BY <2>6, <2>7, <3>4, <3>5, <3>6, OneTabPointed
  <2> QED BY <2>8, <2>9
<1>11. k = 0 \/ k > 0
  OBVIOUS
<1> QED BY <1>9, <1>10, <1>11

\* Warnings are told and no cursor moves.
LEMMA SuccessTells ==
  ASSUME EditorInvariant, operation.kind \in {"execute", "explain"}, StatementsSucceed
  PROVE  TabsStepped /\ DiagnosticsKept /\ AllPointed
<1>1. PICK o : o = operation
  OBVIOUS
<1>2. /\ o.tab \in Tab /\ o.source \in Text /\ o.statements \in Seq([text : Text, place : Place])
      /\ \A n \in DOMAIN o.statements : StandsAt(o.source, o.statements[n].text, o.statements[n].place)
  BY <1>1 DEF EditorInvariant, OperationOK, NoOperation
<1>3. PICK t \in Tab : t = o.tab
  BY <1>2
<1>4. UNCHANGED buffers
  BY DEF StatementsSucceed
<1>5. CASE diagnostics' = [diagnostics EXCEPT ![t] = NoDiagnostics]
  <2>1. PICK d : d = NoDiagnostics
    OBVIOUS
  <2>2. DiagnosticsOK(d) /\ d.index = -1
    BY <2>1, NoDiagnosticsOK DEF NoDiagnostics
  <2> QED BY <1>4, <1>5, <2>1, <2>2, OneTabTold
<1>6. CASE \E n \in DOMAIN o.statements : \E k \in DOMAIN o.statements[n].text :
             diagnostics' = [diagnostics EXCEPT ![t] =
               [places |-> <<ErrorPlace(o.statements[n], k)>>, index |-> -1, source |-> o.source,
                faults |-> <<[text |-> o.statements[n].text, at |-> k]>>]]
  <2>1. PICK n \in DOMAIN o.statements : \E k \in DOMAIN o.statements[n].text :
          diagnostics' = [diagnostics EXCEPT ![t] =
            [places |-> <<ErrorPlace(o.statements[n], k)>>, index |-> -1, source |-> o.source,
             faults |-> <<[text |-> o.statements[n].text, at |-> k]>>]]
    BY <1>6
  <2>2. PICK s \in [text : Text, place : Place] : s = o.statements[n] /\ StandsAt(o.source, s.text, s.place)
    <3>1. PICK E, all : E = [text : Text, place : Place] /\ all = o.statements
      OBVIOUS
    <3>2. all \in Seq(E) /\ n \in DOMAIN all
      BY <1>2, <2>1, <3>1
    <3>3. all[n] \in E
      BY <3>2, ElementTyped
    <3> QED BY <1>2, <3>1, <3>3
  <2>3. PICK sql, place : sql = s.text /\ place = s.place /\ sql \in Text
    OBVIOUS
  <2>4. DOMAIN sql = 1..Len(sql) /\ Len(sql) \in Nat
    BY <2>3 DEF Text
  <2>5. PICK k \in 1..Len(sql) : diagnostics' = [diagnostics EXCEPT ![t] =
            [places |-> <<ErrorPlace(s, k)>>, index |-> -1, source |-> o.source,
             faults |-> <<[text |-> sql, at |-> k]>>]]
    BY <2>1, <2>2, <2>3, <2>4
  <2>6. PICK fault \in [text : Text, at : Int] : fault = [text |-> sql, at |-> k]
    <3>1. k \in Int
      BY <2>5
    <3> QED BY <2>3, <3>1
  <2>7. PICK p \in Place : p = ErrorPlace(s, k) /\ PointsAt(o.source, fault, p)
    BY <1>2, <2>2, <2>3, <2>6, ErrorPlaced DEF ErrorPlace
  <2>8. PICK d : d = [places |-> <<p>>, index |-> -1, source |-> o.source, faults |-> <<fault>>]
    OBVIOUS
  <2>9. DiagnosticsOK(d) /\ d.index = -1
    BY <1>2, <2>7, <2>8, OneDiagnosticOK
  <2>10. diagnostics' = [diagnostics EXCEPT ![t] = d]
    BY <2>5, <2>6, <2>7, <2>8
  <2> QED BY <1>4, <2>9, <2>10, OneTabTold
<1>7. \/ diagnostics' = [diagnostics EXCEPT ![t] = NoDiagnostics]
      \/ \E n \in DOMAIN o.statements : \E k \in DOMAIN o.statements[n].text :
             diagnostics' = [diagnostics EXCEPT ![t] =
               [places |-> <<ErrorPlace(o.statements[n], k)>>, index |-> -1, source |-> o.source,
                faults |-> <<[text |-> o.statements[n].text, at |-> k]>>]]
  BY <1>1, <1>3 DEF StatementsSucceed
<1> QED BY <1>5, <1>6, <1>7

\* The next and the previous diagnostic, around the ends.
LEMMA AroundTheEnds ==
  ASSUME NEW m \in Nat, m # 0, NEW i \in -1..m - 1
  PROVE  /\ (i + 1) % m \in 0..m - 1
         /\ i >= 0 => (i - 1) % m \in 0..m - 1
         /\ m - 1 \in 0..m - 1
OBVIOUS

\* Moving from one diagnostic to another puts the cursor on it.
LEMMA NavigationPoints ==
  ASSUME EditorInvariant, NavigateExecutionDiagnostic
  PROVE  Ran /\ DeskKept
<1>1. PICK t \in Tab : t = active
  BY DEF EditorInvariant
<1>2. PICK b, d : b = buffers[t] /\ d = diagnostics[t]
  OBVIOUS
<1>3. BufferOK(b) /\ DiagnosticsOK(d) /\ DOMAIN buffers = Tab /\ DOMAIN diagnostics = Tab
  BY <1>1, <1>2 DEF EditorInvariant
<1>4. DeskKept /\ OperationOK(operation')
  BY DEF NavigateExecutionDiagnostic, EditorInvariant, DeskKept, Command, background
<1>5. PICK E, F : E = Place /\ F = [text : Text, at : Int]
  OBVIOUS
<1>6. /\ d \in [places : Seq(E), index : Int, source : Text, faults : Seq(F)]
      /\ Len(d.faults) = Len(d.places) /\ d.index \in -1..Len(d.places) - 1
      /\ \A n \in DOMAIN d.places : PointsAt(d.source, d.faults[n], d.places[n])
  BY <1>3, <1>5 DEF DiagnosticsOK
<1>7. /\ d.places # <<>> /\ b.text = d.source
      /\ \E index \in {(d.index + 1) % Len(d.places),
                       IF d.index >= 0 THEN (d.index - 1) % Len(d.places) ELSE Len(d.places) - 1} :
           /\ diagnostics' = [diagnostics EXCEPT ![t].index = index]
           /\ buffers' = [buffers EXCEPT ![t] = MoveBufferToError(@, d.places[index + 1])]
  BY <1>1, <1>2 DEF NavigateExecutionDiagnostic, Buffer
<1>8. PICK places, faults : places = d.places /\ faults = d.faults /\ places \in Seq(E) /\ faults \in Seq(F)
  BY <1>6
<1>9. PICK m \in Nat : m = Len(places) /\ m # 0 /\ DOMAIN places = 1..m
  BY <1>7, <1>8
<1>10. PICK index \in 0..m - 1 :
         /\ diagnostics' = [diagnostics EXCEPT ![t].index = index]
         /\ buffers' = [buffers EXCEPT ![t] = MoveBufferToError(@, places[index + 1])]
  <2>1. PICK i \in -1..m - 1 : i = d.index
    BY <1>6, <1>8, <1>9
  <2>2. PICK index \in {(i + 1) % m, IF i >= 0 THEN (i - 1) % m ELSE m - 1} :
          /\ diagnostics' = [diagnostics EXCEPT ![t].index = index]
          /\ buffers' = [buffers EXCEPT ![t] = MoveBufferToError(@, places[index + 1])]
    BY <1>7, <1>8, <1>9, <2>1
  <2>3. index \in 0..m - 1
    BY <1>9, <2>2, AroundTheEnds
  <2> QED BY <2>2, <2>3
<1>11. PICK e : e = [places |-> places, index |-> index, source |-> d.source, faults |-> faults]
  OBVIOUS
<1>12. e = [d EXCEPT !.index = index]
  BY <1>6, <1>8, <1>11
<1>13. diagnostics' = [diagnostics EXCEPT ![t] = e]
  BY <1>2, <1>10, <1>12
<1>14. /\ e \in [places : Seq(E), index : Int, source : Text, faults : Seq(F)]
       /\ e.places = places /\ e.faults = faults /\ e.index = index /\ e.source = d.source
  BY <1>6, <1>8, <1>11
<1>15. \A n \in DOMAIN e.places : PointsAt(e.source, e.faults[n], e.places[n])
  BY <1>6, <1>8, <1>14
<1>16. Len(e.faults) = Len(e.places) /\ e.index \in -1..Len(e.places) - 1
  BY <1>6, <1>8, <1>9, <1>14
<1>17. DiagnosticsOK(e)
  BY <1>5, <1>14, <1>15, <1>16 DEF DiagnosticsOK
<1>18. index + 1 \in 1..m
  BY <1>9
<1>19. PICK fault, p : fault = faults[index + 1] /\ p = places[index + 1]
  OBVIOUS
<1>20. p \in Place /\ PointsAt(b.text, fault, p)
  BY <1>5, <1>6, <1>7, <1>8, <1>9, <1>18, <1>19
<1>21. PICK n : n = MoveBufferToError(b, p)
  OBVIOUS
<1>22. Changed(b, n) /\ At(n.text, Cursor(n) - fault.at + 1, fault.text)
  BY <1>3, <1>20, <1>21, CursorOnError
<1>23. Stepped(buffers[t], n)
  BY <1>2, <1>3, <1>22, ChangesAreSteps
<1>24. Pointed(diagnostics[t], e, n)
  BY <1>14, <1>19, <1>22 DEF Pointed
<1>25. DOMAIN buffers' = Tab /\ \A u \in Tab : buffers'[u] = IF u = t THEN n ELSE buffers[u]
  BY <1>2, <1>3, <1>10, <1>19, <1>21
<1> QED BY <1>4, <1>13, <1>17, <1>23, <1>24, <1>25, OneTabPointed DEF Ran

\* The end of what ran, whatever it brings.
LEMMA EndsRun ==
  ASSUME EditorInvariant, OperationEnds
  PROVE  Ran /\ DeskKept
<1>1. TabsStepped /\ DiagnosticsKept /\ AllPointed
  BY FailurePoints, SuccessTells DEF OperationEnds
<1>2. DeskKept /\ OperationOK(operation')
  BY DEF EditorInvariant, OperationEnds, DeskKept, OperationOK
<1> QED BY <1>1, <1>2 DEF Ran

-----------------------------------------------------------------------------
(* Completion and generated SQL.                                           *)

\* What is loaded remembers where it was asked for.
LEMMA LoadIsOperation ==
  ASSUME EditorInvariant, NEW kind \in {"metadata", "columns", "autocomplete-refresh", "schema-refresh"},
         NEW objects, NEW tables, kind = "columns" => \E table \in DOMAIN Schema : tables = {table},
         Load(kind, objects, tables)
  PROVE  OperationOK(operation')
<1>1. OperationOK(operation)
  BY DEF EditorInvariant
<1>2. PICK asked : asked = CaptureEditorContext
  OBVIOUS
<1>3. asked = [tab |-> asked.tab, text |-> asked.text, at |-> asked.at,
               anchor |-> asked.anchor, focus |-> asked.focus]
  BY <1>2 DEF CaptureEditorContext
<1>4. PICK o : o = [kind |-> kind, objects |-> objects, tables |-> tables, asked |-> asked]
  OBVIOUS
<1>5. o.kind = kind /\ o.tables = tables /\ o.asked = asked
  BY <1>4
<1>6. OperationOK(o)
  BY <1>3, <1>5 DEF OperationOK
<1>7. operation' \in {operation, o}
  BY <1>2, <1>4 DEF Load
<1> QED BY <1>1, <1>6, <1>7

\* The commands that ask for metadata, and what comes of it.
Completing ==
  \/ AutocompleteEditor \/ GenerateSqlWithColumns \/ RefreshAutocompleteCache \/ MetadataLoaded \/ MetadataFailed

\* They take steps in the active tab and leave the diagnostics alone.
LEMMA CompletingSteps ==
  ASSUME EditorInvariant, Completing
  PROVE  Ran /\ DeskKept
<1>1. PICK b : b = Buffer
  OBVIOUS
<1>2. /\ BufferOK(b) /\ active \in Tab /\ plan \in Plans /\ clipboard \in Text
      /\ b = buffers[active] /\ OperationOK(operation)
  BY <1>1 DEF EditorInvariant, Buffer
<1>3. \A n : Changed(b, n) => Stepped(b, n)
  BY <1>2, ChangesAreSteps
<1>4. \A n : Stepped(b, n) /\ buffers' = [buffers EXCEPT ![active] = n] => TabsStepped
  BY <1>2, OneTabSteps
<1>5. UNCHANGED buffers => TabsStepped
  BY NoTabSteps
<1>6. OperationOK(NoOperation)
  BY DEF OperationOK
<1>7. DeskKept /\ UNCHANGED diagnostics
  BY <1>2 DEF Completing, AutocompleteEditor, GenerateSqlWithColumns, RefreshAutocompleteCache,
              MetadataLoaded, MetadataFailed, Command, DeskKept
<1>8. DiagnosticsKept /\ AllPointed
  BY <1>7, DiagnosticsStay
<1>9. TabsStepped /\ OperationOK(operation')
  <2>1. CASE AutocompleteEditor
    <3>1. \/ /\ \E n \in Completed(b, objectsLoaded, columns) : buffers' = [buffers EXCEPT ![active] = n]
             /\ UNCHANGED operation
          \/ \E objects, tables : Load("metadata", objects, tables)
      BY <1>1, <2>1 DEF AutocompleteEditor
    <3>2. CASE \E objects, tables : Load("metadata", objects, tables)
      <4>1. UNCHANGED buffers
        BY <3>2 DEF Load
      <4>2. PICK objects, tables : Load("metadata", objects, tables)
        BY <3>2
      <4>3. OperationOK(operation')
        BY <4>2, LoadIsOperation
      <4> QED BY <1>5, <4>1, <4>3
    <3>3. CASE /\ \E n \in Completed(b, objectsLoaded, columns) : buffers' = [buffers EXCEPT ![active] = n]
               /\ UNCHANGED operation
      <4>1. PICK n \in Completed(b, objectsLoaded, columns) : buffers' = [buffers EXCEPT ![active] = n]
        BY <3>3
      <4>2. Changed(b, n)
        BY <1>2, <4>1, CompletionIsChange
      <4> QED BY <1>2, <1>3, <1>4, <3>3, <4>1, <4>2
    <3> QED BY <3>1, <3>2, <3>3
  <2>2. CASE GenerateSqlWithColumns
    <3>1. PICK table \in DOMAIN Schema :
            \/ Load("columns", FALSE, {table})
            \/ /\ \E n \in Generated(b, table) : buffers' = [buffers EXCEPT ![active] = n]
               /\ UNCHANGED operation
      BY <1>1, <2>2 DEF GenerateSqlWithColumns
    <3>2. CASE Load("columns", FALSE, {table})
      <4>1. UNCHANGED buffers
        BY <3>2 DEF Load
      <4>2. OperationOK(operation')
        BY <3>1, <3>2, LoadIsOperation
      <4> QED BY <1>5, <4>1, <4>2
    <3>3. CASE /\ \E n \in Generated(b, table) : buffers' = [buffers EXCEPT ![active] = n]
               /\ UNCHANGED operation
      <4>1. PICK n \in Generated(b, table) : buffers' = [buffers EXCEPT ![active] = n]
        BY <3>3
      <4>2. Changed(b, n)
        BY <1>2, <4>1, GeneratedIsChange
      <4> QED BY <1>2, <1>3, <1>4, <3>3, <4>1, <4>2
    <3> QED BY <3>1, <3>2, <3>3
  <2>3. CASE RefreshAutocompleteCache
    <3>1. PICK kind \in {"autocomplete-refresh", "schema-refresh"} : Load(kind, TRUE, {})
      BY <2>3 DEF RefreshAutocompleteCache
    <3>2. UNCHANGED buffers
      BY <3>1 DEF Load
    <3>3. OperationOK(operation')
      BY <3>1, LoadIsOperation
    <3> QED BY <1>5, <3>2, <3>3
  <2>4. CASE MetadataLoaded
    <3>1. OperationOK(operation')
      BY <1>6, <2>4 DEF MetadataLoaded
    <3>2. PICK table : table = CHOOSE u \in operation.tables : TRUE
      OBVIOUS
    <3>3. \/ \E n \in Completed(b, objectsLoaded', columns') : buffers' = [buffers EXCEPT ![active] = n]
          \/ /\ operation.kind = "columns"
             /\ \E n \in Generated(b, table) : buffers' = [buffers EXCEPT ![active] = n]
          \/ UNCHANGED buffers
      BY <1>1, <2>4, <3>2 DEF MetadataLoaded
    <3>4. CASE \E n \in Completed(b, objectsLoaded', columns') : buffers' = [buffers EXCEPT ![active] = n]
      <4>1. PICK n \in Completed(b, objectsLoaded', columns') : buffers' = [buffers EXCEPT ![active] = n]
        BY <3>4
      <4>2. PICK objects, known : objects = objectsLoaded' /\ known = columns'
        OBVIOUS
      <4>3. Changed(b, n)
        BY <1>2, <4>1, <4>2, CompletionIsChange
      <4> QED BY <1>3, <1>4, <3>1, <4>1, <4>3
    <3>5. CASE /\ operation.kind = "columns"
               /\ \E n \in Generated(b, table) : buffers' = [buffers EXCEPT ![active] = n]
      <4>1. table \in DOMAIN Schema
        BY <1>2, <3>2, <3>5 DEF OperationOK, NoOperation
      <4>2. PICK n \in Generated(b, table) : buffers' = [buffers EXCEPT ![active] = n]
        BY <3>5
      <4>3. Changed(b, n)
        BY <1>2, <4>1, <4>2, GeneratedIsChange
      <4> QED BY <1>3, <1>4, <3>1, <4>2, <4>3
    <3> QED BY <1>5, <3>1, <3>3, <3>4, <3>5
  <2>5. CASE MetadataFailed
    BY <1>5, <1>6, <2>5 DEF MetadataFailed
  <2> QED BY <2>1, <2>2, <2>3, <2>4, <2>5 DEF Completing
<1> QED BY <1>7, <1>8, <1>9 DEF Ran

-----------------------------------------------------------------------------
(* The theorems.                                                           *)

\* The scripts that the tabs are loaded with are good.
LEMMA InitIsGood ==
  ASSUME Init
  PROVE  EditorInvariant
<1>1. plan \in Plans /\ plan.script \in [Tab -> Seq(STRING)] /\ active \in Tab
  BY EditorAssumption DEF Init
<1>2. ASSUME NEW t \in Tab PROVE BufferOK(buffers[t]) /\ DiagnosticsOK(diagnostics[t])
  <2>1. PICK b, s : b = buffers[t] /\ s = plan.script[t]
    OBVIOUS
  <2>2. s \in Text /\ b = Loaded(s)
    BY <1>1, <2>1 DEF Init, Text
  <2>3. Len(s) \in Nat
    BY <2>2 DEF Text
  <2>4. TextIndexToPosition(s, 1) = <<1, 0>> /\ <<1, 0>> \in Place /\ NoPlace \in Place
    BY <2>2, FirstPosition DEF TextIndexToPosition, Place, NoPlace
  <2>5. InText(s, <<1, 0>>)
    <3>1. 1 \in 1..Len(s) + 1
      BY <2>3
    <3> QED BY <2>2, <2>4, <3>1, PlaceOfIndex
  <2>6. PICK S, e : S = State /\ e = <<>> /\ e \in Seq(S) /\ Len(e) = 0
    <3>1. PICK S : S = State
      OBVIOUS
    <3>2. <<>> \in Seq(S) /\ Len(<<>>) = 0
      OBVIOUS
    <3> QED BY <3>1, <3>2
  <2>7. b = [text |-> s, at |-> <<1, 0>>, anchor |-> NoPlace, undo |-> e, redo |-> e]
    BY <2>2, <2>6 DEF Loaded
  <2>8. /\ b \in [text : Text, at : Place, anchor : Place, undo : Seq(State), redo : Seq(State)]
        /\ b.text = s /\ b.at = <<1, 0>> /\ b.undo = e /\ b.redo = e
    BY <2>2, <2>4, <2>6, <2>7
  <2>9. BufferOK(b)
    BY <2>5, <2>6, <2>8, HistoryAssumption DEF BufferOK
  <2>10. diagnostics[t] = NoDiagnostics
    BY DEF Init
  <2> QED BY <2>1, <2>9, <2>10, NoDiagnosticsOK
<1>3. <<>> \in Text
  BY DEF Text
<1>4. DOMAIN buffers = Tab /\ DOMAIN diagnostics = Tab /\ clipboard = <<>> /\ operation = NoOperation
  BY DEF Init
<1> QED BY <1>1, <1>2, <1>3, <1>4 DEF EditorInvariant, OperationOK

\* A step of the editor.
Going == TabsStepped /\ DiagnosticsKept /\ AllPointed /\ OperationOK(operation') /\ DeskKept

\* Every step is one, whoever takes it.
LEMMA StepsGo ==
  ASSUME EditorInvariant, [Next]_vars
  PROVE  Going
<1>1. OperationOK(operation)
  BY DEF EditorInvariant
<1>2. CASE EditorKey
  <2>1. TabsStepped /\ DeskKept /\ UNCHANGED <<diagnostics, operation>>
    BY <1>2, KeysStep
  <2> QED BY <1>1, <2>1, DiagnosticsStay DEF Going
<1>3. CASE Running
  BY <1>3, RunningRuns DEF Ran, Going
<1>4. CASE NavigateExecutionDiagnostic
  BY <1>4, NavigationPoints DEF Ran, Going
<1>5. CASE Completing
  BY <1>5, CompletingSteps DEF Ran, Going
<1>6. CASE OperationEnds
  BY <1>6, EndsRun DEF Ran, Going
<1>7. CASE UNCHANGED vars
  <2>1. DeskKept
    BY <1>7 DEF EditorInvariant, DeskKept, vars
  <2>2. UNCHANGED <<buffers, diagnostics, operation>>
    BY <1>7 DEF vars
  <2> QED BY <1>1, <2>1, <2>2, NoTabSteps, DiagnosticsStay DEF Going
<1>8. Next => EditorKey \/ Running \/ NavigateExecutionDiagnostic \/ Completing \/ OperationEnds
  BY DEF Next, User, Poll, EditorKey, Running, Completing
<1> QED BY <1>2, <1>3, <1>4, <1>5, <1>6, <1>7, <1>8

\* In every state of the editor each cursor is in its text, each history within its
\* limit, what runs stands in the text it was sent from, and each diagnostic is at
\* the character it is about.
THEOREM EditorInvariantHolds == Spec => []EditorInvariant
<1>1. Init => EditorInvariant
  BY InitIsGood
<1>2. EditorInvariant /\ [Next]_vars => EditorInvariant'
  <2>1. SUFFICES ASSUME EditorInvariant, [Next]_vars PROVE EditorInvariant'
    OBVIOUS
  <2>2. Going
    BY <2>1, StepsGo
  <2> QED BY <2>2 DEF Going, TabsStepped, Stepped, DiagnosticsKept, DeskKept, EditorInvariant
<1> QED BY <1>1, <1>2, PTL DEF Spec

\* A step of a tab is one on its timeline.
LEMMA StepOnTheTimeline ==
  ASSUME NEW b, BufferOK(b), NEW n, Stepped(b, n)
  PROVE  OnTimeline(b, n)
<1>1. BufferOK(n) /\ (SameHistory(b, n) \/ EditedFrom(b, n) \/ Walked(b, n))
  BY DEF Stepped
<1>2. CASE SameHistory(b, n)
  BY <1>2 DEF SameHistory, OnTimeline
<1>3. CASE Walked(b, n)
  BY <1>3 DEF Walked, OnTimeline
<1>4. CASE EditedFrom(b, n)
  BY <1>1, <1>4, EditIsUndone DEF OnTimeline
<1> QED BY <1>1, <1>2, <1>3, <1>4

\* Undo and redo walk on one line of texts, every edit is taken back as a whole by
\* one undo, and nothing else touches the history: for any scripts, any fragments
\* typed, any limit of the history and any number of tabs.
THEOREM UndoTimelineHolds == Spec => UndoTimeline
<1>1. EditorInvariant /\ [Next]_vars => [\A t \in Tab : OnTimeline(buffers[t], buffers'[t])]_vars
  <2>1. SUFFICES ASSUME EditorInvariant, [Next]_vars, NEW t \in Tab PROVE OnTimeline(buffers[t], buffers'[t])
    OBVIOUS
  <2>2. BufferOK(buffers[t]) /\ Stepped(buffers[t], buffers'[t])
    BY <2>1, StepsGo DEF EditorInvariant, Going, TabsStepped
  <2> QED BY <2>2, StepOnTheTimeline
<1> QED BY <1>1, EditorInvariantHolds, PTL DEF Spec, UndoTimeline

\* The cursor is put on an error only where the text is the one Oracle complained
\* about, at the character it complained about: for any scripts and statements,
\* selections and edits while they ran.
THEOREM ErrorsPointAtSourceHolds == Spec => ErrorsPointAtSource
<1>1. EditorInvariant /\ [Next]_vars =>
        [\A t \in Tab :
           LET d == diagnostics'[t]
               b == buffers'[t]
               fault == d.faults[d.index + 1]
           IN  (d # diagnostics[t] /\ d.index >= 0) => At(b.text, Cursor(b) - fault.at + 1, fault.text)]_vars
  BY StepsGo DEF Going, AllPointed, Pointed
<1> QED BY <1>1, EditorInvariantHolds, PTL DEF Spec, ErrorsPointAtSource

-----------------------------------------------------------------------------
(* Where a completion goes.                                                *)

\* The texts of the tabs are the same when no text is another one.
LEMMA TextsTheSame ==
  ASSUME EditorInvariant, TabsStepped, \A t \in Tab : buffers'[t].text = buffers[t].text
  PROVE  Texts(buffers') = Texts(buffers)
<1>1. DOMAIN buffers = Tab /\ DOMAIN buffers' = Tab
  BY DEF EditorInvariant, TabsStepped
<1> QED BY <1>1 DEF Texts

\* Errors move cursors, no text.
LEMMA FailureKeepsTexts ==
  ASSUME EditorInvariant, OperationEnds
  PROVE  Texts(buffers') = Texts(buffers)
<1>1. TabsStepped
  BY EndsRun DEF Ran
<1>2. DOMAIN buffers = Tab
  BY DEF EditorInvariant
<1>3. CASE UNCHANGED buffers
  BY <1>3
<1>4. CASE StatementFails
  <2>1. \/ UNCHANGED buffers
        \/ \E t, p : buffers' = [buffers EXCEPT ![t] = MoveBufferToError(@, p)]
    BY <1>4 DEF StatementFails
  <2>2. CASE \E t, p : buffers' = [buffers EXCEPT ![t] = MoveBufferToError(@, p)]
    <3>1. PICK t, p : buffers' = [buffers EXCEPT ![t] = MoveBufferToError(@, p)]
      BY <2>2
    <3>2. ASSUME NEW u \in Tab PROVE buffers'[u].text = buffers[u].text
      <4>1. buffers'[u] \in {buffers[u], MoveBufferToError(buffers[u], p)}
        BY <1>2, <3>1
      <4>2. PICK b : b = buffers[u] /\ b \in BufferFields
        BY DEF EditorInvariant, BufferOK, BufferFields
      <4>3. MoveBufferToError(b, p).text = b.text
        BY <4>2 DEF MoveBufferToError, ClearSelection, BufferFields
      <4> QED BY <4>1, <4>2, <4>3
    <3> QED BY <1>1, <3>2, TextsTheSame
  <2> QED BY <1>3, <2>1, <2>2
<1> QED BY <1>3, <1>4 DEF OperationEnds, StatementsSucceed

\* What is asked for is known by where it was asked.
LEMMA AskedHere ==
  ASSUME EditorInvariant, operation.kind \in {"metadata", "columns"}, EditorContextIsCurrent(operation.asked)
  PROVE  operation.asked = CaptureEditorContext
<1>1. PICK o, asked : o = operation /\ asked = operation.asked
  OBVIOUS
<1>2. asked = [tab |-> asked.tab, text |-> asked.text, at |-> asked.at,
               anchor |-> asked.anchor, focus |-> asked.focus]
  BY <1>1 DEF EditorInvariant, OperationOK, NoOperation
<1> QED BY <1>1, <1>2 DEF EditorContextIsCurrent, CaptureEditorContext

\* An answer that comes in time.
LEMMA AnswerWhereAsked ==
  ASSUME EditorInvariant, MetadataLoaded
  PROVE  WhereAsked
<1>1. PICK b : b = Buffer
  OBVIOUS
<1>2. /\ BufferOK(b) /\ active \in Tab /\ b = buffers[active] /\ OperationOK(operation)
      /\ DOMAIN buffers = Tab
  BY <1>1 DEF EditorInvariant, Buffer
<1>3. PICK table : table = CHOOSE u \in operation.tables : TRUE
  OBVIOUS
<1>4. \/ /\ operation.kind = "metadata" /\ EditorContextIsCurrent(operation.asked)
         /\ \E n \in Completed(b, objectsLoaded', columns') : buffers' = [buffers EXCEPT ![active] = n]
      \/ /\ operation.kind = "columns" /\ EditorContextIsCurrent(operation.asked)
         /\ \E n \in Generated(b, table) : buffers' = [buffers EXCEPT ![active] = n]
      \/ UNCHANGED buffers
  BY <1>1, <1>3 DEF MetadataLoaded
<1>5. ASSUME NEW n, operation.asked = CaptureEditorContext, buffers' = [buffers EXCEPT ![active] = n],
             \/ n = b
             \/ \E rest \in {Cursor(b), SelectionRange(b)[2]} :
                  SubSeq(n.text, Cursor(n), Len(n.text)) = SubSeq(b.text, rest, Len(b.text))
      PROVE  WhereAsked
  <2>1. \A t \in Tab : buffers'[t] = IF t = active THEN n ELSE buffers[t]
    BY <1>2, <1>5
  <2>2. CASE n = b
    <3>1. TabsStepped
      <4>1. Stepped(b, n)
        BY <1>2, <2>2, ChangesAreSteps
      <4> QED BY <1>2, <1>5, <4>1, OneTabSteps
    <3>2. \A t \in Tab : buffers'[t].text = buffers[t].text
      BY <1>2, <2>1, <2>2
    <3>3. Texts(buffers') = Texts(buffers)
      BY <3>1, <3>2, TextsTheSame
    <3> QED BY <3>3 DEF WhereAsked
  <2>3. CASE \E rest \in {Cursor(b), SelectionRange(b)[2]} :
               SubSeq(n.text, Cursor(n), Len(n.text)) = SubSeq(b.text, rest, Len(b.text))
    <3>1. buffers'[active] = n /\ \A t \in Tab \ {active} : buffers'[t] = buffers[t]
      BY <1>2, <2>1
    <3> QED BY <1>2, <1>5, <2>3, <3>1 DEF WhereAsked
  <2> QED BY <1>5, <2>2, <2>3
<1>6. CASE /\ operation.kind = "metadata" /\ EditorContextIsCurrent(operation.asked)
           /\ \E n \in Completed(b, objectsLoaded', columns') : buffers' = [buffers EXCEPT ![active] = n]
  <2>1. PICK n \in Completed(b, objectsLoaded', columns') : buffers' = [buffers EXCEPT ![active] = n]
    BY <1>6
  <2>2. PICK objects, known : objects = objectsLoaded' /\ known = columns'
    OBVIOUS
  <2>3. n = b \/ SubSeq(n.text, Cursor(n), Len(n.text)) = SubSeq(b.text, Cursor(b), Len(b.text))
    BY <1>2, <2>1, <2>2, CompletionIsChange
  <2>4. operation.asked = CaptureEditorContext
    BY <1>6, AskedHere
  <2> QED BY <1>5, <2>1, <2>3, <2>4
<1>7. CASE /\ operation.kind = "columns" /\ EditorContextIsCurrent(operation.asked)
           /\ \E n \in Generated(b, table) : buffers' = [buffers EXCEPT ![active] = n]
  <2>1. PICK n \in Generated(b, table) : buffers' = [buffers EXCEPT ![active] = n]
    BY <1>7
  <2>2. table \in DOMAIN Schema
    BY <1>2, <1>3, <1>7 DEF OperationOK, NoOperation
  <2>3. n = b \/ SubSeq(n.text, Cursor(n), Len(n.text)) = SubSeq(b.text, SelectionRange(b)[2], Len(b.text))
    BY <1>2, <2>1, <2>2, GeneratedIsChange
  <2>4. operation.asked = CaptureEditorContext
    BY <1>7, AskedHere
  <2> QED BY <1>5, <2>1, <2>3, <2>4
<1>8. CASE UNCHANGED buffers
  BY <1>8 DEF WhereAsked
<1> QED BY <1>4, <1>6, <1>7, <1>8

\* What is completed or generated goes where it was asked for, around the cursor of
\* the active tab, or nowhere: whatever the user has done while it was loaded.
THEOREM CompletionWhereAskedHolds == Spec => CompletionWhereAsked
<1>1. EditorInvariant /\ [Next]_vars => [WhereAsked]_vars
  <2>0. SUFFICES ASSUME EditorInvariant, [Next]_vars PROVE WhereAsked
    OBVIOUS
  <2>1. CASE UNCHANGED operation
    BY <2>1 DEF WhereAsked
  <2>2. CASE MetadataLoaded
    BY <2>0, <2>2, AnswerWhereAsked
  <2>3. CASE MetadataFailed
    BY <2>3 DEF MetadataFailed, WhereAsked
  <2>4. CASE OperationEnds
    BY <2>0, <2>4, FailureKeepsTexts DEF WhereAsked
  <2>5. CASE EditorKey
    BY <2>0, <2>1, <2>5, KeysStep
  <2>6. CASE Running
    BY <2>6 DEF Running, RunSelection, RunCurrentStatement, ExplainCurrentStatement, RunScript, Run, WhereAsked
  <2>7. CASE NavigateExecutionDiagnostic
    BY <2>1, <2>7 DEF NavigateExecutionDiagnostic, background
  <2>8. CASE AutocompleteEditor \/ GenerateSqlWithColumns \/ RefreshAutocompleteCache
    BY <2>1, <2>8 DEF AutocompleteEditor, GenerateSqlWithColumns, RefreshAutocompleteCache, Load, WhereAsked
  <2>9. CASE UNCHANGED vars
    BY <2>1, <2>9 DEF vars
  <2> QED BY <2>0, <2>2, <2>3, <2>4, <2>5, <2>6, <2>7, <2>8, <2>9 DEF Next, User, Poll, EditorKey, Running
<1> QED BY <1>1, EditorInvariantHolds, PTL DEF Spec, CompletionWhereAsked

-----------------------------------------------------------------------------
(* The scanners of a text see the same literals and comments.              *)

\* h is at an element what is made there of h at the next one.
Recurs(S, stop, last, step, next, h) == h = [x \in S |-> IF stop[x] THEN last[x] ELSE step[x][h[next[x]]]]

\* It ends, and what is made is of V.
Descends(S, V, stop, last, step, next, m, most) ==
  /\ most \in Nat
  /\ \A x \in S : m[x] \in Nat /\ m[x] < most
  /\ \A x \in S : stop[x] => last[x] \in V
  /\ \A x \in S : ~stop[x] => step[x] \in [V -> V]
  /\ \A x \in S : ~stop[x] => next[x] \in S /\ m[next[x]] < m[x]

\* There is such a function.
LEMMA RecursionExists ==
  ASSUME NEW S, NEW V, NEW stop, NEW last, NEW step, NEW next, NEW m, NEW most,
         Descends(S, V, stop, last, step, next, m, most)
  PROVE  \E h : Recurs(S, stop, last, step, next, h) /\ \A x \in S : h[x] \in V
<1>a. /\ most \in Nat
      /\ \A x \in S : m[x] \in Nat /\ m[x] < most
      /\ \A x \in S : stop[x] => last[x] \in V
      /\ \A x \in S : ~stop[x] => step[x] \in [V -> V]
      /\ \A x \in S : ~stop[x] => next[x] \in S /\ m[next[x]] < m[x]
  BY Zenon DEF Descends
<1>1. PICK N : N = {k \in Nat : \E h : \A x \in S : m[x] < k => /\ h[x] = IF stop[x] THEN last[x] ELSE step[x][h[next[x]]]
                                                                /\ h[x] \in V}
  OBVIOUS
<1>2. 0 \in N
  <2>1. \A x \in S : ~(m[x] < 0)
    BY <1>a
  <2> QED BY <1>1, <2>1
<1>3. ASSUME NEW k \in Nat, k \in N PROVE k + 1 \in N
  <2>1. PICK h : \A x \in S : m[x] < k => h[x] = (IF stop[x] THEN last[x] ELSE step[x][h[next[x]]]) /\ h[x] \in V
    BY <1>1, <1>3
  <2>2. PICK g : g = [x \in S |-> IF stop[x] THEN last[x] ELSE step[x][h[next[x]]]]
    OBVIOUS
  <2>3. \A x \in S : g[x] = IF stop[x] THEN last[x] ELSE step[x][h[next[x]]]
    BY <2>2
  <2>4. \A x \in S : m[x] < k => g[x] = h[x]
    BY <2>1, <2>3
  <2>5. ASSUME NEW x \in S, m[x] < k + 1, ~stop[x] PROVE g[next[x]] = h[next[x]] /\ h[next[x]] \in V
    <3>1. next[x] \in S /\ m[next[x]] < m[x] /\ m[next[x]] \in Nat /\ m[x] \in Nat
      BY <1>a, <2>5
    <3>2. m[next[x]] < k
      BY <2>5, <3>1
    <3> QED BY <2>1, <2>4, <3>1, <3>2
  <2>6. \A x \in S : m[x] < k + 1 => /\ g[x] = IF stop[x] THEN last[x] ELSE step[x][g[next[x]]]
                                     /\ g[x] \in V
    <3>1. SUFFICES ASSUME NEW x \in S, m[x] < k + 1
                   PROVE  g[x] = (IF stop[x] THEN last[x] ELSE step[x][g[next[x]]]) /\ g[x] \in V
      OBVIOUS
    <3>2. CASE stop[x]
      BY <1>a, <2>3, <3>2
    <3>3. CASE ~stop[x]
      BY <1>a, <2>3, <2>5, <3>1, <3>3
    <3> QED BY <3>2, <3>3
  <2>7. \E f : \A x \in S : m[x] < k + 1 => f[x] = (IF stop[x] THEN last[x] ELSE step[x][f[next[x]]]) /\ f[x] \in V
    BY <2>6, Zenon
  <2>8. k + 1 \in Nat
    OBVIOUS
  <2> QED BY <1>1, <2>7, <2>8, Zenon
<1>4. most \in N
  BY <1>a, <1>2, <1>3, NatInduct
<1>5. PICK h : \A x \in S : h[x] = (IF stop[x] THEN last[x] ELSE step[x][h[next[x]]]) /\ h[x] \in V
  BY <1>a, <1>1, <1>4
<1>6. PICK g : g = [x \in S |-> IF stop[x] THEN last[x] ELSE step[x][h[next[x]]]]
  OBVIOUS
<1>7. \A x \in S : g[x] = h[x]
  BY <1>5, <1>6
<1>8. \A x \in S : (IF stop[x] THEN last[x] ELSE step[x][h[next[x]]]) = (IF stop[x] THEN last[x] ELSE step[x][g[next[x]]])
  <2>1. \A x \in S : ~stop[x] => h[next[x]] = g[next[x]]
    BY <1>a, <1>7
  <2> QED BY <2>1
<1>9. g = [x \in S |-> IF stop[x] THEN last[x] ELSE step[x][g[next[x]]]]
  BY <1>6, <1>8
<1>10. \A x \in S : g[x] \in V
  BY <1>5, <1>7
<1> QED BY <1>9, <1>10 DEF Recurs

\* One character stands in a text where it is.
LEMMA AtOne ==
  ASSUME NEW t \in Text, NEW i \in Int, NEW a
  PROVE  At(t, i, <<a>>) <=> i >= 1 /\ i <= Len(t) /\ t[i] = a
<1>1. Len(t) \in Nat
  BY DEF Text
<1>2. Len(<<a>>) = 1 /\ i + 1 - 1 = i
  OBVIOUS
<1>3. ASSUME i >= 1, i <= Len(t) PROVE SubSeq(t, i, i) = <<a>> <=> t[i] = a
  <2>1. PICK s : s = SubSeq(t, i, i)
    OBVIOUS
  <2>2. s \in Text /\ Len(s) = 1 /\ s[1] = t[i]
    BY <1>1, <1>3, <2>1, PieceOfText
  <2>3. s = <<s[1]>>
    BY <2>2 DEF Text
  <2>4. s = <<a>> => s[1] = a
    OBVIOUS
  <2>5. s[1] = a => s = <<a>>
    BY <2>3, Zenon
  <2>6. SubSeq(t, i, i) = s
    BY <2>1, Zenon
  <2>7. s = <<a>> <=> s[1] = a
    BY <2>4, <2>5, Zenon
  <2> QED BY <2>2, <2>6, <2>7, Zenon
<1> QED BY <1>1, <1>2, <1>3 DEF At

\* Two.
LEMMA AtTwo ==
  ASSUME NEW t \in Text, NEW i \in Int, NEW a, NEW b
  PROVE  At(t, i, <<a, b>>) <=> i >= 1 /\ i + 1 <= Len(t) /\ t[i] = a /\ t[i + 1] = b
<1>1. Len(t) \in Nat
  BY DEF Text
<1>2. Len(<<a, b>>) = 2 /\ i + 2 - 1 = i + 1
  OBVIOUS
<1>3. ASSUME i >= 1, i + 1 <= Len(t) PROVE SubSeq(t, i, i + 1) = <<a, b>> <=> t[i] = a /\ t[i + 1] = b
  <2>1. PICK s : s = SubSeq(t, i, i + 1)
    OBVIOUS
  <2>2. s \in Text /\ Len(s) = 2 /\ s[1] = t[i] /\ s[2] = t[i + 1]
    BY <1>1, <1>3, <2>1, PieceOfText
  <2>3. s = <<s[1], s[2]>>
    BY <2>2 DEF Text
  <2>4. s = <<a, b>> => s[1] = a /\ s[2] = b
    OBVIOUS
  <2>5. s[1] = a /\ s[2] = b => s = <<a, b>>
    BY <2>3, Zenon
  <2>6. SubSeq(t, i, i + 1) = s
    BY <2>1, Zenon
  <2>7. s = <<a, b>> <=> s[1] = a /\ s[2] = b
    BY <2>4, <2>5, Zenon
  <2> QED BY <2>2, <2>6, <2>7, Zenon
<1> QED BY <1>1, <1>2, <1>3 DEF At

\* Three.
LEMMA AtThree ==
  ASSUME NEW t \in Text, NEW i \in Int, NEW a, NEW b, NEW c
  PROVE  At(t, i, <<a, b, c>>) <=> i >= 1 /\ i + 2 <= Len(t) /\ t[i] = a /\ t[i + 1] = b /\ t[i + 2] = c
<1>1. Len(t) \in Nat
  BY DEF Text
<1>2. Len(<<a, b, c>>) = 3 /\ i + 3 - 1 = i + 2
  OBVIOUS
<1>3. ASSUME i >= 1, i + 2 <= Len(t)
      PROVE  SubSeq(t, i, i + 2) = <<a, b, c>> <=> t[i] = a /\ t[i + 1] = b /\ t[i + 2] = c
  <2>1. PICK s : s = SubSeq(t, i, i + 2)
    OBVIOUS
  <2>2. s \in Text /\ Len(s) = 3 /\ s[1] = t[i] /\ s[2] = t[i + 1] /\ s[3] = t[i + 2]
    BY <1>1, <1>3, <2>1, PieceOfText
  <2>3. s = <<s[1], s[2], s[3]>>
    BY <2>2 DEF Text
  <2>4. s = <<a, b, c>> => s[1] = a /\ s[2] = b /\ s[3] = c
    OBVIOUS
  <2>5. s[1] = a /\ s[2] = b /\ s[3] = c => s = <<a, b, c>>
    BY <2>3, Zenon
  <2>6. SubSeq(t, i, i + 2) = s
    BY <2>1, Zenon
  <2>7. s = <<a, b, c>> <=> s[1] = a /\ s[2] = b /\ s[3] = c
    BY <2>4, <2>5, Zenon
  <2> QED BY <2>2, <2>6, <2>7, Zenon
<1> QED BY <1>1, <1>2, <1>3 DEF At

\* e is where what is open at a position ends: end closes it, unless doubled and
\* a doubled end does not.
EndsAt(t, end, doubled, e) ==
  \A i \in 1..Len(t) + 1 :
     e[i] = IF i > Len(t) THEN Len(t) + 1
            ELSE IF doubled /\ At(t, i, end \o end) THEN e[i + 2]
            ELSE IF At(t, i, end) THEN i + Len(end) ELSE e[i + 1]

\* It ends in the text or with it, at the position or behind it.
LEMMA EndingAhead ==
  ASSUME NEW t \in Text, NEW end, Len(end) \in Nat \ {0}, Len(end \o end) = Len(end) + Len(end),
         NEW doubled, doubled => Len(end) = 1, NEW e, EndsAt(t, end, doubled, e)
  PROVE  \A i \in 1..Len(t) + 1 : e[i] \in i..Len(t) + 1
<1>1. Len(t) \in Nat
  BY DEF Text
<1>2. PICK S : S = 1..Len(t) + 1
  OBVIOUS
<1>3. PICK m : m = [i \in S |-> Len(t) + 1 - i]
  OBVIOUS
<1>4. PICK G : G = {i \in S : e[i] \in i..Len(t) + 1}
  OBVIOUS
<1>5. \A i \in S : m[i] \in Nat
  BY <1>1, <1>2, <1>3
<1>6. ASSUME NEW i \in S, \A j \in S : m[j] < m[i] => j \in G PROVE i \in G
  <2>1. e[i] = IF i > Len(t) THEN Len(t) + 1
               ELSE IF doubled /\ At(t, i, end \o end) THEN e[i + 2]
               ELSE IF At(t, i, end) THEN i + Len(end) ELSE e[i + 1]
    BY <1>2, <1>6 DEF EndsAt
  <2>2. i \in Int /\ i >= 1 /\ i <= Len(t) + 1
    BY <1>1, <1>2, <1>6
  <2>3. CASE i > Len(t)
    <3>1. e[i] = Len(t) + 1
      BY <2>1, <2>3
    <3> QED BY <1>1, <1>4, <1>6, <2>2, <3>1
  <2>4. ASSUME NEW j \in i + 1..Len(t) + 1 PROVE e[j] \in j..Len(t) + 1
    <3>1. j \in S /\ m[j] = Len(t) + 1 - j /\ m[i] = Len(t) + 1 - i
      BY <1>1, <1>2, <1>3, <1>6, <2>2, <2>4
    <3>2. m[j] < m[i]
      BY <1>1, <2>2, <2>4, <3>1
    <3> QED BY <1>4, <1>6, <3>1, <3>2
  <2>5. CASE i <= Len(t) /\ doubled /\ At(t, i, end \o end)
    <3>1. i + 2 - 1 <= Len(t)
      <4>1. PICK d : d = end \o end
        OBVIOUS
      <4>2. Len(d) = 2
        <5>1. Len(end) = 1
          BY <2>5, Zenon
        <5> QED BY <4>1, <5>1
      <4>3. i + Len(d) - 1 <= Len(t)
        BY <2>5, <4>1 DEF At
      <4> QED BY <4>2, <4>3
    <3>2. i + 2 \in i + 1..Len(t) + 1
      BY <1>1, <2>2, <3>1
    <3>3. e[i] = e[i + 2] /\ e[i + 2] \in i + 2..Len(t) + 1
      BY <2>1, <2>2, <2>4, <2>5, <3>2
    <3> QED BY <1>1, <1>4, <1>6, <2>2, <3>3
  <2>6. CASE i <= Len(t) /\ ~(doubled /\ At(t, i, end \o end)) /\ At(t, i, end)
    <3>1. i + Len(end) - 1 <= Len(t)
      BY <2>6 DEF At
    <3>2. e[i] = i + Len(end)
      BY <1>1, <2>1, <2>2, <2>6
    <3> QED BY <1>1, <1>4, <1>6, <2>2, <3>1, <3>2
  <2>7. CASE i <= Len(t) /\ ~(doubled /\ At(t, i, end \o end)) /\ ~At(t, i, end)
    <3>1. i + 1 \in i + 1..Len(t) + 1
      BY <1>1, <2>2, <2>7
    <3>2. e[i] = e[i + 1] /\ e[i + 1] \in i + 1..Len(t) + 1
      BY <1>1, <2>1, <2>2, <2>4, <2>7, <3>1
    <3> QED BY <1>1, <1>4, <1>6, <2>2, <3>2
  <2> QED BY <1>1, <2>2, <2>3, <2>5, <2>6, <2>7
<1>7. \A i \in S : i \in G
  BY <1>5, <1>6, MeasureInduct
<1> QED BY <1>2, <1>4, <1>7

\* The next end is searched for, and so found one position at a time.
LEMMA AfterEnds ==
  ASSUME NEW t \in Text, NEW p, Len(p) \in Nat \ {0}
  PROVE  EndsAt(t, p, FALSE, [i \in 1..Len(t) + 1 |-> After(t, p, i)])
<1>1. Len(t) \in Nat
  BY DEF Text
<1>2. SUFFICES ASSUME NEW i \in 1..Len(t) + 1
               PROVE  After(t, p, i) = IF i > Len(t) THEN Len(t) + 1
                                       ELSE IF At(t, i, p) THEN i + Len(p) ELSE After(t, p, i + 1)
  <2>1. PICK e : e = [i \in 1..Len(t) + 1 |-> After(t, p, i)]
    OBVIOUS
  <2>2. \A i \in 1..Len(t) + 1 : i > Len(t) \/ (i + 1 \in 1..Len(t) + 1 /\ e[i + 1] = After(t, p, i + 1))
    BY <1>1, <2>1
  <2>3. \A i \in 1..Len(t) + 1 : e[i] = After(t, p, i)
    BY <2>1
  <2>4. EndsAt(t, p, FALSE, e)
    BY <1>2, <2>2, <2>3 DEF EndsAt
  <2> QED BY <2>1, <2>4
<1>3. i \in Int /\ i >= 1 /\ i <= Len(t) + 1
  BY <1>1
<1>4. PICK n \in Nat : n = Len(p) /\ n >= 1
  OBVIOUS
<1>5. PICK T, U : T = {j + n : j \in Find(t, p, i)} /\ U = {j + n : j \in Find(t, p, i + 1)}
  OBVIOUS
<1>6. After(t, p, i) = MinOr(T, Len(t) + 1) /\ After(t, p, i + 1) = MinOr(U, Len(t) + 1)
  BY <1>4, <1>5 DEF After
<1>7. Find(t, p, i) \subseteq i..Len(t) /\ Find(t, p, i + 1) = Find(t, p, i) \ {i}
  BY <1>1, <1>3 DEF Find
<1>8. T \subseteq Nat /\ \A y \in T : y >= i + n
  BY <1>1, <1>3, <1>4, <1>5, <1>7
<1>9. CASE i > Len(t)
  <2>1. T = {}
    BY <1>1, <1>3, <1>5, <1>7, <1>9
  <2> QED BY <1>6, <1>8, <1>9, <2>1, MinOrCases
<1>10. CASE i <= Len(t) /\ At(t, i, p)
  <2>1. i + n \in T
    BY <1>1, <1>3, <1>5, <1>10 DEF Find
  <2>2. MinOr(T, Len(t) + 1) \in T /\ MinOr(T, Len(t) + 1) <= i + n
    BY <1>8, <2>1, MinOrCases
  <2>3. MinOr(T, Len(t) + 1) = i + n
    <3>1. PICK v : v = MinOr(T, Len(t) + 1)
      OBVIOUS
    <3>2. v \in T /\ v <= i + n
      BY <2>2, <3>1
    <3>3. v \in Int /\ v >= i + n /\ i + n \in Int
      BY <1>3, <1>4, <1>8, <3>2
    <3> QED BY <3>1, <3>2, <3>3
  <2> QED BY <1>1, <1>3, <1>4, <1>6, <1>10, <2>3
<1>11. CASE i <= Len(t) /\ ~At(t, i, p)
  <2>1. i \notin Find(t, p, i)
    BY <1>11 DEF Find
  <2>2. T = U
    BY <1>5, <1>7, <2>1
  <2> QED BY <1>1, <1>3, <1>6, <1>11, <2>2
<1> QED BY <1>1, <1>3, <1>9, <1>10, <1>11

\* e is the function by which QuotedTextEnd is defined.
QuoteEnds(t, quote, e) ==
  e = [j \in 1..Len(t) + 2 |->
        CASE j > Len(t)                 -> Len(t) + 1
          [] At(t, j, <<quote, quote>>) -> e[j + 2]
          [] j <= Len(t) /\ t[j] = quote /\ ~At(t, j, <<quote, quote>>) -> j + 1
          [] OTHER                      -> e[j + 1]]

\* One element and another one.
LEMMA OneAndOne ==
  ASSUME NEW c
  PROVE  <<c>> \o <<c>> = <<c, c>> /\ Len(<<c>>) = 1
<1>1. PICK S : S = {c}
  OBVIOUS
<1>2. PICK one : one = <<c>>
  OBVIOUS
<1>3. one \in Seq(S) /\ Len(one) = 1
  <2>1. c \in S
    BY <1>1
  <2> QED BY <1>2, <2>1, OneTyped
<1>4. PICK two : two = one \o one
  OBVIOUS
<1>5. two \in Seq(S) /\ Len(two) = 2
  <2>1. two \in Seq(S) /\ Len(two) = Len(one) + Len(one)
    BY <1>3, <1>4, ConcatProperties
  <2> QED BY <1>3, <2>1
<1>6. two[1] \in S /\ two[2] \in S
  BY <1>5
<1>7. two = <<two[1], two[2]>>
  BY <1>5
<1>8. two[1] = c /\ two[2] = c
  BY <1>1, <1>6
<1>9. two = <<c, c>>
  BY <1>7, <1>8, Zenon
<1> QED BY <1>2, <1>3, <1>4, <1>9, Zenon

\* The end of a quoted text, by a function that goes from quote to quote.
LEMMA QuotedEnds ==
  ASSUME NEW t \in Text, NEW quote
  PROVE  \E e : EndsAt(t, <<quote>>, TRUE, e) /\ \A i \in 1..Len(t) : QuotedTextEnd(t, i, quote) = e[i + 1]
<1>1. Len(t) \in Nat
  BY DEF Text
<1>2. PICK S, n : S = 1..Len(t) + 2 /\ n = Len(t) + 2
  OBVIOUS
<1>3. PICK stop : stop = [j \in S |-> j > Len(t) \/ (~At(t, j, <<quote, quote>>) /\ t[j] = quote)]
  OBVIOUS
<1>4. PICK last : last = [j \in S |-> IF j > Len(t) THEN Len(t) + 1 ELSE j + 1]
  OBVIOUS
<1>5. PICK next : next = [j \in S |-> IF At(t, j, <<quote, quote>>) THEN j + 2 ELSE j + 1]
  OBVIOUS
<1>6. PICK m : m = [j \in S |-> n + 1 - j]
  OBVIOUS
<1>7. n + 1 \in Nat /\ \A j \in S : m[j] \in Nat /\ m[j] < n + 1
  BY <1>1, <1>2, <1>6
<1>8. ASSUME NEW j \in S, ~stop[j] PROVE next[j] \in S /\ m[next[j]] < m[j]
  <2>1. j \in Int /\ j >= 1 /\ j <= Len(t)
    <3>1. j \in Int /\ j >= 1
      BY <1>1, <1>2, <1>8
    <3>2. ~(j > Len(t))
      BY <1>3, <1>8
    <3> QED BY <1>1, <3>1, <3>2
  <2>2. next[j] = j + 1 \/ next[j] = j + 2
    BY <1>5
  <2>3. next[j] \in S
    BY <1>1, <1>2, <2>1, <2>2
  <2>4. m[next[j]] = n + 1 - next[j] /\ m[j] = n + 1 - j
    BY <1>6, <2>3
  <2> QED BY <1>1, <1>2, <2>1, <2>2, <2>3, <2>4
<1>9. PICK h : Arrives(S, stop, last, next, h)
  BY <1>7, <1>8, ArrivalExists
<1>10. ASSUME NEW g
       PROVE  Arrives(S, stop, last, next, g) <=> QuoteEnds(t, quote, g)
  <2>1. ASSUME NEW j \in S
        PROVE  (IF stop[j] THEN last[j] ELSE g[next[j]]) =
               (CASE j > Len(t)                 -> Len(t) + 1
                  [] At(t, j, <<quote, quote>>) -> g[j + 2]
                  [] j <= Len(t) /\ t[j] = quote /\ ~At(t, j, <<quote, quote>>) -> j + 1
                  [] OTHER                      -> g[j + 1])
    <3>1. PICK A, B, C : A = (j > Len(t)) /\ B = At(t, j, <<quote, quote>>)
                         /\ C = (j <= Len(t) /\ t[j] = quote /\ ~At(t, j, <<quote, quote>>))
      OBVIOUS
    <3>2. j \in Int /\ (~(j > Len(t)) => j <= Len(t))
      BY <1>1, <1>2
    <3>3. stop[j] <=> A \/ C
      BY <1>3, <3>1, <3>2
    <3>4. ~stop[j] => next[j] = IF B THEN j + 2 ELSE j + 1
      BY <1>5, <3>1
    <3>5. last[j] = IF A THEN Len(t) + 1 ELSE j + 1
      BY <1>4, <3>1
    <3>6. ~(A /\ B) /\ ~(A /\ C) /\ ~(B /\ C)
      <4>1. At(t, j, <<quote, quote>>) => j + 1 <= Len(t)
        BY <3>2, AtTwo
      <4>2. (A => j > Len(t)) /\ (B => At(t, j, <<quote, quote>>)) /\ (C => j <= Len(t) /\ ~At(t, j, <<quote, quote>>))
        BY <3>1, Zenon
      <4>3. (j > Len(t)) => ~(j + 1 <= Len(t)) /\ ~(j <= Len(t))
        BY <1>1, <3>2
      <4> QED BY <4>1, <4>2, <4>3, Zenon
    <3>7. (IF stop[j] THEN last[j] ELSE g[next[j]]) =
          (CASE A -> Len(t) + 1 [] B -> g[j + 2] [] C -> j + 1 [] OTHER -> g[j + 1])
      <4>1. CASE A
        BY <3>3, <3>5, <3>6, <4>1
      <4>2. CASE B
        BY <3>3, <3>4, <3>6, <4>2
      <4>3. CASE C
        BY <3>3, <3>5, <3>6, <4>3
      <4>4. CASE ~A /\ ~B /\ ~C
        BY <3>3, <3>4, <4>4
      <4> QED BY <4>1, <4>2, <4>3, <4>4
    <3> QED BY <3>1, <3>7, Zenon
  <2> QED BY <1>2, <2>1, Zenon DEF Arrives, QuoteEnds
<1>11. \E g : QuoteEnds(t, quote, g)
  BY <1>9, <1>10
<1>12. PICK e : QuoteEnds(t, quote, e) /\ \A i \in 1..Len(t) : QuotedTextEnd(t, i, quote) = e[i + 1]
  BY <1>11, Zenon DEF QuotedTextEnd, QuoteEnds
<1>13. \A j \in S : e[j] = IF stop[j] THEN last[j] ELSE e[next[j]]
  <2>1. PICK g : g = [j \in S |-> IF stop[j] THEN last[j] ELSE e[next[j]]]
    OBVIOUS
  <2>2. g = e
    BY <1>10, <1>12, <2>1, Zenon DEF Arrives
  <2> QED BY <2>1, <2>2
<1>14. EndsAt(t, <<quote>>, TRUE, e)
  <2>1. SUFFICES ASSUME NEW i \in 1..Len(t) + 1
                 PROVE  e[i] = IF i > Len(t) THEN Len(t) + 1
                               ELSE IF At(t, i, <<quote>> \o <<quote>>) THEN e[i + 2]
                               ELSE IF At(t, i, <<quote>>) THEN i + Len(<<quote>>) ELSE e[i + 1]
    BY DEF EndsAt
  <2>2. i \in S /\ i \in Int /\ i >= 1 /\ (~(i > Len(t)) => i <= Len(t))
    BY <1>1, <1>2
  <2>3. <<quote>> \o <<quote>> = <<quote, quote>> /\ Len(<<quote>>) = 1
    BY OneAndOne
  <2>4. At(t, i, <<quote>>) <=> i <= Len(t) /\ t[i] = quote
    BY <2>2, AtOne
  <2>5. e[i] = IF stop[i] THEN last[i] ELSE e[next[i]]
    BY <1>13, <2>2
  <2>6. PICK B : B = At(t, i, <<quote, quote>>)
    OBVIOUS
  <2>7. stop[i] <=> i > Len(t) \/ (~B /\ t[i] = quote)
    BY <1>3, <2>2, <2>6
  <2>8. /\ last[i] = IF i > Len(t) THEN Len(t) + 1 ELSE i + 1
        /\ next[i] = IF B THEN i + 2 ELSE i + 1
    BY <1>4, <1>5, <2>2, <2>6
  <2>9. B => i <= Len(t)
    <3>1. B => i + 1 <= Len(t)
      BY <2>2, <2>6, AtTwo
    <3> QED BY <1>1, <2>2, <3>1
  <2>10. At(t, i, <<quote>> \o <<quote>>) <=> B
    BY <2>3, <2>6
  <2>11. CASE i > Len(t)
    BY <2>5, <2>7, <2>8, <2>11
  <2>12. CASE ~(i > Len(t)) /\ B
    BY <2>5, <2>7, <2>8, <2>10, <2>12
  <2>13. CASE ~(i > Len(t)) /\ ~B /\ t[i] = quote
    BY <2>2, <2>3, <2>4, <2>5, <2>7, <2>8, <2>10, <2>13
  <2>14. CASE ~(i > Len(t)) /\ ~B /\ t[i] # quote
    BY <2>2, <2>4, <2>5, <2>7, <2>8, <2>10, <2>14
  <2> QED BY <2>11, <2>12, <2>13, <2>14
<1> QED BY <1>12, <1>14

\* A character a number of times before something.
LEMMA TimesBefore ==
  ASSUME NEW S, NEW kind \in S, NEW n \in Nat, NEW rest \in Seq(S)
  PROVE  /\ Times(kind, n) \o rest \in Seq(S) /\ Len(Times(kind, n) \o rest) = n + Len(rest)
         /\ \A j \in 1..n + Len(rest) : (Times(kind, n) \o rest)[j] = IF j <= n THEN kind ELSE rest[j - n]
<1>1. PICK s : s = Times(kind, n)
  OBVIOUS
<1>2. s = [j \in 1..n |-> kind]
  BY <1>1 DEF Times
<1>3. s \in Seq(S) /\ Len(s) = n /\ \A j \in 1..n : s[j] = kind
  BY <1>2
<1>4. PICK r : r = s \o rest
  OBVIOUS
<1>5. /\ r \in Seq(S) /\ Len(r) = Len(s) + Len(rest)
      /\ \A j \in 1..Len(s) + Len(rest) : r[j] = IF j <= Len(s) THEN s[j] ELSE rest[j - Len(s)]
  BY <1>3, <1>4, ConcatProperties
<1>6. Len(rest) \in Nat
  OBVIOUS
<1>7. ASSUME NEW j \in 1..n + Len(rest) PROVE r[j] = IF j <= n THEN kind ELSE rest[j - n]
  <2>1. r[j] = IF j <= n THEN s[j] ELSE rest[j - n]
    BY <1>3, <1>5, <1>7
  <2>2. j <= n => s[j] = kind
    BY <1>3, <1>6, <1>7
  <2> QED BY <2>1, <2>2
<1> QED BY <1>1, <1>3, <1>4, <1>5, <1>7

\* What begins at a position, if anything does.
BlankQuote(t, i) == At(t, i, <<"q", "'", " ">>)
BeginsNothing(t, i) ==
  /\ ~At(t, i, <<"-", "-">>) /\ ~At(t, i, <<"/", "*">>) /\ ~QQuote(t, i) /\ ~BlankQuote(t, i)
  /\ t[i] # "'" /\ t[i] # "\""

\* By its first character.
LEMMA FirstOfLexeme ==
  ASSUME NEW t \in Text, NEW i \in 1..Len(t)
  PROVE  /\ At(t, i, <<"-", "-">>) => t[i] = "-" /\ i + 1 <= Len(t)
         /\ At(t, i, <<"/", "*">>) => t[i] = "/" /\ i + 1 <= Len(t)
         /\ QQuote(t, i) => t[i] = "q" /\ i + 2 <= Len(t) /\ t[i + 2] \notin Blank
         /\ BlankQuote(t, i) => t[i] = "q" /\ i + 2 <= Len(t) /\ t[i + 2] = " "
<1>1. i \in Int
  OBVIOUS
<1> QED BY <1>1, AtTwo, AtThree DEF QQuote, BlankQuote

\* The mode it opens, by what begins there.
LEMMA OpensCases ==
  ASSUME NEW t \in Text, NEW i \in 1..Len(t), NEW anyDelimiter
  PROVE  /\ At(t, i, <<"-", "-">>) => Opens(t, i, anyDelimiter) = <<"line", 2, NoClose>>
         /\ At(t, i, <<"/", "*">>) => Opens(t, i, anyDelimiter) = <<"block", 2, NoClose>>
         /\ QQuote(t, i) \/ (anyDelimiter /\ BlankQuote(t, i)) =>
              Opens(t, i, anyDelimiter) = <<"q", 3, Closing(t[i + 2])>>
         /\ t[i] = "'" => Opens(t, i, anyDelimiter) = <<"single", 1, NoClose>>
         /\ t[i] = "\"" => Opens(t, i, anyDelimiter) = <<"double", 1, NoClose>>
         /\ BeginsNothing(t, i) \/ (~anyDelimiter /\ BlankQuote(t, i)) => Opens(t, i, anyDelimiter) = <<"code", 1, NoClose>>
<1>1. PICK A : A = At(t, i, <<"-", "-">>)
  OBVIOUS
<1>2. PICK B : B = At(t, i, <<"/", "*">>)
  OBVIOUS
<1>3. PICK Q : Q = (QQuote(t, i) \/ (anyDelimiter /\ At(t, i, <<"q", "'", " ">>)))
  OBVIOUS
<1>4. PICK c : c = t[i]
  OBVIOUS
<1>5. (A => c = "-") /\ (B => c = "/") /\ (Q => c = "q")
  <2>1. (A => At(t, i, <<"-", "-">>)) /\ (B => At(t, i, <<"/", "*">>)) /\ (Q => QQuote(t, i) \/ BlankQuote(t, i))
    BY <1>1, <1>2, <1>3, Zenon DEF BlankQuote
  <2>2. /\ At(t, i, <<"-", "-">>) => t[i] = "-"
        /\ At(t, i, <<"/", "*">>) => t[i] = "/"
        /\ QQuote(t, i) \/ BlankQuote(t, i) => t[i] = "q"
    BY FirstOfLexeme
  <2> QED BY <1>4, <2>1, <2>2, Zenon
<1>6. BlankQuote(t, i) => c = "q" /\ ~QQuote(t, i)
  <2>1. BlankQuote(t, i) => t[i] = "q" /\ t[i + 2] = " "
    BY FirstOfLexeme
  <2>2. QQuote(t, i) => t[i + 2] \notin Blank
    BY FirstOfLexeme
  <2> QED BY <1>4, <2>1, <2>2 DEF Blank
<1>7. Opens(t, i, anyDelimiter) =
        CASE A -> <<"line", 2, NoClose>>
          [] B -> <<"block", 2, NoClose>>
          [] Q -> <<"q", 3, Closing(t[i + 2])>>
          [] c = "'" -> <<"single", 1, NoClose>>
          [] c = "\"" -> <<"double", 1, NoClose>>
          [] OTHER -> <<"code", 1, NoClose>>
  BY <1>1, <1>2, <1>3, <1>4, Zenon DEF Opens
<1>8. A => Opens(t, i, anyDelimiter) = <<"line", 2, NoClose>>
  BY <1>5, <1>7
<1>9. B => Opens(t, i, anyDelimiter) = <<"block", 2, NoClose>>
  BY <1>5, <1>7
<1>10. Q => Opens(t, i, anyDelimiter) = <<"q", 3, Closing(t[i + 2])>>
  BY <1>5, <1>7
<1>11. c = "'" => Opens(t, i, anyDelimiter) = <<"single", 1, NoClose>>
  BY <1>5, <1>7
<1>12. c = "\"" => Opens(t, i, anyDelimiter) = <<"double", 1, NoClose>>
  BY <1>5, <1>7
<1>13. ~A /\ ~B /\ ~Q /\ c # "'" /\ c # "\"" => Opens(t, i, anyDelimiter) = <<"code", 1, NoClose>>
  BY <1>7
<1>14. BeginsNothing(t, i) => ~A /\ ~B /\ ~Q /\ c # "'" /\ c # "\""
  BY <1>1, <1>2, <1>3, <1>4, Zenon DEF BeginsNothing, BlankQuote
<1>15. ~anyDelimiter /\ BlankQuote(t, i) => ~A /\ ~B /\ ~Q /\ c # "'" /\ c # "\""
  <2>1. ~anyDelimiter /\ BlankQuote(t, i) => ~Q
    BY <1>3, <1>6, Zenon DEF BlankQuote
  <2> QED BY <1>5, <1>6, <2>1
<1> QED BY <1>1, <1>2, <1>3, <1>4, <1>8, <1>9, <1>10, <1>11, <1>12, <1>13, <1>14, <1>15, Zenon DEF BlankQuote

\* The lexeme that begins there.
LEMMA LexemeCases ==
  ASSUME NEW t \in Text, NEW i \in 1..Len(t)
  PROVE  /\ At(t, i, <<"-", "-">>) => Lexeme(t, i) = [kind |-> "comment", end |-> LineEnd(t, i)]
         /\ At(t, i, <<"/", "*">>) => Lexeme(t, i) = [kind |-> "comment", end |-> After(t, <<"*", "/">>, i + 2)]
         /\ QQuote(t, i) => Lexeme(t, i) = [kind |-> "string", end |-> QQuoteEnd(t, i)]
         /\ t[i] = "'" => Lexeme(t, i) = [kind |-> "string", end |-> QuotedTextEnd(t, i, "'")]
         /\ t[i] = "\"" => Lexeme(t, i) = [kind |-> "identifier", end |-> QuotedTextEnd(t, i, "\"")]
         /\ BeginsNothing(t, i) \/ BlankQuote(t, i) => Lexeme(t, i) = [kind |-> "code", end |-> i + 1]
<1>1. PICK A : A = At(t, i, <<"-", "-">>)
  OBVIOUS
<1>2. PICK B : B = At(t, i, <<"/", "*">>)
  OBVIOUS
<1>3. PICK Q : Q = QQuote(t, i)
  OBVIOUS
<1>4. PICK c : c = t[i]
  OBVIOUS
<1>5. (A => c = "-") /\ (B => c = "/") /\ (Q => c = "q")
  <2>1. (A => At(t, i, <<"-", "-">>)) /\ (B => At(t, i, <<"/", "*">>)) /\ (Q => QQuote(t, i))
    BY <1>1, <1>2, <1>3, Zenon
  <2>2. /\ At(t, i, <<"-", "-">>) => t[i] = "-"
        /\ At(t, i, <<"/", "*">>) => t[i] = "/"
        /\ QQuote(t, i) => t[i] = "q"
    BY FirstOfLexeme
  <2> QED BY <1>4, <2>1, <2>2, Zenon
<1>6. BlankQuote(t, i) => c = "q" /\ ~QQuote(t, i)
  <2>1. BlankQuote(t, i) => t[i] = "q" /\ t[i + 2] = " "
    BY FirstOfLexeme
  <2>2. QQuote(t, i) => t[i + 2] \notin Blank
    BY FirstOfLexeme
  <2> QED BY <1>4, <2>1, <2>2 DEF Blank
<1>7. PICK ends : ends = <<LineEnd(t, i), After(t, <<"*", "/">>, i + 2), QQuoteEnd(t, i), QuotedTextEnd(t, i, "'"),
                           QuotedTextEnd(t, i, "\"")>>
  OBVIOUS
<1>8. /\ ends[1] = LineEnd(t, i) /\ ends[2] = After(t, <<"*", "/">>, i + 2) /\ ends[3] = QQuoteEnd(t, i)
      /\ ends[4] = QuotedTextEnd(t, i, "'") /\ ends[5] = QuotedTextEnd(t, i, "\"")
  BY <1>7
<1>9. Lexeme(t, i) =
        CASE A -> [kind |-> "comment", end |-> ends[1]]
          [] B -> [kind |-> "comment", end |-> ends[2]]
          [] Q -> [kind |-> "string", end |-> ends[3]]
          [] c = "'" -> [kind |-> "string", end |-> ends[4]]
          [] c = "\"" -> [kind |-> "identifier", end |-> ends[5]]
          [] OTHER -> [kind |-> "code", end |-> i + 1]
  BY <1>1, <1>2, <1>3, <1>4, <1>8, Zenon DEF Lexeme
<1>10. A => Lexeme(t, i) = [kind |-> "comment", end |-> ends[1]]
  BY <1>5, <1>9
<1>11. B => Lexeme(t, i) = [kind |-> "comment", end |-> ends[2]]
  BY <1>5, <1>9
<1>12. Q => Lexeme(t, i) = [kind |-> "string", end |-> ends[3]]
  BY <1>5, <1>9
<1>13. c = "'" => Lexeme(t, i) = [kind |-> "string", end |-> ends[4]]
  BY <1>5, <1>9
<1>14. c = "\"" => Lexeme(t, i) = [kind |-> "identifier", end |-> ends[5]]
  BY <1>5, <1>9
<1>15. ~A /\ ~B /\ ~Q /\ c # "'" /\ c # "\"" => Lexeme(t, i) = [kind |-> "code", end |-> i + 1]
  BY <1>9
<1>16. BeginsNothing(t, i) => ~A /\ ~B /\ ~Q /\ c # "'" /\ c # "\""
  BY <1>1, <1>2, <1>3, <1>4, Zenon DEF BeginsNothing
<1>17. BlankQuote(t, i) => ~A /\ ~B /\ ~Q /\ c # "'" /\ c # "\""
  BY <1>3, <1>5, <1>6
<1> QED BY <1>1, <1>2, <1>3, <1>4, <1>8, <1>10, <1>11, <1>12, <1>13, <1>14, <1>15, <1>16, <1>17, Zenon

\* Where a scan may be.
ScanPoints(t) == (1..Len(t) + 1) \X Mode \X STRING

\* What closes each mode.
LEMMA CloseCases ==
  ASSUME NEW c
  PROVE  /\ Close("line", c) = <<NL>> /\ Len(<<NL>>) = 1
         /\ Close("block", c) = <<"*", "/">> /\ Len(<<"*", "/">>) = 2
         /\ Close("q", c) = <<c, "'">> /\ Len(<<c, "'">>) = 2
         /\ Close("single", c) = <<"'">> /\ Len(<<"'">>) = 1
         /\ Close("double", c) = <<"\"">> /\ Len(<<"\"">>) = 1
BY DEF Close

\* One character closes a literal in quotes or a quoted identifier, one or two the others.
LEMMA CloseLengths ==
  ASSUME NEW m \in Mode, m # "code", NEW c, NEW end, end = Close(m, c)
  PROVE  /\ Len(end) \in 1..2 /\ Len(end \o end) = Len(end) + Len(end)
         /\ m \in {"single", "double"} => Len(end) = 1 /\ \E q : end = <<q>>
<1>1. m \in {"line", "block", "q", "single", "double"}
  BY DEF Mode
<1>2. CASE m = "line" \/ m = "single" \/ m = "double"
  <2>1. \E q : end = <<q>>
    BY <1>2, CloseCases, Zenon
  <2>2. PICK q : end = <<q>>
    BY <2>1
  <2>3. Len(end) = 1 /\ end \o end = <<q, q>>
    BY <2>2, OneAndOne
  <2> QED BY <2>1, <2>3
<1>3. CASE m = "block" \/ m = "q"
  <2>1. \E a, b : end = <<a, b>>
    BY <1>3, CloseCases, Zenon
  <2>2. PICK a, b : end = <<a, b>>
    BY <2>1
  <2>3. PICK T : T = {a, b}
    OBVIOUS
  <2>4. end \in Seq(T) /\ Len(end) = 2
    <3>1. a \in T /\ b \in T
      BY <2>3
    <3> QED BY <2>2, <3>1
  <2>5. Len(end \o end) = 4
    <3>1. Len(end \o end) = Len(end) + Len(end)
      BY <2>4, ConcatProperties
    <3> QED BY <2>4, <3>1
  <2>6. m \notin {"single", "double"}
    BY <1>3
  <2> QED BY <2>4, <2>5, <2>6
<1> QED BY <1>1, <1>2, <1>3

\* What is read in a mode that end closes.
InMode(t, x, doubled, end) ==
  IF x[2] \in doubled /\ At(t, x[1], end \o end) THEN <<x[2], 2, x[3]>>
  ELSE IF At(t, x[1], end) THEN <<"code", Len(end), NoClose>> ELSE <<x[2], 1, x[3]>>

\* What is read in code, and what in another mode.
LEMMA ReadsCases ==
  ASSUME NEW t, NEW x, NEW anyDelimiter, NEW doubled, "code" \notin doubled, NEW end, end = Close(x[2], x[3])
  PROVE  /\ x[2] = "code" => Reads(t, x, anyDelimiter, doubled) = Opens(t, x[1], anyDelimiter)
         /\ x[2] # "code" => Reads(t, x, anyDelimiter, doubled) = InMode(t, x, doubled, end)
<1>1. PICK D : D <=> x[2] \in doubled /\ At(t, x[1], end \o end)
  BY Zenon
<1>2. Reads(t, x, anyDelimiter, doubled) =
        CASE x[2] = "code" -> Opens(t, x[1], anyDelimiter)
          [] D -> <<x[2], 2, x[3]>>
          [] x[2] # "code" /\ ~D -> IF At(t, x[1], end) THEN <<"code", Len(end), NoClose>> ELSE <<x[2], 1, x[3]>>
  BY <1>1, Zenon DEF Reads
<1>3. x[2] = "code" => ~D
  BY <1>1
<1>4. x[2] = "code" => Reads(t, x, anyDelimiter, doubled) = Opens(t, x[1], anyDelimiter)
  BY <1>2, <1>3
<1>5. x[2] # "code" =>
        Reads(t, x, anyDelimiter, doubled) =
          IF D THEN <<x[2], 2, x[3]>> ELSE IF At(t, x[1], end) THEN <<"code", Len(end), NoClose>> ELSE <<x[2], 1, x[3]>>
  BY <1>2
<1>6. x[2] # "code" => Reads(t, x, anyDelimiter, doubled) = InMode(t, x, doubled, end)
  BY <1>1, <1>5, Zenon DEF InMode
<1> QED BY <1>4, <1>6, Zenon

\* What is read lies in the text.
LEMMA ReadsAhead ==
  ASSUME NEW t \in Text, NEW x \in ScanPoints(t), x[1] <= Len(t), NEW anyDelimiter,
         NEW doubled \in SUBSET {"single", "double"}
  PROVE  /\ Reads(t, x, anyDelimiter, doubled)[1] \in Mode
         /\ Reads(t, x, anyDelimiter, doubled)[2] \in 1..Len(t) + 1 - x[1]
         /\ Reads(t, x, anyDelimiter, doubled)[3] \in STRING
<1>1. Len(t) \in Nat /\ \A j \in 1..Len(t) : t[j] \in STRING
  BY DEF Text
<1>2. PICK i, m, c : i = x[1] /\ m = x[2] /\ c = x[3]
  OBVIOUS
<1>3. i \in Int /\ i >= 1 /\ i <= Len(t) /\ m \in Mode /\ c \in STRING
  BY <1>1, <1>2 DEF ScanPoints
<1>4. Len(t) + 1 - i \in Int /\ Len(t) + 1 - i >= 1
  BY <1>1, <1>3
<1>5. PICK how : how = Reads(t, x, anyDelimiter, doubled)
  OBVIOUS
<1>6. NoClose \in STRING /\ "]" \in STRING
  BY EditorAssumption
<1>7. CASE m = "code"
  <2>1. how = Opens(t, i, anyDelimiter)
    <3>1. x[2] = "code" /\ "code" \notin doubled
      BY <1>2, <1>7
    <3> QED BY <1>2, <1>5, <3>1, ReadsCases
  <2>2. i \in 1..Len(t)
    BY <1>1, <1>3
  <2>3. \/ At(t, i, <<"-", "-">>) \/ At(t, i, <<"/", "*">>) \/ QQuote(t, i) \/ BlankQuote(t, i)
        \/ t[i] = "'" \/ t[i] = "\"" \/ BeginsNothing(t, i)
    BY Zenon DEF BeginsNothing
  <2>4. CASE At(t, i, <<"-", "-">>)
    <3>1. how = <<"line", 2, NoClose>> /\ i + 1 <= Len(t)
      BY <2>1, <2>2, <2>4, OpensCases, FirstOfLexeme
    <3>2. how[1] = "line" /\ how[2] = 2 /\ how[3] = NoClose
      BY <3>1
    <3>3. "line" \in Mode
      BY DEF Mode
    <3> QED BY <1>1, <1>2, <1>3, <1>5, <1>6, <3>1, <3>2, <3>3
  <2>5. CASE At(t, i, <<"/", "*">>)
    <3>1. how = <<"block", 2, NoClose>> /\ i + 1 <= Len(t)
      BY <2>1, <2>2, <2>5, OpensCases, FirstOfLexeme
    <3>2. how[1] = "block" /\ how[2] = 2 /\ how[3] = NoClose
      BY <3>1
    <3>3. "block" \in Mode
      BY DEF Mode
    <3> QED BY <1>1, <1>2, <1>3, <1>5, <1>6, <3>1, <3>2, <3>3
  <2>6. CASE QQuote(t, i) \/ (anyDelimiter /\ BlankQuote(t, i))
    <3>1. how = <<"q", 3, Closing(t[i + 2])>> /\ i + 2 <= Len(t)
      BY <2>1, <2>2, <2>6, OpensCases, FirstOfLexeme
    <3>2. t[i + 2] \in STRING
      BY <1>1, <1>3, <3>1
    <3>3. Closing(t[i + 2]) \in STRING
      BY <1>6, <3>2 DEF Closing
    <3>4. how[1] = "q" /\ how[2] = 3 /\ how[3] \in STRING
      BY <3>1, <3>3
    <3> QED BY <1>1, <1>2, <1>3, <1>5, <3>1, <3>4 DEF Mode
  <2>7. CASE BlankQuote(t, i) /\ ~anyDelimiter
    <3>1. how = <<"code", 1, NoClose>>
      BY <2>1, <2>2, <2>7, OpensCases
    <3>2. how[1] = "code" /\ how[2] = 1 /\ how[3] = NoClose
      BY <3>1
    <3>3. "code" \in Mode
      BY DEF Mode
    <3> QED BY <1>1, <1>2, <1>4, <1>5, <1>6, <3>1, <3>2, <3>3
  <2>8. CASE t[i] = "'"
    <3>1. how = <<"single", 1, NoClose>>
      BY <2>1, <2>2, <2>8, OpensCases
    <3>2. how[1] = "single" /\ how[2] = 1 /\ how[3] = NoClose
      BY <3>1
    <3>3. "single" \in Mode
      BY DEF Mode
    <3> QED BY <1>1, <1>2, <1>4, <1>5, <1>6, <3>1, <3>2, <3>3
  <2>9. CASE t[i] = "\""
    <3>1. how = <<"double", 1, NoClose>>
      BY <2>1, <2>2, <2>9, OpensCases
    <3>2. how[1] = "double" /\ how[2] = 1 /\ how[3] = NoClose
      BY <3>1
    <3>3. "double" \in Mode
      BY DEF Mode
    <3> QED BY <1>1, <1>2, <1>4, <1>5, <1>6, <3>1, <3>2, <3>3
  <2>10. CASE BeginsNothing(t, i)
    <3>1. how = <<"code", 1, NoClose>>
      BY <2>1, <2>2, <2>10, OpensCases
    <3>2. how[1] = "code" /\ how[2] = 1 /\ how[3] = NoClose
      BY <3>1
    <3>3. "code" \in Mode
      BY DEF Mode
    <3> QED BY <1>1, <1>2, <1>4, <1>5, <1>6, <3>1, <3>2, <3>3
  <2> QED BY <2>3, <2>4, <2>5, <2>6, <2>7, <2>8, <2>9, <2>10, Zenon
<1>8. CASE m # "code"
  <2>1. PICK end : end = Close(m, c)
    OBVIOUS
  <2>2. PICK D : D <=> m \in doubled /\ At(t, i, end \o end)
    BY Zenon
  <2>3. how = IF D THEN <<m, 2, c>> ELSE IF At(t, i, end) THEN <<"code", Len(end), NoClose>> ELSE <<m, 1, c>>
    <3>1. "code" \notin doubled /\ x[2] # "code"
      BY <1>2, <1>8
    <3>2. how = IF m \in doubled /\ At(t, i, end \o end) THEN <<m, 2, c>>
                ELSE IF At(t, i, end) THEN <<"code", Len(end), NoClose>> ELSE <<m, 1, c>>
      BY <1>2, <1>5, <2>1, <3>1, ReadsCases DEF InMode
    <3> QED BY <2>2, <3>2, Zenon
  <2>4. Len(end) \in 1..2 /\ (m \in {"single", "double"} => \E q : end = <<q>>)
    BY <1>3, <1>8, <2>1, CloseLengths
  <2>5. CASE D
    <3>1. i + 1 <= Len(t)
      <4>1. m \in {"single", "double"} /\ At(t, i, end \o end)
        BY <2>2, <2>5
      <4>2. PICK q : end = <<q>>
        BY <2>4, <4>1
      <4>3. At(t, i, <<q, q>>)
        BY <4>1, <4>2, OneAndOne
      <4> QED BY <1>3, <4>3, AtTwo
    <3>2. how = <<m, 2, c>>
      BY <2>3, <2>5
    <3> QED BY <1>1, <1>2, <1>3, <1>5, <3>1, <3>2
  <2>6. CASE ~D /\ At(t, i, end)
    <3>1. how = <<"code", Len(end), NoClose>>
      BY <2>3, <2>6
    <3>2. i + Len(end) - 1 <= Len(t)
      BY <2>6 DEF At
    <3>3. how[1] = "code" /\ how[2] = Len(end) /\ how[3] = NoClose
      BY <3>1
    <3>4. how[2] \in 1..Len(t) + 1 - i
      <4>1. PICK n \in 1..2 : n = Len(end)
        BY <2>4
      <4> QED BY <1>1, <1>3, <3>2, <3>3, <4>1
    <3> QED BY <1>2, <1>5, <1>6, <3>3, <3>4 DEF Mode
  <2>7. CASE ~D /\ ~At(t, i, end)
    <3>1. how = <<m, 1, c>>
      BY <2>3, <2>7
    <3> QED BY <1>1, <1>2, <1>3, <1>4, <1>5, <3>1
  <2> QED BY <2>5, <2>6, <2>7
<1> QED BY <1>7, <1>8

\* h is the function by which Scan is defined.
Scans(t, anyDelimiter, doubled, h) ==
  h = [x \in (1..Len(t) + 1) \X Mode \X STRING |->
        LET goes(how) == ReadBefore(x, how, h[<<x[1] + how[2], how[1], how[3]>>])
        IN  IF x[1] > Len(t) THEN [modes |-> <<>>, opens |-> {}, mode |-> x[2], close |-> x[3]]
            ELSE goes(Reads(t, x, anyDelimiter, doubled))]

\* What a scan gives.
Scanned == [modes : Seq(Mode), opens : SUBSET Int, mode : Mode, close : STRING]

\* The mode of what is read at x, and where the scan goes on.
OwnMode(x, how) == IF x[2] = "code" THEN how[1] ELSE x[2]
NextPoint(x, how) == <<x[1] + how[2], how[1], how[3]>>

\* What has been read before it is the same kind of thing.
LEMMA ReadBeforeTyped ==
  ASSUME NEW x, x[1] \in Int, NEW how, OwnMode(x, how) \in Mode, how[2] \in Nat, NEW rest \in Scanned
  PROVE  /\ ReadBefore(x, how, rest) \in Scanned
         /\ ReadBefore(x, how, rest).modes = Times(OwnMode(x, how), how[2]) \o rest.modes
         /\ ReadBefore(x, how, rest).mode = rest.mode /\ ReadBefore(x, how, rest).close = rest.close
<1>1. PICK modes : modes = Times(OwnMode(x, how), how[2]) \o rest.modes
  OBVIOUS
<1>2. rest.modes \in Seq(Mode)
  BY DEF Scanned
<1>3. modes \in Seq(Mode)
  BY <1>1, <1>2, TimesBefore
<1>4. PICK opens : opens = IF x[2] # how[1] /\ how[1] # "code" THEN rest.opens \cup {x[1]} ELSE rest.opens
  OBVIOUS
<1>5. opens \subseteq Int
  BY <1>4 DEF Scanned
<1>6. ReadBefore(x, how, rest) = [rest EXCEPT !.modes = modes, !.opens = opens]
  BY <1>1, <1>4 DEF ReadBefore, OwnMode
<1> QED BY <1>1, <1>3, <1>5, <1>6 DEF Scanned

\* A scan goes on further in the text.
LEMMA NextPointAhead ==
  ASSUME NEW t \in Text, NEW x \in ScanPoints(t), x[1] <= Len(t), NEW anyDelimiter,
         NEW doubled \in SUBSET {"single", "double"}, NEW how, how = Reads(t, x, anyDelimiter, doubled)
  PROVE  /\ x[1] \in Int /\ x[1] >= 1 /\ how[2] \in Nat /\ OwnMode(x, how) \in Mode
         /\ NextPoint(x, how) \in ScanPoints(t)
         /\ NextPoint(x, how)[1] = x[1] + how[2] /\ x[1] < x[1] + how[2] /\ x[1] + how[2] <= Len(t) + 1
<1>1. Len(t) \in Nat
  BY DEF Text
<1>2. how[1] \in Mode /\ how[2] \in 1..Len(t) + 1 - x[1] /\ how[3] \in STRING
  BY ReadsAhead
<1>3. x[1] \in 1..Len(t) + 1 /\ x[2] \in Mode
  BY DEF ScanPoints
<1>4. x[1] + how[2] \in 1..Len(t) + 1 /\ x[1] < x[1] + how[2] /\ how[2] \in Nat
  BY <1>1, <1>2, <1>3
<1>5. NextPoint(x, how) \in ScanPoints(t)
  BY <1>2, <1>4 DEF NextPoint, ScanPoints
<1>6. OwnMode(x, how) \in Mode
  BY <1>2, <1>3 DEF OwnMode
<1> QED BY <1>1, <1>3, <1>4, <1>5, <1>6 DEF NextPoint

\* There is such a function.
LEMMA ScanExists ==
  ASSUME NEW t \in Text, NEW anyDelimiter, NEW doubled \in SUBSET {"single", "double"}
  PROVE  \E h : Scans(t, anyDelimiter, doubled, h) /\ \A x \in ScanPoints(t) : h[x] \in Scanned
<1>1. Len(t) \in Nat
  BY DEF Text
<1>2. PICK S : S = ScanPoints(t)
  OBVIOUS
<1>3. PICK V : V = Scanned
  OBVIOUS
<1>4. PICK how : how = [x \in S |-> Reads(t, x, anyDelimiter, doubled)]
  OBVIOUS
<1>5. PICK stop : stop = [x \in S |-> x[1] > Len(t)]
  OBVIOUS
<1>6. PICK last : last = [x \in S |-> [modes |-> <<>>, opens |-> {}, mode |-> x[2], close |-> x[3]]]
  OBVIOUS
<1>7. PICK step : step = [x \in S |-> [r \in V |-> ReadBefore(x, how[x], r)]]
  OBVIOUS
<1>8. PICK next : next = [x \in S |-> NextPoint(x, how[x])]
  OBVIOUS
<1>9. PICK m : m = [x \in S |-> Len(t) + 1 - x[1]]
  OBVIOUS
<1>10. PICK most \in Nat : most = Len(t) + 1
  BY <1>1
<1>11. \A x \in S : m[x] \in Nat /\ m[x] < most
  <2>1. SUFFICES ASSUME NEW x \in S PROVE m[x] \in Nat /\ m[x] < most
    OBVIOUS
  <2>2. x[1] \in 1..Len(t) + 1
    BY <1>2 DEF ScanPoints
  <2>3. m[x] = Len(t) + 1 - x[1]
    BY <1>9
  <2> QED BY <1>1, <1>10, <2>2, <2>3
<1>12. \A x \in S : stop[x] => last[x] \in V
  <2>1. SUFFICES ASSUME NEW x \in S PROVE last[x] \in V
    OBVIOUS
  <2>2. x[2] \in Mode /\ x[3] \in STRING
    BY <1>2 DEF ScanPoints
  <2>3. last[x] = [modes |-> <<>>, opens |-> {}, mode |-> x[2], close |-> x[3]]
    BY <1>6
  <2> QED BY <1>3, <2>2, <2>3 DEF Scanned
<1>13. ASSUME NEW x \in S, ~stop[x]
       PROVE  step[x] \in [V -> V] /\ next[x] \in S /\ m[next[x]] < m[x]
  <2>1. x \in ScanPoints(t) /\ x[1] <= Len(t)
    <3>1. x[1] \in 1..Len(t) + 1
      BY <1>2 DEF ScanPoints
    <3>2. ~(x[1] > Len(t))
      BY <1>5, <1>13
    <3> QED BY <1>1, <1>2, <3>1, <3>2
  <2>2. how[x] = Reads(t, x, anyDelimiter, doubled)
    BY <1>4
  <2>3. PICK w : w = how[x]
    OBVIOUS
  <2>4. /\ x[1] \in Int /\ x[1] >= 1 /\ w[2] \in Nat /\ OwnMode(x, w) \in Mode
        /\ NextPoint(x, w) \in ScanPoints(t)
        /\ NextPoint(x, w)[1] = x[1] + w[2] /\ x[1] < x[1] + w[2] /\ x[1] + w[2] <= Len(t) + 1
    BY <2>1, <2>2, <2>3, NextPointAhead
  <2>5. \A r \in V : ReadBefore(x, w, r) \in V
    BY <1>3, <2>4, ReadBeforeTyped
  <2>6. step[x] = [r \in V |-> ReadBefore(x, w, r)]
    BY <1>7, <2>3
  <2>7. step[x] \in [V -> V]
    BY <2>5, <2>6
  <2>8. next[x] = NextPoint(x, w) /\ next[x] \in S
    BY <1>2, <1>8, <2>3, <2>4
  <2>9. m[next[x]] = Len(t) + 1 - (x[1] + w[2]) /\ m[x] = Len(t) + 1 - x[1]
    BY <1>9, <2>4, <2>8
  <2> QED BY <1>1, <2>4, <2>7, <2>8, <2>9
<1>14. PICK h : Recurs(S, stop, last, step, next, h) /\ \A x \in S : h[x] \in V
  <2>1. \A x \in S : ~stop[x] => step[x] \in [V -> V]
    BY <1>13
  <2>2. \A x \in S : ~stop[x] => next[x] \in S /\ m[next[x]] < m[x]
    BY <1>13
  <2>3. Descends(S, V, stop, last, step, next, m, most)
    BY <1>10, <1>11, <1>12, <2>1, <2>2 DEF Descends
  <2>4. \E h : Recurs(S, stop, last, step, next, h) /\ \A x \in S : h[x] \in V
    BY <2>3, RecursionExists
  <2> QED BY <2>4, Zenon
<1>15. ASSUME NEW x \in S
       PROVE  (IF stop[x] THEN last[x] ELSE step[x][h[next[x]]]) =
              (LET goes(w) == ReadBefore(x, w, h[<<x[1] + w[2], w[1], w[3]>>])
               IN  IF x[1] > Len(t) THEN [modes |-> <<>>, opens |-> {}, mode |-> x[2], close |-> x[3]]
                   ELSE goes(Reads(t, x, anyDelimiter, doubled)))
  <2>1. stop[x] <=> x[1] > Len(t)
    BY <1>5
  <2>2. last[x] = [modes |-> <<>>, opens |-> {}, mode |-> x[2], close |-> x[3]]
    BY <1>6
  <2>3. ASSUME ~stop[x]
        PROVE  step[x][h[next[x]]] = ReadBefore(x, Reads(t, x, anyDelimiter, doubled), h[NextPoint(x, Reads(t, x, anyDelimiter, doubled))])
    <3>1. PICK w : w = Reads(t, x, anyDelimiter, doubled)
      OBVIOUS
    <3>2. how[x] = w
      BY <1>4, <3>1
    <3>3. next[x] = NextPoint(x, w) /\ next[x] \in S
      BY <1>8, <1>13, <2>3, <3>2
    <3>4. PICK r \in V : r = h[next[x]]
      BY <1>14, <3>3
    <3>5. step[x] = [q \in V |-> ReadBefore(x, w, q)]
      BY <1>7, <3>2
    <3>6. step[x][r] = ReadBefore(x, w, r)
      BY <3>5
    <3> QED BY <3>1, <3>3, <3>4, <3>6, Zenon
  <2> QED BY <2>1, <2>2, <2>3, Zenon DEF NextPoint
<1>16. Scans(t, anyDelimiter, doubled, h)
  <2>1. S = (1..Len(t) + 1) \X Mode \X STRING
    BY <1>2 DEF ScanPoints
  <2> QED BY <1>14, <1>15, <2>1, Zenon DEF Recurs, Scans
<1> QED BY <1>2, <1>3, <1>14, <1>16

\* h is what scans give, from where they begin, read by read.
ScanFunction(t, anyDelimiter, doubled, h) ==
  /\ \A m \in Mode, c \in STRING : Scan(t, m, c, anyDelimiter, doubled) = h[<<1, m, c>>]
  /\ \A x \in ScanPoints(t) : h[x] \in Scanned
  /\ \A x \in ScanPoints(t) :
       x[1] > Len(t) => h[x] = [modes |-> <<>>, opens |-> {}, mode |-> x[2], close |-> x[3]]
  /\ \A x \in ScanPoints(t) :
       x[1] <= Len(t) =>
         h[x] = ReadBefore(x, Reads(t, x, anyDelimiter, doubled), h[NextPoint(x, Reads(t, x, anyDelimiter, doubled))])

\* There is such a function.
LEMMA ScanReads ==
  ASSUME NEW t \in Text, NEW anyDelimiter, NEW doubled \in SUBSET {"single", "double"}
  PROVE  \E h : ScanFunction(t, anyDelimiter, doubled, h)
<1>1. \E h : Scans(t, anyDelimiter, doubled, h) /\ \A x \in ScanPoints(t) : h[x] \in Scanned
  BY ScanExists
<1>2. PICK f : f = (CHOOSE h : Scans(t, anyDelimiter, doubled, h))
  OBVIOUS
<1>3. Scans(t, anyDelimiter, doubled, f)
  BY <1>1, <1>2, Zenon
<1>4. ASSUME NEW m, NEW c PROVE Scan(t, m, c, anyDelimiter, doubled) = f[<<1, m, c>>]
  BY <1>2, Zenon DEF Scan, Scans
<1>5. \A x \in ScanPoints(t) : f[x] =
        (LET goes(how) == ReadBefore(x, how, f[<<x[1] + how[2], how[1], how[3]>>])
         IN  IF x[1] > Len(t) THEN [modes |-> <<>>, opens |-> {}, mode |-> x[2], close |-> x[3]]
             ELSE goes(Reads(t, x, anyDelimiter, doubled)))
  <2>1. PICK g : g = [x \in ScanPoints(t) |->
        LET goes(how) == ReadBefore(x, how, f[<<x[1] + how[2], how[1], how[3]>>])
        IN  IF x[1] > Len(t) THEN [modes |-> <<>>, opens |-> {}, mode |-> x[2], close |-> x[3]]
            ELSE goes(Reads(t, x, anyDelimiter, doubled))]
    OBVIOUS
  <2>2. g = f
    BY <1>3, <2>1, Zenon DEF Scans, ScanPoints
  <2>3. \A x \in ScanPoints(t) : g[x] =
        (LET goes(how) == ReadBefore(x, how, f[<<x[1] + how[2], how[1], how[3]>>])
         IN  IF x[1] > Len(t) THEN [modes |-> <<>>, opens |-> {}, mode |-> x[2], close |-> x[3]]
             ELSE goes(Reads(t, x, anyDelimiter, doubled)))
    BY <2>1, Zenon
  <2> QED BY <2>2, <2>3, Zenon
<1>6. ASSUME NEW x \in ScanPoints(t), x[1] <= Len(t)
      PROVE  f[x] = ReadBefore(x, Reads(t, x, anyDelimiter, doubled), f[NextPoint(x, Reads(t, x, anyDelimiter, doubled))])
  <2>1. ~(x[1] > Len(t))
    <3>1. x[1] \in 1..Len(t) + 1 /\ Len(t) \in Nat
      BY DEF ScanPoints, Text
    <3> QED BY <1>6, <3>1
  <2> QED BY <1>5, <2>1, Zenon DEF NextPoint
<1>7. \A x \in ScanPoints(t) : x[1] > Len(t) => f[x] = [modes |-> <<>>, opens |-> {}, mode |-> x[2], close |-> x[3]]
  BY <1>5, Zenon
<1>8. PICK S : S = ScanPoints(t)
  OBVIOUS
<1>9. PICK d : d = [x \in S |-> Len(t) + 1 - x[1]]
  OBVIOUS
<1>10. PICK G : G = {x \in S : f[x] \in Scanned}
  OBVIOUS
<1>11. ASSUME NEW x \in S PROVE x[1] \in 1..Len(t) + 1 /\ x[2] \in Mode /\ x[3] \in STRING /\ Len(t) \in Nat
  BY <1>8 DEF ScanPoints, Text
<1>12. \A x \in S : d[x] \in Nat
  BY <1>9, <1>11
<1>13. ASSUME NEW x \in S, \A y \in S : d[y] < d[x] => y \in G PROVE x \in G
  <2>1. CASE x[1] > Len(t)
    <3>1. f[x] = [modes |-> <<>>, opens |-> {}, mode |-> x[2], close |-> x[3]]
      BY <1>7, <1>8, <2>1
    <3>2. f[x] \in Scanned
      BY <1>11, <3>1 DEF Scanned
    <3> QED BY <1>10, <3>2
  <2>2. CASE x[1] <= Len(t)
    <3>1. x \in ScanPoints(t) /\ x[1] <= Len(t)
      BY <1>8, <2>2
    <3>2. PICK how : how = Reads(t, x, anyDelimiter, doubled)
      OBVIOUS
    <3>3. /\ x[1] \in Int /\ how[2] \in Nat /\ OwnMode(x, how) \in Mode
          /\ NextPoint(x, how) \in S
          /\ NextPoint(x, how)[1] = x[1] + how[2] /\ x[1] < x[1] + how[2]
      BY <1>8, <3>1, <3>2, NextPointAhead
    <3>4. PICK y \in S : y = NextPoint(x, how)
      BY <3>3
    <3>5. d[y] = Len(t) + 1 - (x[1] + how[2]) /\ d[x] = Len(t) + 1 - x[1]
      BY <1>9, <3>3, <3>4
    <3>6. d[y] < d[x]
      BY <1>11, <3>3, <3>5
    <3>7. f[y] \in Scanned
      BY <1>10, <1>13, <3>6
    <3>8. ReadBefore(x, how, f[y]) \in Scanned
      BY <3>3, <3>7, ReadBeforeTyped
    <3>9. f[x] = ReadBefore(x, how, f[y])
      BY <1>6, <3>1, <3>2, <3>4, Zenon
    <3> QED BY <1>10, <3>8, <3>9
  <2> QED BY <1>11, <2>1, <2>2
<1>14. \A x \in S : x \in G
  BY <1>12, <1>13, MeasureInduct
<1>15. \A x \in ScanPoints(t) : f[x] \in Scanned
  BY <1>8, <1>10, <1>14
<1>16. ScanFunction(t, anyDelimiter, doubled, f)
  BY <1>4, <1>6, <1>7, <1>15, Zenon DEF ScanFunction
<1> QED BY <1>16, Zenon

\* The mode in which the character at k is read by a scan that goes on at x.
ModeAt(h, x, k) == h[x].modes[k - x[1] + 1]

\* Each character has a mode: that of what is read with it, or the one it is read in
\* where the scan goes on.
ReadInModes(t, anyDelimiter, doubled, h) ==
  \A x \in ScanPoints(t) : \A how : x[1] <= Len(t) /\ how = Reads(t, x, anyDelimiter, doubled) =>
    \A k \in x[1]..Len(t) :
      ModeAt(h, x, k) = IF k < x[1] + how[2] THEN OwnMode(x, how) ELSE ModeAt(h, NextPoint(x, how), k)

\* A scan reads them so.
LEMMA ModesRead ==
  ASSUME NEW t \in Text, NEW anyDelimiter, NEW doubled \in SUBSET {"single", "double"},
         NEW h, ScanFunction(t, anyDelimiter, doubled, h)
  PROVE  /\ \A x \in ScanPoints(t) : h[x].modes \in Seq(Mode) /\ Len(h[x].modes) = Len(t) + 1 - x[1]
         /\ ReadInModes(t, anyDelimiter, doubled, h)
<1>1. PICK S : S = ScanPoints(t)
  OBVIOUS
<1>2. PICK d : d = [x \in S |-> Len(t) + 1 - x[1]]
  OBVIOUS
<1>3. PICK G : G = {x \in S : Len(h[x].modes) = Len(t) + 1 - x[1]}
  OBVIOUS
<1>4. ASSUME NEW x \in S PROVE x[1] \in 1..Len(t) + 1 /\ Len(t) \in Nat
  BY <1>1 DEF ScanPoints, Text
<1>5. \A x \in S : d[x] \in Nat
  BY <1>2, <1>4
<1>6. ASSUME NEW x \in S PROVE h[x] \in Scanned /\ h[x].modes \in Seq(Mode)
  BY <1>1, Zenon DEF ScanFunction, Scanned
<1>7. ASSUME NEW x \in S, x[1] <= Len(t), NEW how, how = Reads(t, x, anyDelimiter, doubled)
      PROVE  /\ NextPoint(x, how) \in S /\ how[2] \in Nat /\ OwnMode(x, how) \in Mode
             /\ NextPoint(x, how)[1] = x[1] + how[2] /\ x[1] < x[1] + how[2] /\ x[1] + how[2] <= Len(t) + 1
             /\ h[x].modes = Times(OwnMode(x, how), how[2]) \o h[NextPoint(x, how)].modes
  <2>1. x \in ScanPoints(t) /\ x[1] <= Len(t)
    BY <1>1, <1>7
  <2>2. /\ x[1] \in Int /\ how[2] \in Nat /\ OwnMode(x, how) \in Mode
        /\ NextPoint(x, how) \in ScanPoints(t)
        /\ NextPoint(x, how)[1] = x[1] + how[2] /\ x[1] < x[1] + how[2] /\ x[1] + how[2] <= Len(t) + 1
    BY <1>7, <2>1, NextPointAhead
  <2>3. h[NextPoint(x, how)] \in Scanned
    BY <1>1, <1>6, <2>2
  <2>4. h[x] = ReadBefore(x, how, h[NextPoint(x, how)])
    BY <1>7, <2>1, Zenon DEF ScanFunction
  <2>5. PICK rest \in Scanned : rest = h[NextPoint(x, how)]
    BY <2>3
  <2>6. ReadBefore(x, how, rest).modes = Times(OwnMode(x, how), how[2]) \o rest.modes
    BY <2>2, ReadBeforeTyped
  <2> QED BY <1>1, <2>2, <2>4, <2>5, <2>6
<1>8. ASSUME NEW x \in S, \A y \in S : d[y] < d[x] => y \in G PROVE x \in G
  <2>1. CASE x[1] > Len(t)
    <3>1. h[x] = [modes |-> <<>>, opens |-> {}, mode |-> x[2], close |-> x[3]]
      BY <1>1, <2>1, Zenon DEF ScanFunction
    <3>2. h[x].modes = <<>>
      BY <3>1
    <3>3. Len(h[x].modes) = 0
      BY <3>2
    <3> QED BY <1>3, <1>4, <2>1, <3>3
  <2>2. CASE x[1] <= Len(t)
    <3>1. PICK how : how = Reads(t, x, anyDelimiter, doubled)
      OBVIOUS
    <3>2. PICK y \in S : y = NextPoint(x, how)
      BY <1>7, <2>2, <3>1
    <3>3. /\ how[2] \in Nat /\ OwnMode(x, how) \in Mode
          /\ y[1] = x[1] + how[2] /\ x[1] < x[1] + how[2] /\ x[1] + how[2] <= Len(t) + 1
          /\ h[x].modes = Times(OwnMode(x, how), how[2]) \o h[y].modes
      BY <1>7, <2>2, <3>1, <3>2
    <3>4. d[y] = Len(t) + 1 - (x[1] + how[2]) /\ d[x] = Len(t) + 1 - x[1]
      BY <1>2, <3>3
    <3>5. y \in G
      BY <1>4, <1>8, <3>3, <3>4
    <3>6. Len(h[y].modes) = Len(t) + 1 - y[1]
      BY <1>3, <3>5
    <3>7. PICK r \in Seq(Mode) : r = h[y].modes
      BY <1>6
    <3>8. Len(Times(OwnMode(x, how), how[2]) \o r) = how[2] + Len(r)
      BY <3>3, TimesBefore
    <3>9. Len(h[x].modes) = Len(t) + 1 - x[1]
      BY <1>4, <3>3, <3>6, <3>7, <3>8
    <3> QED BY <1>3, <3>9
  <2> QED BY <1>4, <2>1, <2>2
<1>9. \A x \in S : x \in G
  BY <1>5, <1>8, MeasureInduct
<1>10. \A x \in S : Len(h[x].modes) = Len(t) + 1 - x[1]
  BY <1>3, <1>9
<1>11. ASSUME NEW x \in S, NEW how, x[1] <= Len(t), how = Reads(t, x, anyDelimiter, doubled), NEW k \in x[1]..Len(t)
       PROVE  ModeAt(h, x, k) = IF k < x[1] + how[2] THEN OwnMode(x, how) ELSE ModeAt(h, NextPoint(x, how), k)
  <2>1. PICK y \in S : y = NextPoint(x, how)
    BY <1>7, <1>11
  <2>2. /\ how[2] \in Nat /\ OwnMode(x, how) \in Mode
        /\ y[1] = x[1] + how[2] /\ x[1] < x[1] + how[2] /\ x[1] + how[2] <= Len(t) + 1
        /\ h[x].modes = Times(OwnMode(x, how), how[2]) \o h[y].modes
    BY <1>7, <1>11, <2>1
  <2>3. PICK r \in Seq(Mode) : r = h[y].modes
    BY <1>6
  <2>4. Len(r) = Len(t) + 1 - y[1]
    BY <1>10, <2>3
  <2>5. PICK own \in Mode : own = OwnMode(x, how)
    BY <2>2
  <2>6. PICK n \in Nat : n = how[2]
    BY <2>2
  <2>7. \A j \in 1..n + Len(r) : (Times(own, n) \o r)[j] = IF j <= n THEN own ELSE r[j - n]
    BY TimesBefore
  <2>8. k - x[1] + 1 \in 1..n + Len(r)
    <3>1. x[1] \in Int /\ n \in Nat /\ Len(t) \in Int
      BY <1>4
    <3>2. x[1] <= k /\ k <= Len(t) /\ k \in Int
      BY <1>11, <3>1
    <3>3. Len(r) = Len(t) + 1 - (x[1] + n)
      BY <2>2, <2>4, <2>6
    <3> QED BY ONLY <3>1, <3>2, <3>3
  <2>9. h[x].modes = Times(own, n) \o r
    BY <2>2, <2>3, <2>5, <2>6
  <2>10. PICK j \in 1..n + Len(r) : j = k - x[1] + 1
    BY <2>8
  <2>11. h[x].modes[j] = IF j <= n THEN own ELSE r[j - n]
    BY <2>7, <2>9, <2>10
  <2>12. (j <= n <=> k < x[1] + n) /\ j - n = k - y[1] + 1
    <3>1. x[1] \in Int /\ k \in Int /\ n \in Int
      BY <1>4
    <3>2. y[1] = x[1] + n
      BY <2>2, <2>6
    <3> QED BY <2>10, <3>1, <3>2
  <2>13. ModeAt(h, x, k) = h[x].modes[j]
    BY <2>10 DEF ModeAt
  <2>14. ModeAt(h, y, k) = r[k - y[1] + 1]
    BY <2>3 DEF ModeAt
  <2> QED BY <2>1, <2>5, <2>6, <2>11, <2>12, <2>13, <2>14
<1>12. \A x \in ScanPoints(t) : h[x].modes \in Seq(Mode) /\ Len(h[x].modes) = Len(t) + 1 - x[1]
  BY <1>1, <1>6, <1>10
<1>13. ReadInModes(t, anyDelimiter, doubled, h)
  BY <1>1, <1>11 DEF ReadInModes
<1> QED BY <1>12, <1>13, Zenon

\* One read: what is read has a mode, and what follows is read where the scan goes on.
OneRead(t, h, i, m, c, n, next, close) ==
  \A k \in i..Len(t) :
     ModeAt(h, <<i, m, c>>, k) = IF k < i + n THEN IF m = "code" THEN next ELSE m
                                 ELSE ModeAt(h, <<i + n, next, close>>, k)

\* So it is read.
LEMMA ReadsOn ==
  ASSUME NEW t \in Text, NEW anyDelimiter, NEW doubled \in SUBSET {"single", "double"},
         NEW h, ScanFunction(t, anyDelimiter, doubled, h), NEW i \in 1..Len(t), NEW m \in Mode, NEW c \in STRING,
         NEW n, NEW next, NEW close, Reads(t, <<i, m, c>>, anyDelimiter, doubled) = <<next, n, close>>
  PROVE  /\ n \in Nat /\ i < i + n /\ i + n <= Len(t) + 1 /\ next \in Mode /\ close \in STRING
         /\ OneRead(t, h, i, m, c, n, next, close)
<1>1. Len(t) \in Nat
  BY DEF Text
<1>2. PICK x : x = <<i, m, c>>
  OBVIOUS
<1>3. x[1] = i /\ x[2] = m /\ x[3] = c /\ x \in ScanPoints(t) /\ x[1] <= Len(t)
  BY <1>1, <1>2 DEF ScanPoints
<1>4. PICK how : how = <<next, n, close>>
  OBVIOUS
<1>5. how[1] = next /\ how[2] = n /\ how[3] = close /\ how = Reads(t, x, anyDelimiter, doubled)
  BY <1>2, <1>4
<1>6. how[2] \in Nat /\ x[1] < x[1] + how[2] /\ x[1] + how[2] <= Len(t) + 1
  BY <1>3, <1>5, NextPointAhead
<1>7. how[1] \in Mode /\ how[3] \in STRING
  BY <1>3, <1>5, ReadsAhead
<1>8. ReadInModes(t, anyDelimiter, doubled, h)
  BY ModesRead
<1>9. \A k \in x[1]..Len(t) :
        ModeAt(h, x, k) = IF k < x[1] + how[2] THEN OwnMode(x, how) ELSE ModeAt(h, NextPoint(x, how), k)
  BY <1>3, <1>5, <1>8 DEF ReadInModes
<1>10. OwnMode(x, how) = (IF m = "code" THEN next ELSE m) /\ NextPoint(x, how) = <<i + n, next, close>>
  BY <1>3, <1>5 DEF OwnMode, NextPoint
<1> QED BY <1>2, <1>3, <1>5, <1>6, <1>7, <1>9, <1>10 DEF OneRead

\* In another mode than that of code a scan stays in it until it ends, then reads code.
RunsTo(t, h, m, c, e) ==
  \A i \in 1..Len(t) + 1 :
     /\ e[i] \in i..Len(t) + 1
     /\ \A k \in i..Len(t) :
          ModeAt(h, <<i, m, c>>, k) = IF k < e[i] THEN m ELSE ModeAt(h, <<e[i], "code", NoClose>>, k)

\* It does.
LEMMA RunsToItsEnd ==
  ASSUME NEW t \in Text, NEW anyDelimiter, NEW doubled \in SUBSET {"single", "double"},
         NEW h, ScanFunction(t, anyDelimiter, doubled, h),
         NEW m \in Mode, m # "code", NEW c \in STRING, NEW e, EndsAt(t, Close(m, c), m \in doubled, e)
  PROVE  RunsTo(t, h, m, c, e)
<1>1. Len(t) \in Nat
  BY DEF Text
<1>2. PICK S : S = 1..Len(t) + 1
  OBVIOUS
<1>3. PICK d : d = [i \in S |-> Len(t) + 1 - i]
  OBVIOUS
<1>4. \A i \in S : d[i] \in Nat
  BY <1>1, <1>2, <1>3
<1>5. PICK G : G = {i \in S : \A k \in i..Len(t) :
                       ModeAt(h, <<i, m, c>>, k) = IF k < e[i] THEN m ELSE ModeAt(h, <<e[i], "code", NoClose>>, k)}
  OBVIOUS
<1>6. PICK end : end = Close(m, c)
  OBVIOUS
<1>7. /\ Len(end) \in Nat \ {0} /\ Len(end \o end) = Len(end) + Len(end)
      /\ m \in {"single", "double"} => Len(end) = 1
  BY <1>6, CloseLengths
<1>8. EndsAt(t, end, m \in doubled, e) /\ (m \in doubled => Len(end) = 1)
  BY <1>6, <1>7
<1>9. \A i \in S : e[i] \in i..Len(t) + 1
  BY <1>2, <1>7, <1>8, EndingAhead
<1>10. ASSUME NEW i \in S, i <= Len(t)
       PROVE  /\ <<i, m, c>> \in ScanPoints(t)
              /\ Reads(t, <<i, m, c>>, anyDelimiter, doubled) =
                   IF m \in doubled /\ At(t, i, end \o end) THEN <<m, 2, c>>
                   ELSE IF At(t, i, end) THEN <<"code", Len(end), NoClose>> ELSE <<m, 1, c>>
  <2>1. "code" \notin doubled
    OBVIOUS
  <2>2. PICK x : x = <<i, m, c>>
    OBVIOUS
  <2>3. x[1] = i /\ x[2] = m /\ x[3] = c
    BY <2>2
  <2>4. Reads(t, x, anyDelimiter, doubled) =
          IF x[2] \in doubled /\ At(t, x[1], end \o end) THEN <<x[2], 2, x[3]>>
          ELSE IF At(t, x[1], end) THEN <<"code", Len(end), NoClose>> ELSE <<x[2], 1, x[3]>>
    BY <1>6, <2>1, <2>3, ReadsCases DEF InMode
  <2> QED BY <1>2, <2>2, <2>3, <2>4 DEF ScanPoints
<1>11. ASSUME NEW i \in S, i <= Len(t), NEW m2, NEW n, NEW c2, Reads(t, <<i, m, c>>, anyDelimiter, doubled) = <<m2, n, c2>>,
              NEW k \in i..Len(t)
       PROVE  /\ n \in Nat /\ i < i + n /\ i + n <= Len(t) + 1
              /\ ModeAt(h, <<i, m, c>>, k) = IF k < i + n THEN m ELSE ModeAt(h, <<i + n, m2, c2>>, k)
  <2>1. i \in 1..Len(t)
    BY <1>1, <1>2, <1>11
  <2>2. n \in Nat /\ i < i + n /\ i + n <= Len(t) + 1 /\ OneRead(t, h, i, m, c, n, m2, c2)
    BY <1>11, <2>1, ReadsOn
  <2> QED BY <1>11, <2>2 DEF OneRead
<1>12. ASSUME NEW i \in S, \A j \in S : d[j] < d[i] => j \in G PROVE i \in G
  <2>1. e[i] = IF i > Len(t) THEN Len(t) + 1
               ELSE IF m \in doubled /\ At(t, i, end \o end) THEN e[i + 2]
               ELSE IF At(t, i, end) THEN i + Len(end) ELSE e[i + 1]
    BY <1>2, <1>8, <1>12 DEF EndsAt
  <2>2. i \in Int /\ i >= 1 /\ i <= Len(t) + 1
    BY <1>1, <1>2, <1>12
  <2>3. CASE i > Len(t)
    BY <1>1, <1>5, <1>12, <2>2, <2>3
  <2>4. ASSUME NEW n \in Nat, i < i + n, i + n <= Len(t) + 1, i <= Len(t), NEW k \in i..Len(t),
               e[i] = e[i + n], ModeAt(h, <<i, m, c>>, k) = IF k < i + n THEN m ELSE ModeAt(h, <<i + n, m, c>>, k)
        PROVE  ModeAt(h, <<i, m, c>>, k) = IF k < e[i] THEN m ELSE ModeAt(h, <<e[i], "code", NoClose>>, k)
    <3>1. PICK j \in S : j = i + n
      BY <1>1, <1>2, <2>2, <2>4
    <3>2. d[j] = Len(t) + 1 - j /\ d[i] = Len(t) + 1 - i
      BY <1>3, <1>12
    <3>3. j \in G
      BY <1>1, <1>12, <2>2, <2>4, <3>1, <3>2
    <3>4. e[j] \in j..Len(t) + 1 /\ e[i] = e[j]
      BY <1>9, <2>4, <3>1
    <3>5. CASE k < j
      <4>1. k < e[i]
        BY <1>1, <2>2, <2>4, <3>1, <3>4, <3>5
      <4> QED BY <2>4, <3>1, <3>5, <4>1
    <3>6. CASE ~(k < j)
      <4>1. k \in j..Len(t)
        BY <1>1, <2>2, <2>4, <3>1, <3>6
      <4>2. ModeAt(h, <<j, m, c>>, k) = IF k < e[j] THEN m ELSE ModeAt(h, <<e[j], "code", NoClose>>, k)
        BY <1>5, <3>3, <4>1
      <4> QED BY <2>4, <3>1, <3>4, <3>6, <4>2
    <3> QED BY <3>5, <3>6
  <2>5. ASSUME i <= Len(t), NEW k \in i..Len(t)
        PROVE  ModeAt(h, <<i, m, c>>, k) = IF k < e[i] THEN m ELSE ModeAt(h, <<e[i], "code", NoClose>>, k)
    <3>1. CASE m \in doubled /\ At(t, i, end \o end)
      <4>1. Reads(t, <<i, m, c>>, anyDelimiter, doubled) = <<m, 2, c>>
        BY <1>10, <2>5, <3>1
      <4>2. /\ i < i + 2 /\ i + 2 <= Len(t) + 1
            /\ ModeAt(h, <<i, m, c>>, k) = IF k < i + 2 THEN m ELSE ModeAt(h, <<i + 2, m, c>>, k)
        BY <1>11, <2>5, <4>1
      <4>3. e[i] = e[i + 2]
        BY <1>1, <2>1, <2>2, <2>5, <3>1
      <4> QED BY <2>4, <2>5, <4>2, <4>3
    <3>2. CASE ~(m \in doubled /\ At(t, i, end \o end)) /\ At(t, i, end)
      <4>1. Reads(t, <<i, m, c>>, anyDelimiter, doubled) = <<"code", Len(end), NoClose>>
        BY <1>10, <2>5, <3>2
      <4>2. ModeAt(h, <<i, m, c>>, k) = IF k < i + Len(end) THEN m ELSE ModeAt(h, <<i + Len(end), "code", NoClose>>, k)
        BY <1>11, <2>5, <4>1
      <4>3. e[i] = i + Len(end)
        BY <1>1, <2>1, <2>2, <2>5, <3>2
      <4> QED BY <4>2, <4>3
    <3>3. CASE ~(m \in doubled /\ At(t, i, end \o end)) /\ ~At(t, i, end)
      <4>1. Reads(t, <<i, m, c>>, anyDelimiter, doubled) = <<m, 1, c>>
        BY <1>10, <2>5, <3>3
      <4>2. /\ i < i + 1 /\ i + 1 <= Len(t) + 1
            /\ ModeAt(h, <<i, m, c>>, k) = IF k < i + 1 THEN m ELSE ModeAt(h, <<i + 1, m, c>>, k)
        BY <1>11, <2>5, <4>1
      <4>3. e[i] = e[i + 1]
        BY <1>1, <2>1, <2>2, <2>5, <3>3
      <4> QED BY <2>4, <2>5, <4>2, <4>3
    <3> QED BY <3>1, <3>2, <3>3
  <2>6. CASE i <= Len(t)
    BY <1>5, <1>12, <2>5, <2>6
  <2> QED BY <1>1, <2>2, <2>3, <2>6
<1>13. \A i \in S : i \in G
  BY <1>4, <1>12, MeasureInduct
<1> QED BY <1>2, <1>5, <1>9, <1>13 DEF RunsTo

\* Where what is read at a position ends.
StopsAt(t, doubled, m, c, i, stop) ==
  IF m = "code" THEN stop = i /\ c = NoClose
  ELSE \E e : EndsAt(t, Close(m, c), m \in doubled, e) /\ stop = e[i]

\* What opens at a position of code is read to its end, then code.
ReadUntil(t, h, i, m, stop) ==
  \A k \in i..Len(t) :
     ModeAt(h, <<i, "code", NoClose>>, k) = IF k < stop THEN m ELSE ModeAt(h, <<stop, "code", NoClose>>, k)

\* It is.
LEMMA OpenedRuns ==
  ASSUME NEW t \in Text, NEW anyDelimiter, NEW doubled \in SUBSET {"single", "double"},
         NEW h, ScanFunction(t, anyDelimiter, doubled, h), NEW i \in 1..Len(t),
         NEW m \in Mode, NEW n \in Nat, NEW c \in STRING, Opens(t, i, anyDelimiter) = <<m, n, c>>,
         NEW stop, StopsAt(t, doubled, m, c, i + n, stop)
  PROVE  /\ stop \in i + n..Len(t) + 1 /\ i + n \in i + 1..Len(t) + 1
         /\ ReadUntil(t, h, i, m, stop)
<1>1. Len(t) \in Nat
  BY DEF Text
<1>2. PICK x : x = <<i, "code", NoClose>>
  OBVIOUS
<1>3. x[1] = i /\ x[2] = "code" /\ x[3] = NoClose
  BY <1>2
<1>4. Reads(t, x, anyDelimiter, doubled) = <<m, n, c>>
  <2>1. "code" \notin doubled
    OBVIOUS
  <2> QED BY <1>3, <2>1, ReadsCases
<1>5. "code" \in Mode /\ NoClose \in STRING
  BY EditorAssumption DEF Mode
<1>6. i < i + n /\ i + n <= Len(t) + 1 /\ OneRead(t, h, i, "code", NoClose, n, m, c)
  BY <1>2, <1>4, <1>5, ReadsOn
<1>7. i + n \in i + 1..Len(t) + 1
  BY <1>1, <1>6
<1>8. \A k \in i..Len(t) : ModeAt(h, x, k) = IF k < i + n THEN m ELSE ModeAt(h, <<i + n, m, c>>, k)
  BY <1>2, <1>6 DEF OneRead
<1>9. CASE m = "code"
  <2>1. c = NoClose /\ stop = i + n
    BY <1>9 DEF StopsAt
  <2> QED BY <1>1, <1>2, <1>7, <1>8, <1>9, <2>1 DEF ReadUntil
<1>10. CASE m # "code"
  <2>1. PICK e : EndsAt(t, Close(m, c), m \in doubled, e) /\ stop = e[i + n]
    BY <1>10 DEF StopsAt
  <2>2. PICK j \in 1..Len(t) + 1 : j = i + n
    BY <1>1, <1>7
  <2>3. /\ e[j] \in j..Len(t) + 1
        /\ \A k \in j..Len(t) :
             ModeAt(h, <<j, m, c>>, k) = IF k < e[j] THEN m ELSE ModeAt(h, <<e[j], "code", NoClose>>, k)
    <3>1. RunsTo(t, h, m, c, e)
      BY <1>10, <2>1, RunsToItsEnd
    <3> QED BY <3>1 DEF RunsTo
  <2>4. stop = e[j]
    BY <2>1, <2>2
  <2>5. ASSUME NEW k \in i..Len(t)
        PROVE  ModeAt(h, x, k) = IF k < stop THEN m ELSE ModeAt(h, <<stop, "code", NoClose>>, k)
    <3>1. CASE k < j
      <4>1. k < stop
        BY <1>1, <2>3, <2>4, <3>1
      <4> QED BY <1>8, <2>2, <3>1, <4>1
    <3>2. CASE ~(k < j)
      <4>1. k \in j..Len(t)
        BY <1>1, <3>2
      <4> QED BY <1>8, <2>2, <2>3, <2>4, <3>2, <4>1
    <3> QED BY <3>1, <3>2
  <2> QED BY <1>2, <1>7, <2>2, <2>3, <2>4, <2>5 DEF ReadUntil
<1> QED BY <1>9, <1>10

\* What is not doubled ends where its end is next.
LEMMA StopsAfter ==
  ASSUME NEW t \in Text, NEW m \in Mode, m # "code", NEW doubled, m \notin doubled, NEW c,
         NEW p, p = Close(m, c), NEW i \in 1..Len(t) + 1
  PROVE  StopsAt(t, doubled, m, c, i, After(t, p, i))
<1>1. PICK e : e = [j \in 1..Len(t) + 1 |-> After(t, p, j)]
  OBVIOUS
<1>2. Len(p) \in Nat \ {0}
  <2>1. Len(p) \in 1..2
    BY CloseLengths
  <2> QED BY <2>1
<1>3. EndsAt(t, p, FALSE, e)
  BY <1>1, <1>2, AfterEnds, Zenon
<1>4. (m \in doubled) = FALSE
  OBVIOUS
<1>5. EndsAt(t, Close(m, c), m \in doubled, e)
  BY <1>3, <1>4
<1>6. After(t, p, i) = e[i]
  BY <1>1
<1> QED BY <1>5, <1>6, Zenon DEF StopsAt

\* A lexeme is read in the mode it opens and ends where that ends; but a comment of
\* one line ends before the line does.
LEMMA LexemeOpens ==
  ASSUME NEW t \in Text, NEW i \in 1..Len(t), ~At(t, i, <<"-", "-">>)
  PROVE  \E m \in Mode, n \in Nat, c \in STRING :
            /\ Opens(t, i, FALSE) = <<m, n, c>>
            /\ Lexeme(t, i).kind = KindOf(m)
            /\ StopsAt(t, {"single", "double"}, m, c, i + n, Lexeme(t, i).end)
<1>1. Len(t) \in Nat /\ \A j \in 1..Len(t) : t[j] \in STRING
  BY DEF Text
<1>2. NoClose \in STRING /\ "]" \in STRING
  BY EditorAssumption
<1>3. \/ At(t, i, <<"/", "*">>) \/ QQuote(t, i) \/ BlankQuote(t, i)
      \/ t[i] = "'" \/ t[i] = "\"" \/ BeginsNothing(t, i)
  BY Zenon DEF BeginsNothing
<1>4. /\ KindOf("code") = "code" /\ KindOf("block") = "comment" /\ KindOf("q") = "string"
      /\ KindOf("single") = "string" /\ KindOf("double") = "identifier"
  BY DEF KindOf
<1>5. CASE At(t, i, <<"/", "*">>)
  <2>1. Opens(t, i, FALSE) = <<"block", 2, NoClose>> /\ i + 1 <= Len(t)
    BY <1>5, OpensCases, FirstOfLexeme
  <2>2. Lexeme(t, i) = [kind |-> "comment", end |-> After(t, <<"*", "/">>, i + 2)]
    BY <1>5, LexemeCases
  <2>3. i + 2 \in 1..Len(t) + 1
    BY <1>1, <2>1
  <2>4. "block" \in Mode /\ "block" # "code" /\ "block" \notin {"single", "double"}
    BY DEF Mode
  <2>5. StopsAt(t, {"single", "double"}, "block", NoClose, i + 2, After(t, <<"*", "/">>, i + 2))
    BY <2>3, <2>4, StopsAfter, CloseCases, Zenon
  <2>6. Lexeme(t, i).kind = "comment" /\ Lexeme(t, i).end = After(t, <<"*", "/">>, i + 2)
    BY <2>2
  <2>7. 2 \in Nat
    OBVIOUS
  <2> QED BY <1>2, <1>4, <2>1, <2>4, <2>5, <2>6, <2>7, Zenon
<1>6. CASE QQuote(t, i)
  <2>1. Opens(t, i, FALSE) = <<"q", 3, Closing(t[i + 2])>> /\ i + 2 <= Len(t)
    BY <1>6, OpensCases, FirstOfLexeme
  <2>2. Lexeme(t, i) = [kind |-> "string", end |-> QQuoteEnd(t, i)]
    BY <1>6, LexemeCases
  <2>3. i + 3 \in 1..Len(t) + 1 /\ t[i + 2] \in STRING
    BY <1>1, <2>1
  <2>4. "q" \in Mode /\ "q" # "code" /\ "q" \notin {"single", "double"}
    BY DEF Mode
  <2>5. PICK c : c = Closing(t[i + 2])
    OBVIOUS
  <2>6. c \in STRING
    BY <1>2, <2>3, <2>5 DEF Closing
  <2>7. StopsAt(t, {"single", "double"}, "q", c, i + 3, After(t, <<c, "'">>, i + 3))
    BY <2>3, <2>4, StopsAfter, CloseCases, Zenon
  <2>8. Lexeme(t, i).kind = "string" /\ Lexeme(t, i).end = After(t, <<c, "'">>, i + 3)
    BY <2>2, <2>5 DEF QQuoteEnd
  <2>9. 3 \in Nat
    OBVIOUS
  <2> QED BY <1>4, <2>1, <2>4, <2>5, <2>6, <2>7, <2>8, <2>9, Zenon
<1>7. CASE t[i] = "'"
  <2>1. Opens(t, i, FALSE) = <<"single", 1, NoClose>>
    BY <1>7, OpensCases
  <2>2. Lexeme(t, i) = [kind |-> "string", end |-> QuotedTextEnd(t, i, "'")]
    BY <1>7, LexemeCases
  <2>3. PICK e : EndsAt(t, <<"'">>, TRUE, e) /\ \A j \in 1..Len(t) : QuotedTextEnd(t, j, "'") = e[j + 1]
    BY QuotedEnds
  <2>4. "single" \in Mode /\ "single" # "code" /\ ("single" \in {"single", "double"}) = TRUE
    BY DEF Mode
  <2>5. EndsAt(t, Close("single", NoClose), "single" \in {"single", "double"}, e)
    BY <2>3, <2>4, CloseCases
  <2>6. QuotedTextEnd(t, i, "'") = e[i + 1]
    BY <2>3
  <2>7. StopsAt(t, {"single", "double"}, "single", NoClose, i + 1, QuotedTextEnd(t, i, "'"))
    BY <2>4, <2>5, <2>6, Zenon DEF StopsAt
  <2>8. Lexeme(t, i).kind = "string" /\ Lexeme(t, i).end = QuotedTextEnd(t, i, "'")
    BY <2>2
  <2>9. 1 \in Nat
    OBVIOUS
  <2> QED BY <1>2, <1>4, <2>1, <2>4, <2>7, <2>8, <2>9, Zenon
<1>8. CASE t[i] = "\""
  <2>1. Opens(t, i, FALSE) = <<"double", 1, NoClose>>
    BY <1>8, OpensCases
  <2>2. PICK end : end = QuotedTextEnd(t, i, "\"")
    OBVIOUS
  <2>3. Lexeme(t, i) = [kind |-> "identifier", end |-> end]
    BY <1>8, <2>2, LexemeCases, Zenon
  <2>4. PICK e : EndsAt(t, <<"\"">>, TRUE, e) /\ \A j \in 1..Len(t) : QuotedTextEnd(t, j, "\"") = e[j + 1]
    BY QuotedEnds, Zenon
  <2>5. "double" \in Mode /\ "double" # "code" /\ ("double" \in {"single", "double"}) = TRUE
    BY DEF Mode
  <2>6. EndsAt(t, Close("double", NoClose), "double" \in {"single", "double"}, e)
    <3>1. PICK yes : yes = ("double" \in {"single", "double"})
      OBVIOUS
    <3>2. yes = TRUE
      BY <2>5, <3>1
    <3>3. EndsAt(t, Close("double", NoClose), yes, e)
      BY <2>4, <3>2, CloseCases, Zenon
    <3> QED BY <3>1, <3>3, Zenon
  <2>7. end = e[i + 1]
    BY <2>2, <2>4, Zenon
  <2>8. StopsAt(t, {"single", "double"}, "double", NoClose, i + 1, end)
    BY <2>5, <2>6, <2>7, Zenon DEF StopsAt
  <2>9. Lexeme(t, i).kind = "identifier" /\ Lexeme(t, i).end = end
    BY <2>3
  <2>10. 1 \in Nat
    OBVIOUS
  <2> QED BY <1>2, <1>4, <2>1, <2>5, <2>8, <2>9, <2>10, Zenon
<1>9. CASE BlankQuote(t, i) \/ BeginsNothing(t, i)
  <2>1. Opens(t, i, FALSE) = <<"code", 1, NoClose>>
    BY <1>9, OpensCases
  <2>2. Lexeme(t, i) = [kind |-> "code", end |-> i + 1]
    BY <1>9, LexemeCases
  <2>3. Lexeme(t, i).kind = "code" /\ Lexeme(t, i).end = i + 1
    BY <2>2
  <2>4. StopsAt(t, {"single", "double"}, "code", NoClose, i + 1, Lexeme(t, i).end)
    BY <2>3, Zenon DEF StopsAt
  <2>5. "code" \in Mode /\ 1 \in Nat
    BY DEF Mode
  <2> QED BY <1>2, <1>4, <2>1, <2>3, <2>4, <2>5, Zenon
<1> QED BY <1>3, <1>5, <1>6, <1>7, <1>8, <1>9, Zenon

\* A comment that begins with two dashes ends with its line.
LEMMA LineComment ==
  ASSUME NEW t \in Text, NEW i \in 1..Len(t), At(t, i, <<"-", "-">>)
  PROVE  /\ LineEnd(t, i) \in i + 2..Len(t) + 1
         /\ LineEnd(t, i) <= Len(t) => t[LineEnd(t, i)] = NL
         /\ After(t, <<NL>>, i + 2) = IF LineEnd(t, i) <= Len(t) THEN LineEnd(t, i) + 1 ELSE Len(t) + 1
<1>1. Len(t) \in Nat
  BY DEF Text
<1>2. i + 1 <= Len(t) /\ t[i] = "-" /\ t[i + 1] = "-" /\ "-" # NL
  BY <1>1, AtTwo DEF NL
<1>3. PICK T, U : T = {j \in i..Len(t) : t[j] = NL} /\ U = {j + 1 : j \in Find(t, <<NL>>, i + 2)}
  OBVIOUS
<1>4. T \subseteq Nat /\ T \subseteq i + 2..Len(t)
  <2>1. SUFFICES ASSUME NEW j \in T PROVE j \in i + 2..Len(t)
    BY <1>1
  <2>2. j \in i..Len(t) /\ t[j] = NL
    BY <1>3
  <2>3. j # i /\ j # i + 1
    BY <1>2, <2>2
  <2> QED BY <1>1, <2>2, <2>3
<1>5. ASSUME NEW j PROVE j \in Find(t, <<NL>>, i + 2) <=> j \in T
  <2>1. j \in i + 2..Len(t) => (At(t, j, <<NL>>) <=> t[j] = NL)
    BY <1>1, AtOne
  <2> QED BY <1>1, <1>3, <1>4, <2>1 DEF Find
<1>6. U = {j + 1 : j \in T} /\ U \subseteq Nat
  <2>1. U = {j + 1 : j \in T}
    BY <1>3, <1>5
  <2> QED BY <1>1, <1>4, <2>1
<1>7. LineEnd(t, i) = MinOr(T, Len(t) + 1)
  BY <1>3 DEF LineEnd
<1>8. After(t, <<NL>>, i + 2) = MinOr(U, Len(t) + 1)
  BY <1>3 DEF After
<1>9. CASE T = {}
  <2>1. U = {}
    BY <1>6, <1>9
  <2>2. LineEnd(t, i) = Len(t) + 1 /\ After(t, <<NL>>, i + 2) = Len(t) + 1
    BY <1>4, <1>6, <1>7, <1>8, <1>9, <2>1, MinOrCases
  <2> QED BY <1>1, <1>2, <2>2
<1>10. CASE T # {}
  <2>1. PICK l : l = LineEnd(t, i)
    OBVIOUS
  <2>2. l \in T /\ \A j \in T : l <= j
    <3>1. MinOr(T, Len(t) + 1) \in T /\ \A j \in T : MinOr(T, Len(t) + 1) <= j
      BY <1>4, <1>10, MinOrCases
    <3> QED BY <1>7, <2>1, <3>1
  <2>3. PICK u : u = MinOr(U, Len(t) + 1)
    OBVIOUS
  <2>4. u \in U /\ \A v \in U : u <= v
    <3>1. l + 1 \in U
      BY <1>6, <2>2
    <3> QED BY <1>6, <2>3, <3>1, MinOrCases
  <2>5. u = l + 1
    <3>1. PICK j \in T : u = j + 1
      BY <1>6, <2>4
    <3>2. l <= j /\ u <= l + 1
      BY <1>6, <2>2, <2>4
    <3>3. l \in Int /\ j \in Int
      BY <1>4, <2>2
    <3> QED BY <3>1, <3>2, <3>3
  <2>6. t[l] = NL /\ l \in i + 2..Len(t)
    BY <1>3, <1>4, <2>2
  <2> QED BY <1>1, <1>8, <2>1, <2>3, <2>5, <2>6
<1> QED BY <1>9, <1>10

\* What a lexeme may be.
LexemeKind == {"code", "comment", "string", "identifier"}

\* A lexeme is one of them and ends in the text or with it.
LEMMA LexemeAhead ==
  ASSUME NEW t \in Text, NEW i \in 1..Len(t)
  PROVE  Lexeme(t, i).kind \in LexemeKind /\ Lexeme(t, i).end \in i + 1..Len(t) + 1
<1>1. Len(t) \in Nat
  BY DEF Text
<1>2. CASE At(t, i, <<"-", "-">>)
  <2>1. Lexeme(t, i) = [kind |-> "comment", end |-> LineEnd(t, i)]
    BY <1>2, LexemeCases
  <2>2. LineEnd(t, i) \in i + 2..Len(t) + 1
    BY <1>2, LineComment
  <2> QED BY <1>1, <2>1, <2>2 DEF LexemeKind
<1>3. CASE ~At(t, i, <<"-", "-">>)
  <2>1. PICK m \in Mode, n \in Nat, c \in STRING :
          /\ Opens(t, i, FALSE) = <<m, n, c>>
          /\ Lexeme(t, i).kind = KindOf(m)
          /\ StopsAt(t, {"single", "double"}, m, c, i + n, Lexeme(t, i).end)
    BY <1>3, LexemeOpens
  <2>2. PICK h : ScanFunction(t, FALSE, {"single", "double"}, h)
    BY ScanReads
  <2>3. Lexeme(t, i).end \in i + n..Len(t) + 1 /\ i + n \in i + 1..Len(t) + 1
    BY <2>1, <2>2, OpenedRuns
  <2>4. KindOf(m) \in LexemeKind
    BY DEF Mode, KindOf, LexemeKind
  <2> QED BY <1>1, <2>1, <2>3, <2>4
<1> QED BY <1>2, <1>3

\* The kind that is found for the character at k when lexemes are read from i on.
KindAt(g, i, k) == g[i][k - i + 1]

\* g finds the kinds of the characters, lexeme by lexeme.
FindsKinds(t, g) ==
  /\ Kinds(t) = g[1]
  /\ \A i \in 1..Len(t) : \A k \in i..Len(t) :
       KindAt(g, i, k) = IF k < Lexeme(t, i).end THEN Lexeme(t, i).kind ELSE KindAt(g, Lexeme(t, i).end, k)

\* g is the function by which Kinds is defined.
KindsFrom(t, g) ==
  g = [i \in 1..Len(t) + 1 |->
        LET with(lexeme) == Times(lexeme.kind, lexeme.end - i) \o g[lexeme.end]
        IN  IF i > Len(t) THEN <<>> ELSE with(Lexeme(t, i))]

\* There is such a function, and what it gives are kinds.
LEMMA KindsExist ==
  ASSUME NEW t \in Text
  PROVE  \E g : KindsFrom(t, g)
<1>1. Len(t) \in Nat
  BY DEF Text
<1>2. PICK S : S = 1..Len(t) + 1
  OBVIOUS
<1>3. PICK stop : stop = [i \in S |-> i > Len(t)]
  OBVIOUS
<1>4. PICK skip : skip = [i \in S |-> FALSE]
  OBVIOUS
<1>5. PICK next : next = [i \in S |-> Lexeme(t, i).end]
  OBVIOUS
<1>6. PICK at : at = [i \in S |-> Times(Lexeme(t, i).kind, Lexeme(t, i).end - i)]
  OBVIOUS
<1>7. PICK m : m = [i \in S |-> Len(t) + 1 - i]
  OBVIOUS
<1>8. PICK most \in Nat : most = Len(t) + 1
  BY <1>1
<1>9. \A i \in S : m[i] \in Nat /\ m[i] < most
  BY <1>1, <1>2, <1>7, <1>8
<1>10. ASSUME NEW i \in S, ~stop[i] PROVE next[i] \in S /\ m[next[i]] < m[i]
  <2>1. i \in 1..Len(t)
    <3>1. ~(i > Len(t))
      BY <1>3, <1>10
    <3> QED BY <1>1, <1>2, <1>10, <3>1
  <2>2. PICK e : e = Lexeme(t, i).end
    OBVIOUS
  <2>3. e \in i + 1..Len(t) + 1
    BY <2>1, <2>2, LexemeAhead
  <2>4. next[i] = e /\ e \in S
    BY <1>1, <1>2, <1>5, <2>1, <2>2, <2>3
  <2>5. m[e] = Len(t) + 1 - e /\ m[i] = Len(t) + 1 - i
    BY <1>7, <2>4
  <2> QED BY <1>1, <2>1, <2>3, <2>4, <2>5
<1>11. \A i \in S : ~stop[i] => next[i] \in S /\ m[next[i]] < m[i]
  BY <1>10
<1>12. PICK g : Walks(S, stop, skip, at, next, g)
  BY <1>9, <1>11, WalkExists
<1>13. ASSUME NEW i \in S
       PROVE  (IF stop[i] THEN <<>> ELSE IF skip[i] THEN g[next[i]] ELSE at[i] \o g[next[i]]) =
              (LET with(lexeme) == Times(lexeme.kind, lexeme.end - i) \o g[lexeme.end]
               IN  IF i > Len(t) THEN <<>> ELSE with(Lexeme(t, i)))
  <2>1. (stop[i] <=> i > Len(t)) /\ ~skip[i]
    BY <1>3, <1>4
  <2>2. next[i] = Lexeme(t, i).end /\ at[i] = Times(Lexeme(t, i).kind, Lexeme(t, i).end - i)
    BY <1>5, <1>6
  <2> QED BY <2>1, <2>2, Zenon
<1>14. KindsFrom(t, g)
  BY <1>2, <1>12, <1>13, Zenon DEF Walks, KindsFrom
<1> QED BY <1>14, Zenon

\* It finds the kinds.
LEMMA KindsFound ==
  ASSUME NEW t \in Text
  PROVE  \E g : FindsKinds(t, g)
<1>1. Len(t) \in Nat
  BY DEF Text
<1>2. PICK g : g = (CHOOSE f : KindsFrom(t, f))
  OBVIOUS
<1>3. KindsFrom(t, g)
  BY <1>2, KindsExist, Zenon
<1>4. Kinds(t) = g[1]
  BY <1>2, Zenon DEF Kinds, KindsFrom
<1>5. PICK S : S = 1..Len(t) + 1
  OBVIOUS
<1>6. \A i \in S : g[i] = IF i > Len(t) THEN <<>>
                          ELSE Times(Lexeme(t, i).kind, Lexeme(t, i).end - i) \o g[Lexeme(t, i).end]
  <2>1. PICK f : f = [i \in 1..Len(t) + 1 |->
        LET with(lexeme) == Times(lexeme.kind, lexeme.end - i) \o g[lexeme.end]
        IN  IF i > Len(t) THEN <<>> ELSE with(Lexeme(t, i))]
    OBVIOUS
  <2>2. f = g
    BY <1>3, <2>1, Zenon DEF KindsFrom
  <2>3. \A i \in S : f[i] = IF i > Len(t) THEN <<>>
                            ELSE Times(Lexeme(t, i).kind, Lexeme(t, i).end - i) \o g[Lexeme(t, i).end]
    BY <1>5, <2>1, Zenon
  <2> QED BY <2>2, <2>3, Zenon
<1>7. PICK d : d = [i \in S |-> Len(t) + 1 - i]
  OBVIOUS
<1>8. \A i \in S : d[i] \in Nat
  BY <1>1, <1>5, <1>7
<1>9. PICK G : G = {i \in S : g[i] \in Seq(LexemeKind) /\ Len(g[i]) = Len(t) + 1 - i}
  OBVIOUS
<1>10. ASSUME NEW i \in S, i <= Len(t), NEW kind, kind = Lexeme(t, i).kind, NEW e, e = Lexeme(t, i).end
       PROVE  /\ kind \in LexemeKind /\ e \in S /\ i < e /\ e - i \in Nat /\ i \in 1..Len(t)
              /\ g[i] = Times(kind, e - i) \o g[e] /\ d[e] < d[i]
  <2>1. i \in 1..Len(t) /\ ~(i > Len(t))
    BY <1>1, <1>5, <1>10
  <2>2. kind \in LexemeKind /\ e \in i + 1..Len(t) + 1
    BY <1>10, <2>1, LexemeAhead
  <2>3. g[i] = Times(kind, e - i) \o g[e]
    BY <1>6, <1>10, <2>1, Zenon
  <2>4. e \in S /\ i < e /\ e - i \in Nat
    BY <1>1, <1>5, <2>1, <2>2
  <2>5. d[e] = Len(t) + 1 - e /\ d[i] = Len(t) + 1 - i
    BY <1>7, <2>4
  <2>6. d[e] < d[i]
    BY <1>1, <2>1, <2>2, <2>5
  <2> QED BY <2>1, <2>2, <2>3, <2>4, <2>6
<1>11. ASSUME NEW i \in S, \A j \in S : d[j] < d[i] => j \in G PROVE i \in G
  <2>1. CASE i > Len(t)
    <3>1. g[i] = <<>>
      BY <1>6, <2>1
    <3>2. Len(t) + 1 - i = 0
      BY <1>1, <1>5, <2>1
    <3>3. g[i] \in Seq(LexemeKind) /\ Len(g[i]) = 0
      BY <3>1
    <3> QED BY <1>9, <3>2, <3>3
  <2>2. CASE i <= Len(t)
    <3>1. PICK kind, e : kind = Lexeme(t, i).kind /\ e = Lexeme(t, i).end
      OBVIOUS
    <3>2. /\ kind \in LexemeKind /\ e \in S /\ i < e /\ e - i \in Nat /\ i \in 1..Len(t)
          /\ g[i] = Times(kind, e - i) \o g[e] /\ d[e] < d[i]
      BY <1>10, <2>2, <3>1
    <3>3. g[e] \in Seq(LexemeKind) /\ Len(g[e]) = Len(t) + 1 - e
      BY <1>9, <1>11, <3>2
    <3>4. g[i] \in Seq(LexemeKind) /\ Len(g[i]) = (e - i) + Len(g[e])
      <4>1. PICK r \in Seq(LexemeKind) : r = g[e]
        BY <3>3
      <4>2. PICK n \in Nat : n = e - i
        BY <3>2
      <4>3. Times(kind, n) \o r \in Seq(LexemeKind) /\ Len(Times(kind, n) \o r) = n + Len(r)
        BY <3>2, TimesBefore
      <4> QED BY <3>2, <4>1, <4>2, <4>3
    <3>5. Len(g[i]) = Len(t) + 1 - i
      <4>1. i \in Int /\ e \in Int
        BY <1>1, <1>5, <3>2
      <4> QED BY <1>1, <3>3, <3>4, <4>1
    <3> QED BY <1>9, <3>4, <3>5
  <2> QED BY <1>1, <1>5, <2>1, <2>2
<1>12. \A i \in S : i \in G
  BY <1>8, <1>11, MeasureInduct
<1>13. ASSUME NEW i \in 1..Len(t), NEW k \in i..Len(t)
       PROVE  KindAt(g, i, k) = IF k < Lexeme(t, i).end THEN Lexeme(t, i).kind ELSE KindAt(g, Lexeme(t, i).end, k)
  <2>1. PICK kind, e : kind = Lexeme(t, i).kind /\ e = Lexeme(t, i).end
    OBVIOUS
  <2>2. i \in S /\ i <= Len(t) /\ k \in Int /\ k >= i /\ k <= Len(t)
    BY <1>1, <1>5, <1>13
  <2>3. /\ kind \in LexemeKind /\ e \in S /\ i < e /\ e - i \in Nat
        /\ g[i] = Times(kind, e - i) \o g[e]
    BY <1>10, <2>1, <2>2
  <2>4. PICK r \in Seq(LexemeKind) : r = g[e] /\ Len(r) = Len(t) + 1 - e
    BY <1>9, <1>12, <2>3
  <2>5. PICK n \in Nat : n = e - i
    BY <2>3
  <2>6. \A j \in 1..n + Len(r) : (Times(kind, n) \o r)[j] = IF j <= n THEN kind ELSE r[j - n]
    BY <2>3, TimesBefore
  <2>7. e \in Int
    BY <1>1, <1>5, <2>3
  <2>8. PICK j \in 1..n + Len(r) : j = k - i + 1
    <3>1. k - i + 1 \in 1..n + Len(r)
      BY <1>1, <2>2, <2>4, <2>5, <2>7
    <3> QED BY <3>1
  <2>9. g[i][j] = IF j <= n THEN kind ELSE r[j - n]
    BY <2>3, <2>4, <2>5, <2>6, <2>8
  <2>10. (j <= n <=> k < e) /\ j - n = k - e + 1
    BY <2>2, <2>5, <2>7, <2>8
  <2>11. KindAt(g, i, k) = g[i][j] /\ KindAt(g, e, k) = r[k - e + 1]
    BY <2>4, <2>8 DEF KindAt
  <2>12. KindAt(g, i, k) = IF k < e THEN kind ELSE KindAt(g, e, k)
    BY <2>9, <2>10, <2>11
  <2> QED BY <2>1, <2>12
<1> QED BY <1>4, <1>13, Zenon DEF FindsKinds

\* The end of a line is code.
LEMMA LineEndIsCode ==
  ASSUME NEW t \in Text, NEW i \in 1..Len(t), t[i] = NL
  PROVE  Lexeme(t, i) = [kind |-> "code", end |-> i + 1]
<1>1. NL # "-" /\ NL # "/" /\ NL # "q" /\ NL # "'" /\ NL # "\""
  BY Zenon DEF NL
<1>2. t[i] # "-" /\ t[i] # "/" /\ t[i] # "q" /\ t[i] # "'" /\ t[i] # "\""
  BY <1>1, Zenon
<1>3. ~At(t, i, <<"-", "-">>) /\ ~At(t, i, <<"/", "*">>) /\ ~QQuote(t, i) /\ ~BlankQuote(t, i)
  BY <1>2, FirstOfLexeme, Zenon
<1>4. BeginsNothing(t, i)
  BY <1>2, <1>3, Zenon DEF BeginsNothing
<1> QED BY <1>4, LexemeCases, Zenon

\* Lexeme by lexeme or character by character: the same kind.
LEMMA KindsAreModes ==
  ASSUME NEW t \in Text, NEW g, FindsKinds(t, g), NEW h, ScanFunction(t, FALSE, {"single", "double"}, h)
  PROVE  \A i \in 1..Len(t) + 1 : \A k \in i..Len(t) :
            t[k] # NL => KindAt(g, i, k) = KindOf(ModeAt(h, <<i, "code", NoClose>>, k))
<1>1. Len(t) \in Nat
  BY DEF Text
<1>2. PICK S : S = 1..Len(t) + 1
  OBVIOUS
<1>3. PICK d : d = [i \in S |-> Len(t) + 1 - i]
  OBVIOUS
<1>4. \A i \in S : d[i] \in Nat
  BY <1>1, <1>2, <1>3
<1>5. PICK G : G = {i \in S : \A k \in i..Len(t) :
                       t[k] # NL => KindAt(g, i, k) = KindOf(ModeAt(h, <<i, "code", NoClose>>, k))}
  OBVIOUS
<1>6. \A i \in 1..Len(t) : \A k \in i..Len(t) :
        KindAt(g, i, k) = IF k < Lexeme(t, i).end THEN Lexeme(t, i).kind ELSE KindAt(g, Lexeme(t, i).end, k)
  BY DEF FindsKinds
<1>7. ASSUME NEW i \in S, \A j \in S : d[j] < d[i] => j \in G PROVE i \in G
  <2>1. i \in Int /\ i >= 1 /\ i <= Len(t) + 1
    BY <1>1, <1>2, <1>7
  <2>2. ASSUME NEW j \in i + 1..Len(t) + 1, NEW k \in j..Len(t), t[k] # NL
        PROVE  KindAt(g, j, k) = KindOf(ModeAt(h, <<j, "code", NoClose>>, k))
    <3>1. j \in S /\ d[j] < d[i]
      BY <1>1, <1>2, <1>3, <2>1, <2>2
    <3> QED BY <1>5, <1>7, <2>2, <3>1
  <2>3. ASSUME i <= Len(t), At(t, i, <<"-", "-">>), NEW k \in i..Len(t), t[k] # NL
        PROVE  KindAt(g, i, k) = KindOf(ModeAt(h, <<i, "code", NoClose>>, k))
    <3>1. i \in 1..Len(t)
      BY <1>1, <2>1, <2>3
    <3>2. PICK l : l = LineEnd(t, i)
      OBVIOUS
    <3>3. PICK stop : stop = After(t, <<NL>>, i + 2)
      OBVIOUS
    <3>4. /\ l \in i + 2..Len(t) + 1 /\ (l <= Len(t) => t[l] = NL)
          /\ stop = IF l <= Len(t) THEN l + 1 ELSE Len(t) + 1
      BY <2>3, <3>1, <3>2, <3>3, LineComment
    <3>5. Opens(t, i, FALSE) = <<"line", 2, NoClose>>
      BY <2>3, <3>1, OpensCases
    <3>6. "line" \in Mode /\ 2 \in Nat /\ NoClose \in STRING /\ "line" # "code" /\ "line" \notin {"single", "double"}
      BY EditorAssumption DEF Mode
    <3>7. StopsAt(t, {"single", "double"}, "line", NoClose, i + 2, stop)
      <4>1. i + 2 \in 1..Len(t) + 1
        BY <1>1, <3>1, <3>4
      <4> QED BY <3>3, <3>6, <4>1, StopsAfter, CloseCases, Zenon
    <3>8. ModeAt(h, <<i, "code", NoClose>>, k) = IF k < stop THEN "line" ELSE ModeAt(h, <<stop, "code", NoClose>>, k)
      <4>1. ReadUntil(t, h, i, "line", stop)
        BY <3>1, <3>5, <3>6, <3>7, OpenedRuns
      <4> QED BY <2>3, <4>1 DEF ReadUntil
    <3>9. Lexeme(t, i).kind = "comment" /\ Lexeme(t, i).end = l
      <4>1. Lexeme(t, i) = [kind |-> "comment", end |-> l]
        BY <2>3, <3>1, <3>2, LexemeCases
      <4> QED BY <4>1
    <3>10. KindAt(g, i, k) = IF k < l THEN "comment" ELSE KindAt(g, l, k)
      BY <1>6, <2>3, <3>1, <3>9
    <3>11. CASE k < l
      <4>1. k < stop
        BY <1>1, <2>1, <2>3, <3>4, <3>11
      <4> QED BY <3>8, <3>10, <3>11, <4>1 DEF KindOf
    <3>12. CASE ~(k < l)
      <4>1. l \in 1..Len(t) /\ t[l] = NL /\ k \in l + 1..Len(t) /\ l > i
        BY <1>1, <2>1, <2>3, <3>4, <3>12
      <4>2. stop = l + 1
        BY <1>1, <3>4, <4>1
      <4>3. Lexeme(t, l).kind = "code" /\ Lexeme(t, l).end = l + 1
        <5>1. Lexeme(t, l) = [kind |-> "code", end |-> l + 1]
          BY <4>1, LineEndIsCode
        <5> QED BY <5>1
      <4>4. k \in l..Len(t) /\ ~(k < l + 1)
        BY <1>1, <4>1
      <4>5. KindAt(g, l, k) = KindAt(g, l + 1, k)
        BY <1>6, <4>1, <4>3, <4>4
      <4>6. l + 1 \in i + 1..Len(t) + 1 /\ k \in l + 1..Len(t)
        BY <1>1, <2>1, <4>1
      <4>7. KindAt(g, l + 1, k) = KindOf(ModeAt(h, <<l + 1, "code", NoClose>>, k))
        BY <2>2, <2>3, <4>6
      <4>8. ~(k < stop)
        BY <4>2, <4>4
      <4> QED BY <3>8, <3>10, <3>12, <4>2, <4>5, <4>7, <4>8
    <3> QED BY <3>11, <3>12
  <2>4. ASSUME i <= Len(t), ~At(t, i, <<"-", "-">>), NEW k \in i..Len(t), t[k] # NL
        PROVE  KindAt(g, i, k) = KindOf(ModeAt(h, <<i, "code", NoClose>>, k))
    <3>1. i \in 1..Len(t)
      BY <1>1, <2>1, <2>4
    <3>2. PICK m \in Mode, n \in Nat, c \in STRING :
            /\ Opens(t, i, FALSE) = <<m, n, c>>
            /\ Lexeme(t, i).kind = KindOf(m)
            /\ StopsAt(t, {"single", "double"}, m, c, i + n, Lexeme(t, i).end)
      BY <2>4, <3>1, LexemeOpens
    <3>3. PICK stop : stop = Lexeme(t, i).end
      OBVIOUS
    <3>4. /\ stop \in i + n..Len(t) + 1 /\ i + n \in i + 1..Len(t) + 1
          /\ ReadUntil(t, h, i, m, stop)
      BY <3>1, <3>2, <3>3, OpenedRuns
    <3>5. ModeAt(h, <<i, "code", NoClose>>, k) = IF k < stop THEN m ELSE ModeAt(h, <<stop, "code", NoClose>>, k)
      BY <2>4, <3>4 DEF ReadUntil
    <3>6. KindAt(g, i, k) = IF k < stop THEN KindOf(m) ELSE KindAt(g, stop, k)
      BY <1>6, <2>4, <3>1, <3>2, <3>3
    <3>7. CASE k < stop
      BY <3>5, <3>6, <3>7
    <3>8. CASE ~(k < stop)
      <4>1. stop \in i + 1..Len(t) + 1 /\ k \in stop..Len(t)
        BY <1>1, <2>1, <2>4, <3>4, <3>8
      <4>2. KindAt(g, stop, k) = KindOf(ModeAt(h, <<stop, "code", NoClose>>, k))
        BY <2>2, <2>4, <4>1
      <4> QED BY <3>5, <3>6, <3>8, <4>2
    <3> QED BY <3>7, <3>8
  <2>5. ASSUME NEW k \in i..Len(t), t[k] # NL
        PROVE  KindAt(g, i, k) = KindOf(ModeAt(h, <<i, "code", NoClose>>, k))
    <3>1. i <= Len(t)
      BY <1>1, <2>1, <2>5
    <3> QED BY <2>3, <2>4, <2>5, <3>1
  <2> QED BY <1>5, <1>7, <2>5
<1>8. \A i \in S : i \in G
  BY <1>4, <1>7, MeasureInduct
<1> QED BY <1>2, <1>5, <1>8

\* The two ways to open differ where a blank follows a quote after a q.
LEMMA OpensSame ==
  ASSUME NEW t \in Text, NEW i \in 1..Len(t), ~BlankQuote(t, i)
  PROVE  \E m, n, c : /\ Opens(t, i, TRUE) = <<m, n, c>> /\ Opens(t, i, FALSE) = <<m, n, c>>
                      /\ m = "double" => c = NoClose
<1>1. \/ At(t, i, <<"-", "-">>) \/ At(t, i, <<"/", "*">>) \/ QQuote(t, i)
      \/ t[i] = "'" \/ t[i] = "\"" \/ BeginsNothing(t, i)
  BY Zenon DEF BeginsNothing
<1>2. CASE At(t, i, <<"-", "-">>)
  BY <1>2, OpensCases, Zenon
<1>3. CASE At(t, i, <<"/", "*">>)
  BY <1>3, OpensCases, Zenon
<1>4. CASE QQuote(t, i)
  <2>1. Opens(t, i, TRUE) = <<"q", 3, Closing(t[i + 2])>> /\ Opens(t, i, FALSE) = <<"q", 3, Closing(t[i + 2])>>
    BY <1>4, OpensCases
  <2>2. "q" # "double"
    OBVIOUS
  <2> QED BY <2>1, <2>2, Zenon
<1>5. CASE t[i] = "'"
  BY <1>5, OpensCases, Zenon
<1>6. CASE t[i] = "\""
  BY <1>6, OpensCases, Zenon
<1>7. CASE BeginsNothing(t, i)
  BY <1>7, OpensCases, Zenon
<1> QED BY <1>1, <1>2, <1>3, <1>4, <1>5, <1>6, <1>7, Zenon

\* A doubled quote in a quoted identifier: to go on, or to end and to begin again.
LEMMA DoubledQuote ==
  ASSUME NEW t \in Text, NEW h, ScanFunction(t, FALSE, {"single", "double"}, h),
         NEW f, ScanFunction(t, TRUE, {"single"}, f),
         NEW i \in 1..Len(t), NEW end, end = Close("double", NoClose), At(t, i, end \o end)
  PROVE  /\ i + 1 <= Len(t)
         /\ \A k \in i..Len(t) :
              /\ ModeAt(h, <<i, "double", NoClose>>, k) =
                   IF k < i + 2 THEN "double" ELSE ModeAt(h, <<i + 2, "double", NoClose>>, k)
              /\ ModeAt(f, <<i, "double", NoClose>>, k) =
                   IF k < i + 2 THEN "double" ELSE ModeAt(f, <<i + 2, "double", NoClose>>, k)
<1>1. Len(t) \in Nat
  BY DEF Text
<1>2. PICK q : q = "\""
  OBVIOUS
<1>3. end = <<q>>
  BY <1>2, CloseCases, Zenon
<1>4. At(t, i, <<q, q>>)
  BY <1>3, OneAndOne
<1>5. i + 1 <= Len(t) /\ t[i] = q /\ t[i + 1] = q
  <2>1. i \in Int
    BY <1>1
  <2> QED BY <1>4, <2>1, AtTwo
<1>6. At(t, i, end) /\ Len(end) = 1
  BY <1>1, <1>3, <1>5, AtOne
<1>7. {"single", "double"} \in SUBSET {"single", "double"} /\ {"single"} \in SUBSET {"single", "double"}
  OBVIOUS
<1>8. "double" \in Mode /\ "code" \in Mode /\ NoClose \in STRING
  BY EditorAssumption DEF Mode
<1>9. OneRead(t, h, i, "double", NoClose, 2, "double", NoClose)
  <2>1. Reads(t, <<i, "double", NoClose>>, FALSE, {"single", "double"}) = <<"double", 2, NoClose>>
    <3>1. PICK x : x = <<i, "double", NoClose>>
      OBVIOUS
    <3>2. x[1] = i /\ x[2] = "double" /\ x[3] = NoClose
      BY <3>1
    <3>3. "code" \notin {"single", "double"} /\ "double" \in {"single", "double"} /\ "double" # "code"
      OBVIOUS
    <3>4. PICK both : both = {"single", "double"}
      OBVIOUS
    <3>5. "code" \notin both /\ x[2] \in both /\ x[2] # "code" /\ end = Close(x[2], x[3])
      BY <3>2, <3>3, <3>4
    <3>6. At(t, x[1], end \o end)
      BY <3>2
    <3>7. Reads(t, x, FALSE, both) = <<x[2], 2, x[3]>>
      BY <3>5, <3>6, ReadsCases DEF InMode
    <3> QED BY <3>1, <3>2, <3>4, <3>7
  <2> QED BY <1>7, <1>8, <2>1, ReadsOn
<1>10. OneRead(t, f, i, "double", NoClose, 1, "code", NoClose)
  <2>1. Reads(t, <<i, "double", NoClose>>, TRUE, {"single"}) = <<"code", 1, NoClose>>
    <3>1. PICK x : x = <<i, "double", NoClose>>
      OBVIOUS
    <3>2. x[1] = i /\ x[2] = "double" /\ x[3] = NoClose
      BY <3>1
    <3>3. "code" \notin {"single"} /\ "double" \notin {"single"} /\ "double" # "code"
      OBVIOUS
    <3>4. Reads(t, x, TRUE, {"single"}) = <<"code", Len(end), NoClose>>
      BY <1>6, <3>2, <3>3, ReadsCases DEF InMode
    <3> QED BY <1>6, <3>1, <3>4
  <2> QED BY <1>7, <1>8, <2>1, ReadsOn
<1>11. PICK j \in 1..Len(t) : j = i + 1
  BY <1>1, <1>5
<1>12. OneRead(t, f, j, "code", NoClose, 1, "double", NoClose)
  <2>1. Opens(t, j, TRUE) = <<"double", 1, NoClose>>
    <3>1. t[j] = "\""
      BY <1>2, <1>5, <1>11, Zenon
    <3> QED BY <3>1, OpensCases, Zenon
  <2>2. Reads(t, <<j, "code", NoClose>>, TRUE, {"single"}) = <<"double", 1, NoClose>>
    <3>1. PICK x : x = <<j, "code", NoClose>>
      OBVIOUS
    <3>2. x[1] = j /\ x[2] = "code" /\ x[3] = NoClose
      BY <3>1
    <3>3. "code" \notin {"single"}
      OBVIOUS
    <3> QED BY <2>1, <3>1, <3>2, <3>3, ReadsCases
  <2> QED BY <1>7, <1>8, <2>2, ReadsOn
<1>13. ASSUME NEW k \in i..Len(t)
       PROVE  /\ ModeAt(h, <<i, "double", NoClose>>, k) =
                   IF k < i + 2 THEN "double" ELSE ModeAt(h, <<i + 2, "double", NoClose>>, k)
              /\ ModeAt(f, <<i, "double", NoClose>>, k) =
                   IF k < i + 2 THEN "double" ELSE ModeAt(f, <<i + 2, "double", NoClose>>, k)
  <2>1. "double" # "code"
    OBVIOUS
  <2>2. ModeAt(h, <<i, "double", NoClose>>, k) =
          IF k < i + 2 THEN "double" ELSE ModeAt(h, <<i + 2, "double", NoClose>>, k)
    BY <1>9, <2>1 DEF OneRead
  <2>3. ModeAt(f, <<i, "double", NoClose>>, k) =
          IF k < j THEN "double" ELSE ModeAt(f, <<j, "code", NoClose>>, k)
    BY <1>10, <1>11, <2>1 DEF OneRead
  <2>4. k \in j..Len(t) => ModeAt(f, <<j, "code", NoClose>>, k) =
          IF k < j + 1 THEN "double" ELSE ModeAt(f, <<j + 1, "double", NoClose>>, k)
    BY <1>12 DEF OneRead
  <2>5. j + 1 = i + 2 /\ i \in Int /\ k \in Int /\ k <= Len(t)
    BY <1>1, <1>11
  <2>6. CASE k < j
    <3>1. k < i + 2
      BY <1>11, <2>5, <2>6
    <3> QED BY <2>2, <2>3, <2>6, <3>1
  <2>7. CASE ~(k < j)
    <3>1. k \in j..Len(t)
      BY <1>1, <2>5, <2>7
    <3> QED BY <2>2, <2>3, <2>4, <2>5, <2>7, <3>1
  <2> QED BY <2>6, <2>7
<1> QED BY <1>5, <1>13

\* The loop that splits a script reads the modes that the other loop reads.
LEMMA ScansSame ==
  ASSUME NEW t \in Text, \A i \in 1..Len(t) : ~BlankQuote(t, i),
         NEW h, ScanFunction(t, FALSE, {"single", "double"}, h),
         NEW f, ScanFunction(t, TRUE, {"single"}, f)
  PROVE  \A k \in 1..Len(t) : ModeAt(h, <<1, "code", NoClose>>, k) = ModeAt(f, <<1, "code", NoClose>>, k)
<1>1. Len(t) \in Nat
  BY DEF Text
<1>2. PICK S : S = {x \in ScanPoints(t) : x[2] = "double" => x[3] = NoClose}
  OBVIOUS
<1>3. PICK d : d = [x \in S |-> Len(t) + 1 - x[1]]
  OBVIOUS
<1>4. PICK G : G = {x \in S : \A k \in x[1]..Len(t) : ModeAt(h, x, k) = ModeAt(f, x, k)}
  OBVIOUS
<1>5. PICK both, one : both = {"single", "double"} /\ one = {"single"}
  OBVIOUS
<1>6. both \in SUBSET {"single", "double"} /\ one \in SUBSET {"single", "double"} /\ "code" \notin both /\ "code" \notin one
  BY <1>5
<1>7. ScanFunction(t, FALSE, both, h) /\ ScanFunction(t, TRUE, one, f)
  BY <1>5
<1>8. \A x \in S : d[x] \in Nat
  <2>1. SUFFICES ASSUME NEW x \in S PROVE d[x] \in Nat
    OBVIOUS
  <2>2. x[1] \in 1..Len(t) + 1
    BY <1>2 DEF ScanPoints
  <2> QED BY <1>1, <1>3, <2>2
<1>9. ASSUME NEW x \in S, \A y \in S : d[y] < d[x] => y \in G PROVE x \in G
  <2>1. PICK i, m, c : i = x[1] /\ m = x[2] /\ c = x[3]
    OBVIOUS
  <2>2. /\ i \in 1..Len(t) + 1 /\ m \in Mode /\ c \in STRING /\ x = <<i, m, c>>
        /\ m = "double" => c = NoClose
    BY <1>2, <2>1 DEF ScanPoints
  <2>3. ASSUME NEW j \in i + 1..Len(t) + 1, NEW n \in Mode, NEW b \in STRING, n = "double" => b = NoClose
        PROVE  \A k \in j..Len(t) : ModeAt(h, <<j, n, b>>, k) = ModeAt(f, <<j, n, b>>, k)
    <3>1. PICK y : y = <<j, n, b>>
      OBVIOUS
    <3>2. y[1] = j /\ y[2] = n /\ y[3] = b
      BY <3>1
    <3>3. y \in S
      <4>1. j \in 1..Len(t) + 1
        BY <1>1, <2>2, <2>3
      <4> QED BY <1>2, <2>3, <3>1, <3>2, <4>1 DEF ScanPoints
    <3>4. d[y] = Len(t) + 1 - j /\ d[x] = Len(t) + 1 - i
      BY <1>3, <2>1, <3>2, <3>3
    <3>5. y \in G
      BY <1>1, <1>9, <2>2, <2>3, <3>3, <3>4
    <3> QED BY <1>4, <3>1, <3>2, <3>5
  <2>4. ASSUME i <= Len(t), NEW k \in i..Len(t) PROVE ModeAt(h, x, k) = ModeAt(f, x, k)
    <3>1. i \in 1..Len(t) /\ i \in Int /\ k \in Int /\ k <= Len(t)
      BY <1>1, <2>2, <2>4
    <3>2. PICK end : end = Close(m, c)
      OBVIOUS
    <3>3. CASE m = "double" /\ At(t, i, end \o end)
      <4>1. end = Close("double", NoClose) /\ x = <<i, "double", NoClose>>
        BY <2>2, <3>2, <3>3
      <4>2. /\ i + 1 <= Len(t)
            /\ \A l \in i..Len(t) :
                 /\ ModeAt(h, <<i, "double", NoClose>>, l) =
                      IF l < i + 2 THEN "double" ELSE ModeAt(h, <<i + 2, "double", NoClose>>, l)
                 /\ ModeAt(f, <<i, "double", NoClose>>, l) =
                      IF l < i + 2 THEN "double" ELSE ModeAt(f, <<i + 2, "double", NoClose>>, l)
        BY <3>1, <3>3, <4>1, DoubledQuote
      <4>3. i + 2 \in i + 1..Len(t) + 1 /\ "double" \in Mode /\ NoClose \in STRING
        BY <1>1, <3>1, <4>2, EditorAssumption DEF Mode
      <4>4. \A l \in i + 2..Len(t) : ModeAt(h, <<i + 2, "double", NoClose>>, l) = ModeAt(f, <<i + 2, "double", NoClose>>, l)
        BY <2>3, <4>3
      <4>5. k < i + 2 \/ k \in i + 2..Len(t)
        BY <1>1, <3>1
      <4> QED BY <2>4, <4>1, <4>2, <4>4, <4>5
    <3>4. CASE ~(m = "double" /\ At(t, i, end \o end))
      <4>1. \E next, n, close : /\ Reads(t, x, FALSE, both) = <<next, n, close>> /\ Reads(t, x, TRUE, one) = <<next, n, close>>
                                /\ next = "double" => close = NoClose
        <5>1. CASE m = "code"
          <6>1. Reads(t, x, FALSE, both) = Opens(t, i, FALSE) /\ Reads(t, x, TRUE, one) = Opens(t, i, TRUE)
            <7>1. x[2] = "code"
              BY <2>1, <5>1
            <7>2. Reads(t, x, FALSE, both) = Opens(t, x[1], FALSE)
              BY <1>6, <7>1, ReadsCases
            <7>3. Reads(t, x, TRUE, one) = Opens(t, x[1], TRUE)
              BY <1>6, <7>1, ReadsCases
            <7> QED BY <2>1, <7>2, <7>3, Zenon
          <6>2. ~BlankQuote(t, i)
            BY <3>1
          <6>3. \E next, n, close : /\ Opens(t, i, TRUE) = <<next, n, close>> /\ Opens(t, i, FALSE) = <<next, n, close>>
                                    /\ next = "double" => close = NoClose
            BY <3>1, <6>2, OpensSame, Zenon
          <6> QED BY <6>1, <6>3, Zenon
        <5>2. CASE m # "code"
          <6>1. (m \in both /\ At(t, i, end \o end)) <=> (m \in one /\ At(t, i, end \o end))
            BY <1>5, <3>4
          <6>2. end = Close(x[2], x[3]) /\ x[2] # "code"
            BY <2>1, <3>2, <5>2
          <6>3. Reads(t, x, FALSE, both) =
                  IF m \in both /\ At(t, i, end \o end) THEN <<m, 2, c>>
                  ELSE IF At(t, i, end) THEN <<"code", Len(end), NoClose>> ELSE <<m, 1, c>>
            <7>1. Reads(t, x, FALSE, both) = InMode(t, x, both, end)
              BY <1>6, <6>2, ReadsCases
            <7> QED BY <2>1, <7>1, Zenon DEF InMode
          <6>4. Reads(t, x, TRUE, one) =
                  IF m \in one /\ At(t, i, end \o end) THEN <<m, 2, c>>
                  ELSE IF At(t, i, end) THEN <<"code", Len(end), NoClose>> ELSE <<m, 1, c>>
            <7>1. Reads(t, x, TRUE, one) = InMode(t, x, one, end)
              BY <1>6, <6>2, ReadsCases
            <7> QED BY <2>1, <7>1, Zenon DEF InMode
          <6>5. PICK how : how = IF m \in both /\ At(t, i, end \o end) THEN <<m, 2, c>>
                                 ELSE IF At(t, i, end) THEN <<"code", Len(end), NoClose>> ELSE <<m, 1, c>>
            OBVIOUS
          <6>6. how = <<m, 2, c>> \/ how = <<"code", Len(end), NoClose>> \/ how = <<m, 1, c>>
            BY <6>5
          <6>7. Reads(t, x, FALSE, both) = how /\ Reads(t, x, TRUE, one) = how
            BY <6>1, <6>3, <6>4, <6>5, Zenon
          <6> QED BY <2>2, <6>6, <6>7
        <5> QED BY <5>1, <5>2
      <4>2. PICK next, n, close : /\ Reads(t, x, FALSE, both) = <<next, n, close>> /\ Reads(t, x, TRUE, one) = <<next, n, close>>
                                  /\ next = "double" => close = NoClose
        BY <4>1
      <4>3. /\ n \in Nat /\ i < i + n /\ i + n <= Len(t) + 1 /\ next \in Mode /\ close \in STRING
            /\ OneRead(t, h, i, m, c, n, next, close)
        BY <1>6, <1>7, <2>2, <3>1, <4>2, ReadsOn
      <4>4. OneRead(t, f, i, m, c, n, next, close)
        BY <1>6, <1>7, <2>2, <3>1, <4>2, ReadsOn
      <4>5. i + n \in i + 1..Len(t) + 1
        BY <1>1, <3>1, <4>3
      <4>6. \A l \in i + n..Len(t) : ModeAt(h, <<i + n, next, close>>, l) = ModeAt(f, <<i + n, next, close>>, l)
        BY <2>3, <4>2, <4>3, <4>5
      <4>7. /\ ModeAt(h, x, k) = IF k < i + n THEN IF m = "code" THEN next ELSE m
                                 ELSE ModeAt(h, <<i + n, next, close>>, k)
            /\ ModeAt(f, x, k) = IF k < i + n THEN IF m = "code" THEN next ELSE m
                                 ELSE ModeAt(f, <<i + n, next, close>>, k)
        BY <2>2, <2>4, <4>3, <4>4 DEF OneRead
      <4>8. k < i + n \/ k \in i + n..Len(t)
        BY <1>1, <3>1, <4>3
      <4> QED BY <4>6, <4>7, <4>8
    <3> QED BY <3>3, <3>4
  <2>5. ASSUME NEW k \in i..Len(t) PROVE ModeAt(h, x, k) = ModeAt(f, x, k)
    <3>1. i <= Len(t)
      BY <1>1, <2>2, <2>5
    <3> QED BY <2>4, <2>5, <3>1
  <2> QED BY <1>4, <1>9, <2>1, <2>5
<1>10. \A x \in S : x \in G
  BY <1>8, <1>9, MeasureInduct
<1>11. PICK x : x = <<1, "code", NoClose>>
  OBVIOUS
<1>12. x[1] = 1 /\ x[2] = "code" /\ x[3] = NoClose /\ x \in S
  BY <1>1, <1>2, <1>11, EditorAssumption DEF ScanPoints, Mode
<1> QED BY <1>4, <1>10, <1>11, <1>12

\* What a text is to one scanner of the program it is to the others: what is found
\* from lexeme to lexeme (_mask_sql_noncode, find_sql_binds) is what is read character
\* by character (sql_code_mask, strip_sql_comments), a bind is never inside a literal,
\* a quoted identifier or a comment, and the loop of split_script reads the same too
\* in a text where no q' is followed by a blank, which that loop takes as a delimiter.
THEOREM ScannersAgree ==
  ASSUME NEW t \in Text
  PROVE  /\ SameKinds(t, Kinds(t), ScanAll(t).modes)
         /\ \A i \in FindSqlBinds(t) : ScanAll(t).modes[i] = "code"
         /\ (\A i \in DOMAIN t : ~BlankQuote(t, i)) =>
              Scan(t, "code", NoClose, TRUE, {"single"}).modes = ScanAll(t).modes
<1>1. Len(t) \in Nat /\ DOMAIN t = 1..Len(t)
  BY DEF Text
<1>2. PICK h : ScanFunction(t, FALSE, {"single", "double"}, h)
  BY ScanReads
<1>3. PICK f : ScanFunction(t, TRUE, {"single"}, f)
  <2>1. {"single"} \in SUBSET {"single", "double"}
    OBVIOUS
  <2> QED BY <2>1, ScanReads
<1>4. PICK g : FindsKinds(t, g)
  BY KindsFound
<1>5. PICK x : x = <<1, "code", NoClose>>
  OBVIOUS
<1>6. x[1] = 1 /\ x \in ScanPoints(t) /\ "code" \in Mode /\ NoClose \in STRING
  BY <1>1, <1>5, EditorAssumption DEF ScanPoints, Mode
<1>7. ScanAll(t) = h[x] /\ Scan(t, "code", NoClose, TRUE, {"single"}) = f[x]
  BY <1>2, <1>3, <1>5, <1>6 DEF ScanFunction, ScanAll
<1>8. PICK modes, others : modes = h[x].modes /\ others = f[x].modes
  OBVIOUS
<1>9. modes \in Seq(Mode) /\ Len(modes) = Len(t)
  <2>1. h[x].modes \in Seq(Mode) /\ Len(h[x].modes) = Len(t) + 1 - x[1]
    BY <1>2, <1>6, ModesRead
  <2> QED BY <1>1, <1>6, <1>8, <2>1
<1>10. others \in Seq(Mode) /\ Len(others) = Len(t)
  <2>1. {"single"} \in SUBSET {"single", "double"}
    OBVIOUS
  <2>2. f[x].modes \in Seq(Mode) /\ Len(f[x].modes) = Len(t) + 1 - x[1]
    BY <1>3, <1>6, <2>1, ModesRead
  <2> QED BY <1>1, <1>6, <1>8, <2>2
<1>11. \A k \in 1..Len(t) : ModeAt(h, x, k) = modes[k] /\ ModeAt(f, x, k) = others[k]
  BY <1>1, <1>6, <1>8 DEF ModeAt
<1>12. \A k \in 1..Len(t) : KindAt(g, 1, k) = Kinds(t)[k]
  BY <1>1, <1>4 DEF FindsKinds, KindAt
<1>13. \A k \in 1..Len(t) : t[k] # NL => Kinds(t)[k] = KindOf(modes[k])
  <2>1. 1 \in 1..Len(t) + 1
    BY <1>1
  <2>2. \A k \in 1..Len(t) : t[k] # NL => KindAt(g, 1, k) = KindOf(ModeAt(h, <<1, "code", NoClose>>, k))
    BY <1>2, <1>4, <2>1, KindsAreModes
  <2> QED BY <1>5, <1>11, <1>12, <2>2
<1>14. SameKinds(t, Kinds(t), modes)
  BY <1>1, <1>13 DEF SameKinds
<1>15. ASSUME NEW i \in FindSqlBinds(t) PROVE modes[i] = "code"
  <2>1. i \in 1..Len(t) /\ t[i] = ":" /\ Kinds(t)[i] = "code"
    BY <1>1, Zenon DEF FindSqlBinds
  <2>2. t[i] # NL
    BY <2>1 DEF NL
  <2>3. KindOf(modes[i]) = "code"
    BY <1>13, <2>1, <2>2
  <2>4. modes[i] \in Mode
    BY <1>9, <2>1
  <2> QED BY <2>3, <2>4 DEF KindOf, Mode
<1>16. ASSUME \A i \in DOMAIN t : ~BlankQuote(t, i) PROVE others = modes
  <2>1. \A k \in 1..Len(t) : ModeAt(h, <<1, "code", NoClose>>, k) = ModeAt(f, <<1, "code", NoClose>>, k)
    BY <1>1, <1>2, <1>3, <1>16, ScansSame
  <2>2. \A k \in 1..Len(t) : others[k] = modes[k]
    BY <1>5, <1>11, <2>1
  <2> QED BY <1>9, <1>10, <2>2
<1> QED BY <1>7, <1>8, <1>14, <1>15, <1>16, Zenon

=============================================================================
