---------------------------- MODULE DataInduction ----------------------------
(***************************************************************************)
(* Induction over data, stated for sets and functions.                     *)
(*                                                                         *)
(* The induction theorems of the libraries take the property to be shown   *)
(* as an operator.  Here it is a set: the numbers for which it holds, the  *)
(* subsets on which two functions agree.  From well-foundedness follow     *)
(* induction, the extremes of a finite set of numbers and the existence of *)
(* recursive functions; from these what Select and FlattenSeq return, for  *)
(* every sequence.                                                         *)
(***************************************************************************)
EXTENDS Selection, SequencesExt, FiniteSetTheorems, TLAPS

-----------------------------------------------------------------------------
(* Numbers.                                                                *)

\* Every nonempty set of naturals has a smallest element.
LEMMA SmallestExists ==
    ASSUME NEW S \in SUBSET Nat, S # {}
    PROVE  \E x \in S : \A y \in S : x <= y
<1>1. \E x \in S : \A y \in S : ~(<<y, x>> \in OpToRel(<, Nat))
  BY NatLessThanWellFounded, WFMin
<1>2. PICK x \in S : \A y \in S : ~(<<y, x>> \in OpToRel(<, Nat))
  BY <1>1
<1>3. ASSUME NEW y \in S PROVE x <= y
  <2>1. ~(y < x)
    BY <1>2 DEF OpToRel
  <2>2. QED
    BY <2>1
<1>4. QED
  BY <1>2, <1>3

\* Induction: a set that holds 0 and every successor of its elements.
LEMMA SetInduction ==
    ASSUME NEW S, 0 \in S, \A n \in Nat : n \in S => n + 1 \in S
    PROVE  \A n \in Nat : n \in S
<1> SUFFICES ASSUME NEW m \in Nat, m \notin S PROVE FALSE
  OBVIOUS
<1>1. PICK x \in Nat \ S : \A y \in Nat \ S : x <= y
  BY SmallestExists
<1>2. x # 0 /\ x - 1 \in Nat
  BY <1>1
<1>3. x - 1 \in S
  BY <1>1, <1>2
<1>4. QED
  BY <1>1, <1>2, <1>3

\* The same up to a bound.
LEMMA BoundedInduction ==
    ASSUME NEW k \in Nat, NEW S, 0 \in S,
           \A n \in 0 .. k - 1 : n \in S => n + 1 \in S
    PROVE  \A n \in 0 .. k : n \in S
<1> DEFINE T == {n \in Nat : n <= k => n \in S}
<1>1. 0 \in T
  OBVIOUS
<1>2. \A n \in Nat : n \in T => n + 1 \in T
  OBVIOUS
<1>3. \A n \in Nat : n \in T
  <2> HIDE DEF T
  <2>1. QED
    BY <1>1, <1>2, SetInduction
<1>4. QED
  BY <1>3

\* Every nonempty set of naturals with a bound has a largest element, and Max
\* is it.
LEMMA MaxIsLargest ==
    ASSUME NEW n \in Nat, NEW S \in SUBSET (0 .. n), S # {}
    PROVE  Max(S) \in S /\ \A y \in S : y <= Max(S)
<1> DEFINE T == {n - y : y \in S}
<1>1. T \in SUBSET Nat /\ T # {}
  <2>1. \A y \in S : n - y \in Nat
    OBVIOUS
  <2>2. QED
    BY <2>1
<1>2. PICK d \in T : \A e \in T : d <= e
  BY <1>1, SmallestExists
<1>3. PICK x \in S : d = n - x
  BY <1>2
<1>4. ASSUME NEW y \in S PROVE x >= y
  <2>1. n - x <= n - y
    BY <1>2, <1>3
  <2>2. QED
    BY <2>1
<1>5. \E z \in S : \A y \in S : z >= y
  BY <1>4
<1>6. QED
  BY <1>5 DEF Max

\* A finite nonempty set of naturals has a largest element too.
LEMMA MaxOfFinite ==
    ASSUME NEW S \in SUBSET Nat, IsFiniteSet(S), S # {}
    PROVE  Max(S) \in S /\ \A y \in S : y <= Max(S)
<1> DEFINE above(x) == {y \in S : x < y}
           T == {above(x) : x \in S}
           R == StrictSubsetOrdering(S)
<1>1. T # {} /\ \A u \in T : u \in SUBSET S
  OBVIOUS
<1>2. T \subseteq FiniteSubsetsOf(S)
  BY <1>1, FS_FiniteSubsetsOfFinite
<1>3. PICK u \in T : \A v \in T : ~(<<v, u>> \in R)
  <2>1. IsWellFoundedOn(R, FiniteSubsetsOf(S))
    BY FS_StrictSubsetOrderingWellFounded
  <2> HIDE DEF T, R
  <2>2. QED
    BY <1>1, <1>2, <2>1, WFMin, Zenon
<1>4. PICK x \in S : u = above(x)
  OBVIOUS
<1>5. ASSUME NEW y \in S, ~(x >= y) PROVE FALSE
  <2>1. above(y) \in T /\ above(y) \subseteq u /\ y \in u /\ y \notin above(y)
    <3>1. x < y
      BY <1>5
    <3>2. \A z \in S : y < z => x < z
      BY <3>1
    <3>3. above(y) \subseteq above(x)
      BY <3>2
    <3>4. y \in above(x)
      BY <3>1
    <3>5. y \notin above(y)
      OBVIOUS
    <3> HIDE DEF above
    <3>6. QED
      BY <1>4, <3>3, <3>4, <3>5
  <2>2. <<above(y), u>> \in R
    BY <1>1, <2>1 DEF StrictSubsetOrdering
  <2>3. QED
    BY <1>3, <2>1, <2>2
<1>6. \E z \in S : \A y \in S : z >= y
  BY <1>5
<1>7. QED
  BY <1>6 DEF Max

-----------------------------------------------------------------------------
(* Recursive functions.                                                    *)

\* h is the function with this base and this step.
Recurs(h, k, base, f) ==
    h = [n \in 0 .. k |-> IF n = 0 THEN base ELSE f[n][h[n - 1]]]

\* Primitive recursion up to a bound defines a function, of the type its step
\* keeps.  The step is a function of the index and then of the value before.
LEMMA RecursionExists ==
    ASSUME NEW k \in Nat, NEW V, NEW base \in V, NEW f \in [1 .. k -> [V -> V]]
    PROVE  \E h \in [0 .. k -> V] : Recurs(h, k, base, f)
<1> DEFINE Defines(h, m) ==
               /\ h \in [0 .. m -> V]
               /\ h[0] = base
               /\ \A n \in 1 .. m : h[n] = f[n][h[n - 1]]
           S == {m \in 0 .. k : \E h : Defines(h, m)}
<1>1. 0 \in S
  <2>1. Defines([n \in 0 .. 0 |-> base], 0)
    OBVIOUS
  <2> HIDE DEF Defines
  <2>2. QED
    BY <2>1
<1>2. ASSUME NEW m \in 0 .. k - 1, m \in S PROVE m + 1 \in S
  <2>1. PICK h : Defines(h, m)
    BY <1>2
  <2> DEFINE g == [n \in 0 .. m + 1 |-> IF n = m + 1 THEN f[m + 1][h[m]] ELSE h[n]]
  <2>2. /\ m \in Nat /\ m + 1 \in 1 .. k /\ 0 \in 0 .. m
        /\ f[m + 1] \in [V -> V] /\ h[m] \in V
    BY <2>1
  <2>3. f[m + 1][h[m]] \in V
    BY <2>2
  <2>4. g \in [0 .. m + 1 -> V]
    BY <2>1, <2>2, <2>3
  <2>5. /\ g[m + 1] = f[m + 1][h[m]]
        /\ \A n \in 0 .. m : g[n] = h[n]
    BY <2>2
  <2>6. ASSUME NEW n \in 1 .. m + 1 PROVE g[n] = f[n][g[n - 1]]
    <3> HIDE DEF g
    <3>1. CASE n = m + 1
      BY <2>2, <2>5, <3>1
    <3>2. CASE n # m + 1
      <4>1. n \in 1 .. m /\ n \in 0 .. m /\ n - 1 \in 0 .. m
        BY <2>2, <3>2
      <4>2. QED
        BY <2>1, <2>5, <4>1
    <3>3. QED
      BY <3>1, <3>2
  <2>7. Defines(g, m + 1)
    BY <2>1, <2>2, <2>4, <2>5, <2>6
  <2> HIDE DEF Defines
  <2>8. QED
    BY <2>2, <2>7
<1>3. \A m \in 0 .. k : m \in S
  <2> HIDE DEF S
  <2>1. QED
    BY <1>1, <1>2, BoundedInduction
<1>4. PICK h : Defines(h, k)
  BY <1>3
<1>5. h = [n \in 0 .. k |-> IF n = 0 THEN base ELSE f[n][h[n - 1]]]
  <2>1. \A n \in 0 .. k : h[n] = IF n = 0 THEN base ELSE f[n][h[n - 1]]
    BY <1>4
  <2>2. QED
    BY <1>4, <2>1
<1>6. QED
  BY <1>4, <1>5 DEF Recurs

\* g and h agree on the empty set, and on a set whenever they agree on it less
\* one chosen element.
AgreeStepwise(S, g, h, pick) ==
    /\ g[{}] = h[{}]
    /\ \A T \in SUBSET S : T # {} =>
          /\ pick[T] \in T
          /\ g[T \ {pick[T]}] = h[T \ {pick[T]}] => g[T] = h[T]

\* Two functions of the subsets of a finite set that agree step by step agree.
LEMMA FoldsAgree ==
    ASSUME NEW S, IsFiniteSet(S), NEW g, NEW h, NEW pick,
           AgreeStepwise(S, g, h, pick)
    PROVE  \A T \in SUBSET S : g[T] = h[T]
<1> DEFINE D == {T \in SUBSET S : g[T] # h[T]}
           R == StrictSubsetOrdering(S)
<1> SUFFICES ASSUME D # {} PROVE FALSE
  OBVIOUS
<1>1. D \subseteq FiniteSubsetsOf(S)
  BY FS_FiniteSubsetsOfFinite
<1>2. PICK T \in D : \A U \in D : ~(<<U, T>> \in R)
  <2>1. IsWellFoundedOn(R, FiniteSubsetsOf(S))
    BY FS_StrictSubsetOrderingWellFounded
  <2> HIDE DEF D, R
  <2>2. QED
    BY <1>1, <2>1, WFMin, Zenon
<1>3. T # {} /\ pick[T] \in T
  BY DEF AgreeStepwise
<1>4. <<T \ {pick[T]}, T>> \in R
  BY <1>3 DEF StrictSubsetOrdering
<1>5. g[T \ {pick[T]}] = h[T \ {pick[T]}]
  BY <1>2, <1>4
<1>6. QED
  BY <1>3, <1>5 DEF AgreeStepwise

-----------------------------------------------------------------------------
(* Select.                                                                 *)

Distinct(s) == \A m, n \in 1 .. Len(s) : s[m] = s[n] => m = n

Elements(s) == {s[n] : n \in 1 .. Len(s)}

\* What has been selected after each element.
Selecting(h, s, T) ==
    /\ h[0] = <<>>
    /\ \A n \in 1 .. Len(s) :
          h[n] = IF s[n] \in T THEN Append(h[n - 1], s[n]) ELSE h[n - 1]
    /\ Select(s, T) = h[Len(s)]

LEMMA SelectSteps ==
    ASSUME NEW E, NEW s \in Seq(E), NEW T
    PROVE  \E h \in [0 .. Len(s) -> Seq(E)] : Selecting(h, s, T)
<1> DEFINE k == Len(s)
           Body(h) == [n \in 0 .. k |->
                          IF n = 0 THEN <<>>
                          ELSE IF s[n] \in T THEN Append(h[n - 1], s[n])
                          ELSE h[n - 1]]
           f == [n \in 1 .. k |-> [v \in Seq(E) |->
                    IF s[n] \in T THEN Append(v, s[n]) ELSE v]]
           chosen == CHOOSE h : h = Body(h)
<1>1. k \in Nat /\ \A n \in 1 .. k : s[n] \in E
  OBVIOUS
<1>2. f \in [1 .. k -> [Seq(E) -> Seq(E)]]
  BY <1>1
<1>3. <<>> \in Seq(E)
  OBVIOUS
<1>4. PICK h \in [0 .. k -> Seq(E)] : Recurs(h, k, <<>>, f)
  <2> HIDE DEF f, k
  <2>1. QED
    BY <1>1, <1>2, <1>3, RecursionExists
<1>5. \A n \in 1 .. k :
          /\ h[n - 1] \in Seq(E)
          /\ h[n] = IF s[n] \in T THEN Append(h[n - 1], s[n]) ELSE h[n - 1]
  <2>1. TAKE n \in 1 .. k
  <2>2. n - 1 \in 0 .. k /\ n \in 0 .. k /\ n # 0
    BY <1>1
  <2>3. h[n - 1] \in Seq(E) /\ h[n] = f[n][h[n - 1]]
    BY <1>4, <2>2 DEF Recurs
  <2>4. QED
    BY <2>3
<1>6. h[0] = <<>>
  BY <1>1, <1>4 DEF Recurs
<1>7. h = Body(h)
  <2>1. \A n \in 0 .. k : n = 0 \/ n \in 1 .. k
    BY <1>1
  <2>2. \A n \in 0 .. k :
          h[n] = IF n = 0 THEN <<>>
                 ELSE IF s[n] \in T THEN Append(h[n - 1], s[n]) ELSE h[n - 1]
    BY <1>5, <1>6, <2>1
  <2>3. QED
    BY <1>4, <2>2 DEF Recurs
<1>8. chosen = Body(chosen)
  <2> HIDE DEF Body
  <2>1. QED
    BY <1>7
<1> HIDE DEF chosen
<1>9. \A n \in 0 .. k : chosen[n] = h[n]
  <2> DEFINE S == {n \in 0 .. k : chosen[n] = h[n]}
  <2>1. 0 \in S
    BY <1>1, <1>6, <1>8
  <2>2. ASSUME NEW n \in 0 .. k - 1, n \in S PROVE n + 1 \in S
    <3>1. n + 1 \in 0 .. k /\ n + 1 \in 1 .. k /\ n + 1 # 0 /\ (n + 1) - 1 = n
      BY <1>1
    <3>2. chosen[n + 1] = IF s[n + 1] \in T THEN Append(chosen[n], s[n + 1])
                          ELSE chosen[n]
      BY <1>8, <3>1
    <3>3. h[n + 1] = IF s[n + 1] \in T THEN Append(h[n], s[n + 1]) ELSE h[n]
      BY <1>5, <3>1
    <3>4. QED
      BY <2>2, <3>1, <3>2, <3>3
  <2>3. \A n \in 0 .. k : n \in S
    <3> HIDE DEF S, k
    <3>1. QED
      BY <1>1, <2>1, <2>2, BoundedInduction
  <2>4. QED
    BY <2>3
<1>10. Select(s, T) = chosen[k]
  BY DEF Select, chosen
<1>11. Select(s, T) = h[k]
  <2>1. k \in 0 .. k
    BY <1>1
  <2>2. QED
    BY <1>9, <1>10, <2>1
<1>12. QED
  BY <1>4, <1>5, <1>6, <1>11 DEF Selecting

\* Select(s, T) holds the elements of s that are in T and no others, as often as
\* s does, and all of s when nothing is outside T.
LEMMA SelectProperties ==
    ASSUME NEW E, NEW s \in Seq(E), NEW T
    PROVE  /\ Select(s, T) \in Seq(E)
           /\ Len(Select(s, T)) <= Len(s)
           /\ Elements(Select(s, T)) = Elements(s) \cap T
           /\ Distinct(s) => Distinct(Select(s, T))
           /\ Elements(s) \subseteq T => Select(s, T) = s
<1> DEFINE k == Len(s)
           upTo(n) == {s[m] : m \in 1 .. n}
<1>1. k \in Nat /\ \A n \in 1 .. k : s[n] \in E
  OBVIOUS
<1>a. PICK h \in [0 .. k -> Seq(E)] : Selecting(h, s, T)
  BY SelectSteps
<1>2. /\ h[0] = <<>>
      /\ \A n \in 1 .. k :
            h[n] = IF s[n] \in T THEN Append(h[n - 1], s[n]) ELSE h[n - 1]
      /\ Select(s, T) = h[k]
  BY <1>a DEF Selecting
<1> DEFINE P(n) == /\ Len(h[n]) <= n
                   /\ Elements(h[n]) = upTo(n) \cap T
                   /\ Distinct(s) => Distinct(h[n])
                   /\ upTo(n) \subseteq T => Len(h[n]) = n /\ \A m \in 1 .. n : h[n][m] = s[m]
           S == {n \in 0 .. k : P(n)}
<1>3. P(0)
  BY <1>1, <1>2 DEF Elements, Distinct
<1>4. ASSUME NEW n \in 0 .. k - 1, P(n) PROVE P(n + 1)
  <2>1. /\ n \in Nat /\ n + 1 \in 1 .. k /\ (n + 1) - 1 = n
        /\ h[n] \in Seq(E) /\ Len(h[n]) \in Nat /\ s[n + 1] \in E
    BY <1>1
  <2>2. upTo(n + 1) = upTo(n) \cup {s[n + 1]}
    <3>1. \A m \in 1 .. n + 1 : m \in 1 .. n \/ m = n + 1
      BY <2>1
    <3>2. QED
      BY <2>1, <3>1
  <2>3. CASE s[n + 1] \notin T
    <3>1. h[n + 1] = h[n]
      BY <1>2, <2>1, <2>3
    <3>2. Elements(h[n + 1]) = upTo(n + 1) \cap T
      BY <1>4, <2>2, <2>3, <3>1
    <3>3. ~(upTo(n + 1) \subseteq T)
      BY <2>2, <2>3
    <3>4. QED
      BY <1>4, <2>1, <3>1, <3>2, <3>3
  <2>4. CASE s[n + 1] \in T
    <3>1. h[n + 1] = Append(h[n], s[n + 1])
      BY <1>2, <2>1, <2>4
    <3>2. /\ Len(h[n + 1]) = Len(h[n]) + 1
          /\ \A m \in 1 .. Len(h[n]) : h[n + 1][m] = h[n][m]
          /\ h[n + 1][Len(h[n]) + 1] = s[n + 1]
      BY <2>1, <3>1
    <3>3. \A m \in 1 .. Len(h[n + 1]) : m \in 1 .. Len(h[n]) \/ m = Len(h[n]) + 1
      BY <2>1, <3>2
    <3>4. Elements(h[n + 1]) = Elements(h[n]) \cup {s[n + 1]}
      <4>1. ASSUME NEW x \in Elements(h[n + 1]) PROVE x \in Elements(h[n]) \cup {s[n + 1]}
        BY <3>2, <3>3 DEF Elements
      <4>2. ASSUME NEW x \in Elements(h[n]) PROVE x \in Elements(h[n + 1])
        <5>1. PICK m \in 1 .. Len(h[n]) : x = h[n][m]
          BY DEF Elements
        <5>2. m \in 1 .. Len(h[n + 1]) /\ h[n + 1][m] = x
          BY <2>1, <3>2, <5>1
        <5>3. QED
          BY <5>2 DEF Elements
      <4>3. s[n + 1] \in Elements(h[n + 1])
        BY <2>1, <3>2 DEF Elements
      <4>4. QED
        BY <4>1, <4>2, <4>3
    <3>5. Elements(h[n + 1]) = upTo(n + 1) \cap T
      BY <1>4, <2>2, <2>4, <3>4
    <3>6. Distinct(s) => Distinct(h[n + 1])
      <4>1. SUFFICES ASSUME Distinct(s), NEW i \in 1 .. Len(h[n + 1]),
                            NEW j \in 1 .. Len(h[n + 1]), h[n + 1][i] = h[n + 1][j]
                     PROVE  i = j
        BY DEF Distinct
      <4>2. \A m \in 1 .. Len(h[n]) : h[n][m] # s[n + 1]
        <5>1. ASSUME NEW m \in 1 .. Len(h[n]), h[n][m] = s[n + 1] PROVE FALSE
          <6>1. h[n][m] \in upTo(n)
            BY <1>4 DEF Elements
          <6>2. PICK l \in 1 .. n : s[l] = s[n + 1]
            BY <5>1, <6>1
          <6>3. l \in 1 .. k /\ l # n + 1
            BY <2>1
          <6>4. QED
            BY <2>1, <4>1, <6>2, <6>3 DEF Distinct
        <5>2. QED
          BY <5>1
      <4>3. QED
        BY <1>4, <3>2, <3>3, <4>1, <4>2 DEF Distinct
    <3>7. upTo(n + 1) \subseteq T =>
              Len(h[n + 1]) = n + 1 /\ \A m \in 1 .. n + 1 : h[n + 1][m] = s[m]
      BY <1>4, <2>1, <2>2, <3>2, <3>3
    <3>8. QED
      BY <1>4, <2>1, <3>2, <3>5, <3>6, <3>7
  <2>5. QED
    BY <2>3, <2>4
<1>5. P(k)
  <2>1. 0 \in S
    BY <1>1, <1>3
  <2>2. \A n \in 0 .. k - 1 : n \in S => n + 1 \in S
    <3> HIDE DEF P
    <3>1. QED
      BY <1>1, <1>4
  <2>3. \A n \in 0 .. k : n \in S
    <3> HIDE DEF S, k
    <3>1. QED
      BY <1>1, <2>1, <2>2, BoundedInduction
  <2>4. k \in 0 .. k
    BY <1>1
  <2> HIDE DEF P
  <2>5. QED
    BY <2>3, <2>4
<1>6. upTo(k) = Elements(s)
  BY DEF Elements
<1>7. Select(s, T) \in Seq(E)
  BY <1>1, <1>2
<1>8. upTo(k) \subseteq T => Select(s, T) = s
  BY <1>2, <1>5, <1>7
<1>9. QED
  BY <1>2, <1>5, <1>6, <1>7, <1>8

-----------------------------------------------------------------------------
(* Concatenation.                                                          *)

\* What a concatenation holds.
LEMMA ConcatElements ==
    ASSUME NEW E, NEW s \in Seq(E), NEW t \in Seq(E)
    PROVE  /\ s \o t \in Seq(E)
           /\ Len(s \o t) = Len(s) + Len(t)
           /\ Elements(s \o t) = Elements(s) \cup Elements(t)
           /\ Distinct(s) /\ Distinct(t) /\ Elements(s) \cap Elements(t) = {}
                 => Distinct(s \o t)
<1> DEFINE c == s \o t
<1>1. /\ Len(s) \in Nat /\ Len(t) \in Nat
      /\ c \in Seq(E) /\ Len(c) = Len(s) + Len(t)
      /\ \A n \in 1 .. Len(s) : c[n] = s[n]
      /\ \A n \in 1 .. Len(t) : c[Len(s) + n] = t[n]
  OBVIOUS
<1> HIDE DEF c
<1>2. \A n \in 1 .. Len(c) :
          \/ n \in 1 .. Len(s) /\ c[n] = s[n]
          \/ n - Len(s) \in 1 .. Len(t) /\ c[n] = t[n - Len(s)]
  <2>1. TAKE n \in 1 .. Len(c)
  <2>2. CASE n <= Len(s)
    BY <1>1, <2>2
  <2>3. CASE ~(n <= Len(s))
    <3>1. n - Len(s) \in 1 .. Len(t) /\ Len(s) + (n - Len(s)) = n
      BY <1>1, <2>3
    <3>2. QED
      BY <1>1, <3>1
  <2>4. QED
    BY <2>2, <2>3
<1>3. ASSUME NEW x \in Elements(c) PROVE x \in Elements(s) \cup Elements(t)
  BY <1>2 DEF Elements
<1>4. ASSUME NEW x \in Elements(s) PROVE x \in Elements(c)
  <2>1. PICK n \in 1 .. Len(s) : x = s[n]
    BY DEF Elements
  <2>2. n \in 1 .. Len(c) /\ c[n] = x
    BY <1>1, <2>1
  <2>3. QED
    BY <2>2 DEF Elements
<1>5. ASSUME NEW x \in Elements(t) PROVE x \in Elements(c)
  <2>1. PICK n \in 1 .. Len(t) : x = t[n]
    BY DEF Elements
  <2>2. Len(s) + n \in 1 .. Len(c) /\ c[Len(s) + n] = x
    BY <1>1, <2>1
  <2>3. QED
    BY <2>2 DEF Elements
<1>6. ASSUME Distinct(s), Distinct(t), Elements(s) \cap Elements(t) = {},
             NEW m \in 1 .. Len(c), NEW n \in 1 .. Len(c), c[m] = c[n]
      PROVE  m = n
  <2>1. CASE m \in 1 .. Len(s) /\ c[m] = s[m]
    <3>1. c[n] \in Elements(s)
      BY <1>6, <2>1 DEF Elements
    <3>2. ~(n - Len(s) \in 1 .. Len(t) /\ c[n] = t[n - Len(s)])
      BY <1>6, <3>1 DEF Elements
    <3>3. n \in 1 .. Len(s) /\ c[n] = s[n]
      BY <1>2, <3>2
    <3>4. QED
      BY <1>6, <2>1, <3>3 DEF Distinct
  <2>2. CASE m - Len(s) \in 1 .. Len(t) /\ c[m] = t[m - Len(s)]
    <3>1. c[n] \in Elements(t)
      BY <1>6, <2>2 DEF Elements
    <3>2. ~(n \in 1 .. Len(s) /\ c[n] = s[n])
      BY <1>6, <3>1 DEF Elements
    <3>3. n - Len(s) \in 1 .. Len(t) /\ c[n] = t[n - Len(s)]
      BY <1>2, <3>2
    <3>4. m - Len(s) = n - Len(s)
      BY <1>6, <2>2, <3>3 DEF Distinct
    <3>5. QED
      BY <1>1, <3>4
  <2>3. QED
    BY <1>2, <2>1, <2>2
<1>7. QED
  BY <1>1, <1>3, <1>4, <1>5, <1>6 DEF c, Distinct

\* What has been concatenated after each part.
Flattening(h, seqs) ==
    /\ h[0] = <<>>
    /\ \A n \in 1 .. Len(seqs) : h[n] = h[n - 1] \o seqs[n]
    /\ FlattenSeq(seqs) = h[Len(seqs)]

LEMMA FlattenSteps ==
    ASSUME NEW E, NEW seqs \in Seq(Seq(E))
    PROVE  \E h \in [0 .. Len(seqs) -> Seq(E)] : Flattening(h, seqs)
<1> DEFINE k == Len(seqs)
           f == [n \in 1 .. k |-> [v \in Seq(E) |-> v \o seqs[n]]]
           Body(g) == [n \in 1 .. k |-> IF n = 1 THEN seqs[n] ELSE g[n - 1] \o seqs[n]]
           chosen == CHOOSE g : g = Body(g)
<1>1. k \in Nat /\ \A n \in 1 .. k : seqs[n] \in Seq(E)
  OBVIOUS
<1>2. f \in [1 .. k -> [Seq(E) -> Seq(E)]]
  BY <1>1
<1>3. <<>> \in Seq(E)
  OBVIOUS
<1>4. PICK h \in [0 .. k -> Seq(E)] : Recurs(h, k, <<>>, f)
  <2> HIDE DEF f, k
  <2>1. QED
    BY <1>1, <1>2, <1>3, RecursionExists
<1>5. \A n \in 1 .. k : h[n - 1] \in Seq(E) /\ h[n] = h[n - 1] \o seqs[n]
  <2>1. TAKE n \in 1 .. k
  <2>2. n - 1 \in 0 .. k /\ n \in 0 .. k /\ n # 0
    BY <1>1
  <2>3. h[n - 1] \in Seq(E) /\ h[n] = f[n][h[n - 1]]
    BY <1>4, <2>2 DEF Recurs
  <2>4. QED
    BY <2>3
<1>6. h[0] = <<>>
  BY <1>1, <1>4 DEF Recurs
<1>7. CASE k = 0
  <2>1. seqs = <<>>
    BY <1>7
  <2>2. FlattenSeq(seqs) = <<>>
    BY <1>7, <2>1 DEF FlattenSeq
  <2>3. QED
    BY <1>4, <1>6, <1>7, <2>2 DEF Flattening
<1>8. CASE k # 0
  <2> DEFINE g == [n \in 1 .. k |-> h[n]]
  <2>1. \A n \in 1 .. k : g[n] = IF n = 1 THEN seqs[n] ELSE g[n - 1] \o seqs[n]
    <3>1. TAKE n \in 1 .. k
    <3>2. CASE n = 1
      <4>1. 1 \in 1 .. k /\ 1 - 1 = 0
        BY <3>2
      <4>2. h[1] = h[0] \o seqs[1]
        BY <1>5, <4>1
      <4>3. seqs[1] \in Seq(E) /\ h[1] = <<>> \o seqs[1]
        BY <1>1, <1>6, <4>1, <4>2
      <4>4. QED
        BY <3>2, <4>3
    <3>3. CASE n # 1
      <4>1. n - 1 \in 1 .. k
        BY <1>1, <3>3
      <4>2. QED
        BY <1>5, <3>3, <4>1
    <3>4. QED
      BY <3>2, <3>3
  <2>2. g = Body(g)
    BY <2>1
  <2>3. chosen = Body(chosen)
    <3> HIDE DEF Body, g
    <3>1. QED
      BY <2>2
  <2> HIDE DEF chosen
  <2> DEFINE S == {n \in 0 .. k : n # 0 => chosen[n] = h[n]}
  <2>4. 0 \in S
    BY <1>1
  <2>5. ASSUME NEW n \in 0 .. k - 1, n \in S PROVE n + 1 \in S
    <3>1. n + 1 \in 0 .. k /\ n + 1 \in 1 .. k /\ (n + 1) - 1 = n
      BY <1>1
    <3>2. chosen[n + 1] = IF n + 1 = 1 THEN seqs[n + 1] ELSE chosen[n] \o seqs[n + 1]
      BY <2>3, <3>1
    <3>3. g[n + 1] = h[n + 1]
      BY <3>1
    <3>4. chosen[n + 1] = h[n + 1]
      <4>1. CASE n = 0
        <5>1. n + 1 = 1
          BY <4>1
        <5>2. g[n + 1] = seqs[n + 1]
          BY <2>1, <3>1, <5>1
        <5>3. QED
          BY <3>2, <3>3, <5>1, <5>2
      <4>2. CASE n # 0
        <5>1. n + 1 # 1 /\ chosen[n] = h[n]
          BY <1>1, <2>5, <4>2
        <5>2. h[n + 1] = h[n] \o seqs[n + 1]
          BY <1>5, <3>1
        <5>3. QED
          BY <3>2, <5>1, <5>2
      <4>3. QED
        BY <4>1, <4>2
    <3>5. QED
      BY <3>1, <3>4
  <2>6. \A n \in 0 .. k : n \in S
    <3> HIDE DEF S, k
    <3>1. QED
      BY <1>1, <2>4, <2>5, BoundedInduction
  <2>7. chosen[k] = h[k]
    BY <1>1, <1>8, <2>6
  <2>8. FlattenSeq(seqs) = chosen[k]
    BY <1>8 DEF FlattenSeq, chosen
  <2>9. QED
    BY <1>4, <1>5, <1>6, <2>7, <2>8 DEF Flattening
<1>9. QED
  BY <1>7, <1>8

\* FlattenSeq holds what its parts hold, without repetition when no part repeats
\* anything and no two parts share anything.
LEMMA FlattenProperties ==
    ASSUME NEW E, NEW seqs \in Seq(Seq(E))
    PROVE  /\ FlattenSeq(seqs) \in Seq(E)
           /\ Elements(FlattenSeq(seqs)) = UNION {Elements(seqs[n]) : n \in 1 .. Len(seqs)}
           /\ /\ \A n \in 1 .. Len(seqs) : Distinct(seqs[n])
              /\ \A m, n \in 1 .. Len(seqs) :
                    m # n => Elements(seqs[m]) \cap Elements(seqs[n]) = {}
              => Distinct(FlattenSeq(seqs))
<1> DEFINE k == Len(seqs)
           upTo(n) == UNION {Elements(seqs[m]) : m \in 1 .. n}
           Apart == /\ \A n \in 1 .. k : Distinct(seqs[n])
                    /\ \A m, n \in 1 .. k :
                          m # n => Elements(seqs[m]) \cap Elements(seqs[n]) = {}
<1>1. k \in Nat /\ \A n \in 1 .. k : seqs[n] \in Seq(E)
  OBVIOUS
<1>a. PICK h \in [0 .. k -> Seq(E)] : Flattening(h, seqs)
  BY FlattenSteps
<1>2. /\ h[0] = <<>>
      /\ \A n \in 1 .. k : h[n] = h[n - 1] \o seqs[n]
      /\ FlattenSeq(seqs) = h[k]
  BY <1>a DEF Flattening
<1> DEFINE P(n) == Elements(h[n]) = upTo(n) /\ (Apart => Distinct(h[n]))
           S == {n \in 0 .. k : P(n)}
<1>3. P(0)
  BY <1>1, <1>2 DEF Elements, Distinct
<1>4. ASSUME NEW n \in 0 .. k - 1, P(n) PROVE P(n + 1)
  <2>1. /\ n \in Nat /\ n + 1 \in 1 .. k /\ (n + 1) - 1 = n /\ n \in 0 .. k
        /\ h[n] \in Seq(E) /\ seqs[n + 1] \in Seq(E)
    <3>1. n \in Nat /\ n + 1 \in 1 .. k /\ (n + 1) - 1 = n /\ n \in 0 .. k
      <4> HIDE DEF k
      <4>1. QED
        BY <1>1
    <3>2. QED
      BY <1>1, <3>1
  <2>2. h[n + 1] = h[n] \o seqs[n + 1]
    BY <1>2, <2>1
  <2>3. /\ Elements(h[n + 1]) = Elements(h[n]) \cup Elements(seqs[n + 1])
        /\ Distinct(h[n]) /\ Distinct(seqs[n + 1])
              /\ Elements(h[n]) \cap Elements(seqs[n + 1]) = {} => Distinct(h[n + 1])
    BY <2>1, <2>2, ConcatElements
  <2>4. upTo(n + 1) = upTo(n) \cup Elements(seqs[n + 1])
    <3>1. \A m \in 1 .. n + 1 : m \in 1 .. n \/ m = n + 1
      BY <2>1
    <3>2. \A m \in 1 .. n : m \in 1 .. n + 1
      BY <2>1
    <3>3. n + 1 \in 1 .. n + 1
      BY <2>1
    <3>4. QED
      BY <3>1, <3>2, <3>3
  <2>5. ASSUME Apart PROVE Elements(h[n]) \cap Elements(seqs[n + 1]) = {}
    <3>1. \A m \in 1 .. n : m \in 1 .. k /\ m # n + 1
      BY <1>1, <2>1
    <3>2. \A m \in 1 .. n : Elements(seqs[m]) \cap Elements(seqs[n + 1]) = {}
      BY <2>1, <2>5, <3>1
    <3>3. QED
      BY <1>4, <3>2
  <2>6. QED
    BY <1>4, <2>1, <2>3, <2>4, <2>5
<1>5. P(k)
  <2>1. 0 \in S
    <3> HIDE DEF P
    <3>1. QED
      BY <1>1, <1>3
  <2>2. \A n \in 0 .. k - 1 : n \in S => n + 1 \in S
    <3> HIDE DEF P
    <3>1. QED
      BY <1>1, <1>4
  <2>3. \A n \in 0 .. k : n \in S
    <3> HIDE DEF S, k
    <3>1. QED
      BY <1>1, <2>1, <2>2, BoundedInduction
  <2>4. k \in 0 .. k
    BY <1>1
  <2> HIDE DEF P
  <2>5. QED
    BY <2>3, <2>4
<1>6. FlattenSeq(seqs) \in Seq(E)
  BY <1>1, <1>2
<1>7. QED
  BY <1>2, <1>5, <1>6

-----------------------------------------------------------------------------
(* Sequences and what they hold.                                           *)

\* A sequence is its head and its tail.
LEMMA TailElements ==
    ASSUME NEW E, NEW s \in Seq(E), s # <<>>
    PROVE  /\ Head(s) \in E /\ Tail(s) \in Seq(E)
           /\ Len(Tail(s)) = Len(s) - 1
           /\ Elements(s) = {Head(s)} \cup Elements(Tail(s))
           /\ Distinct(s) => Distinct(Tail(s)) /\ Head(s) \notin Elements(Tail(s))
<1>1. /\ Len(s) \in Nat /\ Len(s) >= 1
      /\ Head(s) = s[1] /\ s[1] \in E
      /\ Tail(s) \in Seq(E) /\ Len(Tail(s)) = Len(s) - 1
      /\ \A n \in 1 .. Len(s) - 1 : Tail(s)[n] = s[n + 1]
  OBVIOUS
<1> DEFINE t == Tail(s)
<1> HIDE DEF t
<1>2. /\ Len(t) = Len(s) - 1
      /\ \A n \in 1 .. Len(t) : t[n] = s[n + 1] /\ n + 1 \in 1 .. Len(s)
  BY <1>1 DEF t
<1>3. \A n \in 1 .. Len(s) : n = 1 \/ (n - 1 \in 1 .. Len(t) /\ s[n] = t[n - 1])
  BY <1>1, <1>2
<1>4. Elements(s) = {s[1]} \cup Elements(t)
  <2>1. Elements(s) \subseteq {s[1]} \cup Elements(t)
    BY <1>3 DEF Elements
  <2>2. {s[1]} \cup Elements(t) \subseteq Elements(s)
    BY <1>1, <1>2 DEF Elements
  <2>3. QED
    BY <2>1, <2>2
<1>5. ASSUME Distinct(s) PROVE Distinct(t) /\ s[1] \notin Elements(t)
  BY <1>1, <1>2, <1>5 DEF Distinct, Elements
<1>6. QED
  BY <1>1, <1>2, <1>4, <1>5 DEF t

\* A sequence without repetition is as long as the set of its elements is large.
LEMMA DistinctCounts ==
    ASSUME NEW E, NEW s \in Seq(E), Distinct(s)
    PROVE  IsFiniteSet(Elements(s)) /\ Cardinality(Elements(s)) = Len(s)
<1>1. Len(s) \in Nat /\ s \in [1 .. Len(s) -> Elements(s)]
  BY DEF Elements
<1>2. s \in Bijection(1 .. Len(s), Elements(s))
  <2>1. s \in Injection(1 .. Len(s), Elements(s))
    BY <1>1 DEF Distinct, Injection, IsInjective
  <2>2. s \in Surjection(1 .. Len(s), Elements(s))
    BY <1>1 DEF Elements, Surjection
  <2>3. QED
    BY <2>1, <2>2 DEF Bijection
<1>3. ExistsBijection(1 .. Len(s), Elements(s))
  BY <1>2 DEF ExistsBijection
<1>4. QED
  BY <1>1, <1>3, FS_NatBijection, FS_CountingElements

\* The elements of a finite set as a sequence.
LEMMA SetToSeqProperties ==
    ASSUME NEW S, IsFiniteSet(S)
    PROVE  /\ SetToSeq(S) \in Seq(S)
           /\ Elements(SetToSeq(S)) = S
           /\ Distinct(SetToSeq(S))
<1> DEFINE k == Cardinality(S)
<1>1. k \in Nat /\ ExistsBijection(1 .. k, S)
  BY FS_CardinalityType
<1> HIDE DEF k
<1>2. PICK b : b \in Bijection(1 .. k, S)
  BY <1>1 DEF ExistsBijection
<1>3. b \in [1 .. k -> S] /\ IsInjective(b)
  BY <1>2 DEF Bijection, Injection, IsInjective
<1>4. SetToSeq(S) \in [1 .. k -> S] /\ IsInjective(SetToSeq(S))
  BY <1>3 DEF SetToSeq, k
<1> DEFINE q == SetToSeq(S)
<1> HIDE DEF q
<1>5. q \in Seq(S) /\ Len(q) = k /\ Distinct(q)
  BY <1>1, <1>4 DEF q, IsInjective, Distinct
<1>6. Elements(q) \subseteq S
  BY <1>5 DEF Elements
<1>7. Cardinality(Elements(q)) = k
  BY <1>5, DistinctCounts
<1>8. Elements(q) = S
  BY <1>6, <1>7, FS_Subset DEF k
<1>9. QED
  BY <1>5, <1>8 DEF q
=============================================================================
