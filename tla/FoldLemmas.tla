----------------------------- MODULE FoldLemmas -----------------------------
(***************************************************************************)
(* Induction on the numbers, as a fact about sets of them, and the         *)
(* function behind a fold over a sequence.                                 *)
(*                                                                         *)
(* The order of the library is well-founded on the numbers, so a set of    *)
(* them that is not empty has a least one (Minimum), and one that holds 0, *)
(* and with a number the next, holds them all (Induction).  FoldLeft is a  *)
(* recursive function on sets of places, which exists (FoldExists); what   *)
(* is made along a sequence is then a matter of Induction.                 *)
(***************************************************************************)
EXTENDS Integers, SequencesExt, SequenceTheorems, WellFoundedInduction, TLAPS

\* The library's least element, for an order on the numbers.
LEMMA MinimumOfOrder ==
    ASSUME NEW R, IsWellFoundedOn(R, Nat), NEW T, T \subseteq Nat, T # {}
    PROVE  \E x \in T : \A y \in T : <<y, x>> \notin R
  BY WFMin, Zenon

\* A set of numbers that is not empty has a least one.
LEMMA Minimum ==
    ASSUME NEW T, T \subseteq Nat, T # {} PROVE \E x \in T : \A y \in T : x <= y
  <1>1. \E R : IsWellFoundedOn(R, Nat) /\ \A x, y \in Nat : <<x, y>> \in R <=> x < y
    <2> DEFINE R == OpToRel(<, Nat)
    <2>1. IsWellFoundedOn(R, Nat)
      BY NatLessThanWellFounded
    <2>2. \A x, y \in Nat : <<x, y>> \in R <=> x < y
      BY DEF OpToRel
    <2> HIDE DEF R
    <2> QED
      BY <2>1, <2>2
  <1>2. PICK R : IsWellFoundedOn(R, Nat) /\ \A x, y \in Nat : <<x, y>> \in R <=> x < y
    BY <1>1
  <1>3. PICK x \in T : \A y \in T : <<y, x>> \notin R
    BY <1>2, MinimumOfOrder, Zenon
  <1>4. \A y \in T : ~ (y < x)
    BY <1>2, <1>3
  <1> QED
    BY <1>4

\* Induction, for a set of numbers.
LEMMA Induction ==
    ASSUME NEW S, 0 \in S, \A n \in Nat : n \in S => n + 1 \in S PROVE Nat \subseteq S
  <1> SUFFICES ASSUME Nat \ S # {} PROVE FALSE
    OBVIOUS
  <1>1. PICK n \in Nat \ S : \A k \in Nat \ S : n <= k
    BY Minimum
  <1>2. n # 0 /\ n - 1 \in Nat /\ n - 1 \in S
    BY <1>1
  <1> QED
    BY <1>1, <1>2

\* The first and the last of some places.
LEMMA MinOf ==
    ASSUME NEW S, S \subseteq Nat, S # {} PROVE Min(S) \in S /\ \A y \in S : Min(S) <= y
  BY Minimum, Zenon DEF Min

LEMMA MaxOf ==
    ASSUME NEW n \in Nat, NEW S, S \subseteq 1 .. n, S # {}
    PROVE  Max(S) \in S /\ \A y \in S : y <= Max(S)
  <1> DEFINE T == {n - y : y \in S}
  <1>0. \A y \in S : y \in Nat /\ n - y \in Nat
    OBVIOUS
  <1>1. T \subseteq Nat /\ T # {}
    BY <1>0
  <1>2. PICK x \in T : \A y \in T : x <= y
    <2> HIDE DEF T
    <2> QED
      BY <1>1, Minimum
  <1>3. n - x \in S /\ \A y \in S : n - x >= y
    BY <1>0, <1>2
  <1>4. \E m \in S : \A y \in S : m >= y
    BY <1>3
  <1>5. Max(S) \in S /\ \A y \in S : Max(S) >= y
    BY <1>4, Zenon DEF Max
  <1> QED
    BY <1>5

\* The largest place of a sequence is its length.
LEMMA MaxTop ==
    ASSUME NEW k \in Nat, NEW s \in SUBSET (1 .. k + 1), k + 1 \in s PROVE Max(s) = k + 1
  <1>1. k + 1 \in Nat
    OBVIOUS
  <1>2. Max(s) \in s /\ k + 1 <= Max(s)
    BY <1>1, MaxOf
  <1>3. Max(s) \in 1 .. k + 1
    BY <1>2, Zenon
  <1> QED
    BY <1>2, <1>3

\* FoldLeft goes from the last place of a set to the places before it; such a function
\* exists, whatever is made at a place.
Folds(f, b, g, n) ==
    f = [s \in SUBSET (1 .. n) |-> IF s = {} THEN b ELSE g[Max(s)][f[s \ {Max(s)}]]]

\* A fold over a sequence is the last value of a function on its places.
LEMMA FoldExists ==
    ASSUME NEW V, NEW b \in V, NEW n \in Nat, NEW g \in [1 .. n -> [V -> V]]
    PROVE  \E f \in [SUBSET (1 .. n) -> V] : Folds(f, b, g, n)
  <1> DEFINE S == {k \in Nat : k <= n => \E f \in [SUBSET (1 .. k) -> V] : Folds(f, b, g, k)}
  <1>1. 0 \in S
    <2> DEFINE f == [s \in SUBSET (1 .. 0) |-> b]
    <2>1. 1 .. 0 = {} /\ \A s \in SUBSET (1 .. 0) : s = {}
      OBVIOUS
    <2>2. Folds(f, b, g, 0) /\ f \in [SUBSET (1 .. 0) -> V]
      BY <2>1 DEF Folds
    <2> QED
      BY <2>2
  <1>2. ASSUME NEW k \in Nat, k \in S PROVE k + 1 \in S
    <2>0. k + 1 \in Nat /\ (k + 1 <= n => k <= n)
      OBVIOUS
    <2> SUFFICES ASSUME k + 1 <= n PROVE \E f \in [SUBSET (1 .. k + 1) -> V] : Folds(f, b, g, k + 1)
      BY <2>0, Zenon
    <2> PICK e \in [SUBSET (1 .. k) -> V] : Folds(e, b, g, k)
      BY <1>2, <2>0, Zenon
    <2> DEFINE f == [s \in SUBSET (1 .. k + 1) |->
                        IF k + 1 \in s THEN g[k + 1][e[s \ {k + 1}]] ELSE e[s]]
    <2>1. ASSUME NEW s \in SUBSET (1 .. k + 1), k + 1 \in s
          PROVE  Max(s) = k + 1 /\ s \ {k + 1} \in SUBSET (1 .. k)
      <3>2. Max(s) = k + 1
        BY <2>1, MaxTop
      <3>3. \A x \in s : x # k + 1 => x \in 1 .. k
        OBVIOUS
      <3> QED
        BY <3>2, <3>3
    <2>2. ASSUME NEW s \in SUBSET (1 .. k + 1), k + 1 \notin s PROVE s \in SUBSET (1 .. k)
      BY <2>2
    <2>3. ASSUME NEW s \in SUBSET (1 .. k), s # {}
          PROVE  s \ {Max(s)} \in SUBSET (1 .. k) /\ Max(s) \in 1 .. k
      BY <2>3, MaxOf
    <2>4. f \in [SUBSET (1 .. k + 1) -> V]
      BY <2>1, <2>2
    <2>5. ASSUME NEW s \in SUBSET (1 .. k + 1)
          PROVE  f[s] = IF s = {} THEN b ELSE g[Max(s)][f[s \ {Max(s)}]]
      <3>1. CASE k + 1 \in s
        <4>1. k + 1 \notin s \ {k + 1} /\ s \ {k + 1} \in SUBSET (1 .. k + 1)
          OBVIOUS
        <4> QED
          BY <2>1, <3>1, <4>1
      <3>2. CASE k + 1 \notin s
        <4>1. e[s] = IF s = {} THEN b ELSE g[Max(s)][e[s \ {Max(s)}]]
          BY <2>2, <3>2 DEF Folds
        <4>2. CASE s = {}
          BY <3>2, <4>1, <4>2
        <4>3. CASE s # {}
          <5>1. f[s \ {Max(s)}] = e[s \ {Max(s)}]
            BY <3>2, <4>3
          <5> QED
            BY <3>2, <4>1, <4>3, <5>1
        <4> QED
          BY <4>2, <4>3
      <3> QED
        BY <3>1, <3>2
    <2>6. Folds(f, b, g, k + 1)
      BY <2>4, <2>5 DEF Folds
    <2> QED
      BY <2>4, <2>6
  <1>3. Nat \subseteq S
    <2> HIDE DEF S
    <2> QED
      BY <1>1, <1>2, Induction
  <1>4. n \in S /\ n <= n
    <2> HIDE DEF S
    <2> QED
      BY <1>3
  <1> QED
    BY <1>4, Zenon

-----------------------------------------------------------------------------
\* Sequences, and other recursive functions

\* Induction over sequences, for a set of them.
LEMMA SeqInduction ==
    ASSUME NEW X, NEW S, <<>> \in S,
           \A seq \in Seq(X) \cap S : \A x \in X : Append(seq, x) \in S
    PROVE  Seq(X) \subseteq S
<1> DEFINE N == {n \in Nat : \A seq \in Seq(X) : Len(seq) = n => seq \in S}
<1>1. 0 \in N
  BY EmptySeq
<1>2. ASSUME NEW n \in Nat, n \in N PROVE n + 1 \in N
  <2>1. ASSUME NEW seq \in Seq(X), Len(seq) = n + 1 PROVE seq \in S
    <3>1. seq # <<>>
      BY <2>1
    <3>2. PICK s \in Seq(X), x \in X : seq = Append(s, x)
      BY <3>1, SequenceEmptyOrAppend
    <3>3. Len(s) = n
      BY <2>1, <3>2
    <3> QED BY <1>2, <3>2, <3>3
  <2> QED BY <2>1
<1>3. Nat \subseteq N
  <2> HIDE DEF N
  <2> QED BY <1>1, <1>2, Induction
<1> QED BY <1>3

\* What is made in n steps, each from what was there before it.
MadeInSteps(h, b, g, n) == h = [i \in 0..n |-> IF i = 0 THEN b ELSE g[i][h[i - 1]]]

LEMMA StepsExist ==
    ASSUME NEW V, NEW b \in V, NEW n \in Nat, NEW g \in [1..n -> [V -> V]]
    PROVE  \E h \in [0..n -> V] : MadeInSteps(h, b, g, n)
<1> DEFINE S == {k \in Nat : k <= n =>
                   \E h \in [0..k -> V] : MadeInSteps(h, b, g, k)}
<1>1. 0 \in S
  <2> DEFINE h == [i \in 0..0 |-> b]
  <2>1. h \in [0..0 -> V] /\ MadeInSteps(h, b, g, 0)
    BY DEF MadeInSteps
  <2> QED BY <2>1
<1>2. ASSUME NEW k \in Nat, k \in S PROVE k + 1 \in S
  <2> SUFFICES ASSUME k + 1 <= n
               PROVE  \E h \in [0..(k + 1) -> V] : MadeInSteps(h, b, g, k + 1)
    OBVIOUS
  <2>1. PICK e \in [0..k -> V] : MadeInSteps(e, b, g, k)
    BY <1>2
  <2> DEFINE h == [i \in 0..(k + 1) |-> IF i = k + 1 THEN g[k + 1][e[k]] ELSE e[i]]
  <2>2. g[k + 1][e[k]] \in V
    OBVIOUS
  <2>3. h \in [0..(k + 1) -> V]
    BY <2>2
  <2>4. ASSUME NEW i \in 0..(k + 1) PROVE h[i] = IF i = 0 THEN b ELSE g[i][h[i - 1]]
    <3>1. CASE i = k + 1
      BY <3>1
    <3>2. CASE i \in 0..k
      <4>1. h[i] = e[i] /\ (i # 0 => h[i - 1] = e[i - 1])
        BY <3>2
      <4>2. e[i] = IF i = 0 THEN b ELSE g[i][e[i - 1]]
        BY <2>1, <3>2 DEF MadeInSteps
      <4> QED BY <4>1, <4>2
    <3> QED BY <3>1, <3>2
  <2>5. MadeInSteps(h, b, g, k + 1)
    BY <2>4 DEF MadeInSteps
  <2> QED BY <2>3, <2>5
<1>3. n \in S
  <2> HIDE DEF S
  <2> QED BY <1>1, <1>2, Induction
<1> QED BY <1>3

StepsOver(V, n, g) == n \in Nat /\ g \in [1..n -> [V -> V]]

LEMMA StepsAre ==
    ASSUME NEW V, NEW b, NEW n, NEW g, NEW h, b \in V, StepsOver(V, n, g), MadeInSteps(h, b, g, n)
    PROVE  /\ h[0] = b /\ \A i \in 0..n : h[i] \in V
           /\ \A i \in 0..n : i + 1 \in 1..n => h[i + 1] = g[i + 1][h[i]]
<1>0. n \in Nat /\ g \in [1..n -> [V -> V]]
  BY DEF StepsOver
<1>1. h = [i \in 0..n |-> h[i]] /\ \A i \in 0..n : h[i] = IF i = 0 THEN b ELSE g[i][h[i - 1]]
  BY DEF MadeInSteps
<1>2. h[0] = b
  <2>1. 0 \in 0..n
    BY <1>0
  <2> QED BY <1>1, <2>1
<1>3. ASSUME NEW i \in 0..n, i + 1 \in 1..n PROVE h[i + 1] = g[i + 1][h[i]]
  <2>1. i + 1 \in 0..n /\ i + 1 # 0 /\ (i + 1) - 1 = i
    BY <1>0, <1>3
  <2> QED BY <1>1, <2>1
<1> DEFINE S == {i \in Nat : i <= n => h[i] \in V}
<1>4. 0 \in S
  BY <1>2
<1>5. ASSUME NEW i \in Nat, i \in S PROVE i + 1 \in S
  <2> SUFFICES ASSUME i + 1 <= n PROVE h[i + 1] \in V
    OBVIOUS
  <2>1. i \in 0..n /\ i + 1 \in 1..n /\ h[i] \in V
    BY <1>0, <1>5
  <2>2. h[i + 1] = g[i + 1][h[i]]
    BY <1>3, <2>1
  <2>3. g[i + 1] \in [V -> V]
    BY <1>0, <2>1
  <2> QED BY <2>1, <2>2, <2>3
<1>6. Nat \subseteq S
  <2> HIDE DEF S
  <2> QED BY <1>4, <1>5, Induction
<1>7. \A i \in 0..n : h[i] \in V
  BY <1>0, <1>6
<1> QED BY <1>2, <1>3, <1>7

\* What is reached depends on the steps up to it.
LEMMA StepsSame ==
    ASSUME NEW V, NEW b, NEW n, NEW m, NEW g, NEW e, NEW h, NEW k, b \in V,
           StepsOver(V, n, g), MadeInSteps(h, b, g, n), StepsOver(V, m, e), MadeInSteps(k, b, e, m),
           n <= m, \A i \in 1..n : g[i] = e[i]
    PROVE  h[n] = k[n]
<1>0. n \in Nat /\ m \in Nat
  BY DEF StepsOver
<1>1. h[0] = b /\ \A i \in 0..n : i + 1 \in 1..n => h[i + 1] = g[i + 1][h[i]]
  BY StepsAre
<1>2. k[0] = b /\ \A i \in 0..m : i + 1 \in 1..m => k[i + 1] = e[i + 1][k[i]]
  BY StepsAre
<1> DEFINE S == {i \in Nat : i <= n => h[i] = k[i]}
<1>3. 0 \in S
  BY <1>1, <1>2
<1>4. ASSUME NEW i \in Nat, i \in S PROVE i + 1 \in S
  <2> SUFFICES ASSUME i + 1 <= n PROVE h[i + 1] = k[i + 1]
    OBVIOUS
  <2>1. i \in 0..n /\ i + 1 \in 1..n /\ i \in 0..m /\ i + 1 \in 1..m /\ h[i] = k[i]
    BY <1>0, <1>4
  <2> QED BY <1>1, <1>2, <2>1
<1>5. Nat \subseteq S
  <2> HIDE DEF S
  <2> QED BY <1>3, <1>4, Induction
<1> QED BY <1>0, <1>5

\* A function whose value at each point is made of its values at lower points.
Descends(D, V, m, height, g) ==
    /\ m \in Nat /\ height \in [D -> 0..m] /\ g \in [D -> [[D -> V] -> V]]
    /\ \A d \in D : \A f1, f2 \in [D -> V] :
           (\A e \in D : height[e] < height[d] => f1[e] = f2[e]) => g[d][f1] = g[d][f2]

LEMMA RecursionExists ==
    ASSUME NEW D, NEW V, NEW v, NEW m, NEW height, NEW g, v \in V, Descends(D, V, m, height, g)
    PROVE  \E f \in [D -> V] : f = [d \in D |-> g[d][f]]
<1>0. /\ m \in Nat /\ height \in [D -> 0..m] /\ g \in [D -> [[D -> V] -> V]]
      /\ \A d \in D : \A f1, f2 \in [D -> V] :
             (\A e \in D : height[e] < height[d] => f1[e] = f2[e]) => g[d][f1] = g[d][f2]
  BY Zenon DEF Descends
<1> DEFINE S == {n \in Nat : \E f \in [D -> V] : \A d \in D : height[d] < n => f[d] = g[d][f]}
<1>1. 0 \in S
  <2>1. [d \in D |-> v] \in [D -> V] /\ \A d \in D : ~ (height[d] < 0)
    BY <1>0
  <2> QED BY <2>1
<1>2. ASSUME NEW n \in Nat, n \in S PROVE n + 1 \in S
  <2>1. PICK f \in [D -> V] : \A d \in D : height[d] < n => f[d] = g[d][f]
    BY <1>2
  <2> DEFINE e == [d \in D |-> IF height[d] < n THEN f[d] ELSE g[d][f]]
  <2>2. e \in [D -> V]
    BY <1>0
  <2>3. ASSUME NEW d \in D, height[d] < n + 1 PROVE e[d] = g[d][e]
    <3>1. \A x \in D : height[x] < height[d] => f[x] = e[x]
      BY <1>0, <2>3
    <3>2. g[d][e] = g[d][f]
      <4> HIDE DEF e
      <4> QED BY <1>0, <2>2, <3>1
    <3> QED BY <2>1, <3>2
  <2> HIDE DEF e
  <2> QED BY <2>2, <2>3
<1>3. m + 1 \in S
  <2> HIDE DEF S
  <2> QED BY <1>0, <1>1, <1>2, Induction
<1>4. PICK f \in [D -> V] : \A d \in D : height[d] < m + 1 => f[d] = g[d][f]
  BY <1>3
<1>5. \A d \in D : f[d] = g[d][f]
  BY <1>0, <1>4
<1> QED BY <1>5

\* The function behind FlattenSeq.
Flattens(h, ss) == h = [i \in 1..Len(ss) |-> IF i = 1 THEN ss[i] ELSE h[i - 1] \o ss[i]]

LEMMA FlattenIs ==
    ASSUME NEW X, NEW ss \in Seq(Seq(X)), ss # <<>>
    PROVE  \E h \in [1..Len(ss) -> Seq(X)] : Flattens(h, ss) /\ FlattenSeq(ss) = h[Len(ss)]
<1> DEFINE n == Len(ss)
<1>1. n \in Nat \ {0} /\ \A i \in 1..n : ss[i] \in Seq(X)
  OBVIOUS
<1>2. \E h \in [1..n -> Seq(X)] : Flattens(h, ss)
  <2> DEFINE g == [i \in 1..n |-> [v \in Seq(X) |-> v \o ss[i]]]
  <2>1. g \in [1..n -> [Seq(X) -> Seq(X)]]
    BY <1>1
  <2>2. \E e \in [0..n -> Seq(X)] : MadeInSteps(e, <<>>, g, n)
    <3>1. <<>> \in Seq(X) /\ n \in Nat
      BY <1>1
    <3> HIDE DEF g, n
    <3> QED BY <2>1, <3>1, StepsExist
  <2>3. PICK e \in [0..n -> Seq(X)] : MadeInSteps(e, <<>>, g, n)
    BY <2>2, Zenon
  <2> DEFINE h == [i \in 1..n |-> e[i]]
  <2>4. ASSUME NEW i \in 1..n PROVE e[i] = e[i - 1] \o ss[i]
    <3>1. i \in 0..n /\ i - 1 \in 0..n /\ i # 0
      BY <1>1
    <3>2. e[i - 1] \in Seq(X)
      BY <3>1
    <3>3. e[i] = (IF i = 0 THEN <<>> ELSE g[i][e[i - 1]])
      BY <2>3, <3>1, Zenon DEF MadeInSteps
    <3> QED BY <3>1, <3>2, <3>3
  <2>5. e[0] = <<>>
    <3>1. 0 \in 0..n
      BY <1>1
    <3> HIDE DEF g
    <3> QED BY <2>3, <3>1 DEF MadeInSteps
  <2>6. ASSUME NEW i \in 1..n PROVE h[i] = IF i = 1 THEN ss[i] ELSE h[i - 1] \o ss[i]
    <3>1. CASE i = 1
      <4>1. e[1] = e[0] \o ss[1]
        <5> HIDE DEF g
        <5>1. 1 \in 1..n /\ 1 - 1 = 0
          BY <3>1
        <5> QED BY <2>4, <5>1
      <4>2. ss[1] \in Seq(X)
        BY <1>1, <3>1
      <4> QED BY <2>5, <3>1, <4>1, <4>2, ConcatEmptySeq
    <3>2. CASE i # 1
      <4>1. i - 1 \in 1..n
        BY <1>1, <3>2
      <4> HIDE DEF g
      <4> QED BY <2>4, <3>2, <4>1
    <3> QED BY <3>1, <3>2
  <2>7. h \in [1..n -> Seq(X)]
    <3>1. \A i \in 1..n : i \in 0..n
      BY <1>1
    <3> QED BY <2>3, <3>1
  <2> HIDE DEF g
  <2>8. h = [i \in 1..n |-> IF i = 1 THEN ss[i] ELSE h[i - 1] \o ss[i]]
    <3> DEFINE k == [i \in 1..n |-> IF i = 1 THEN ss[i] ELSE h[i - 1] \o ss[i]]
    <3>1. DOMAIN h = 1..n /\ DOMAIN k = 1..n /\ \A i \in 1..n : h[i] = k[i]
      <4> HIDE DEF h
      <4>1. \A i \in 1..n : h[i] = k[i]
        BY <2>6
      <4> QED BY <2>7, <4>1
    <3>2. h = [i \in DOMAIN h |-> h[i]] /\ k = [i \in DOMAIN k |-> k[i]]
      <4> HIDE DEF h
      <4> QED BY <2>7
    <3> HIDE DEF h, k
    <3>3. h = k
      BY <3>1, <3>2
    <3> QED BY <3>3 DEF k
  <2> HIDE DEF h
  <2> QED BY <2>7, <2>8 DEF Flattens
<1> DEFINE h == CHOOSE h : Flattens(h, ss)
<1>3. Flattens(h, ss)
  BY <1>2, Zenon
<1>4. FlattenSeq(ss) = h[Len(ss)]
  <2>1. FlattenSeq(ss) = IF Len(ss) = 0 THEN ss ELSE h[Len(ss)]
    BY Zenon DEF FlattenSeq, Flattens
  <2> QED BY <1>1, <2>1
<1>5. PICK e \in [1..n -> Seq(X)] : Flattens(e, ss)
  BY <1>2
<1> HIDE DEF h
<1>6. h = e
  <2> DEFINE S == {i \in Nat : i \in 1..n => h[i] = e[i]}
  <2>1. /\ h = [i \in 1..n |-> IF i = 1 THEN ss[i] ELSE h[i - 1] \o ss[i]]
        /\ e = [i \in 1..n |-> IF i = 1 THEN ss[i] ELSE e[i - 1] \o ss[i]]
    BY <1>3, <1>5 DEF Flattens
  <2>2. /\ \A i \in 1..n : h[i] = IF i = 1 THEN ss[i] ELSE h[i - 1] \o ss[i]
        /\ \A i \in 1..n : e[i] = IF i = 1 THEN ss[i] ELSE e[i - 1] \o ss[i]
    BY <2>1, Zenon
  <2>3. ASSUME NEW i \in Nat, i \in S PROVE i + 1 \in S
    <3> SUFFICES ASSUME i + 1 \in 1..n PROVE h[i + 1] = e[i + 1]
      OBVIOUS
    <3>1. CASE i = 0
      <4>1. i + 1 = 1 /\ 1 \in 1..n
        BY <3>1
      <4>2. h[1] = ss[1] /\ e[1] = ss[1]
        BY <2>2, <4>1
      <4> QED BY <4>1, <4>2
    <3>2. CASE i # 0
      <4>1. i \in 1..n /\ (i + 1) - 1 = i /\ i + 1 # 1
        BY <1>1, <3>2
      <4>2. h[i] = e[i]
        BY <2>3, <4>1
      <4>3. h[i + 1] = h[i] \o ss[i + 1] /\ e[i + 1] = e[i] \o ss[i + 1]
        BY <2>2, <4>1
      <4> QED BY <4>2, <4>3
    <3> QED BY <3>1, <3>2
  <2>4. Nat \subseteq S
    <3>1. 0 \in S
      OBVIOUS
    <3> HIDE DEF S
    <3> QED BY <2>3, <3>1, Induction
  <2>5. \A i \in 1..n : h[i] = e[i]
    BY <1>1, <2>4
  <2>6. h = [i \in 1..n |-> h[i]] /\ e = [i \in 1..n |-> e[i]]
    BY <2>1
  <2> QED BY <2>5, <2>6
<1> QED BY <1>3, <1>4, <1>5, <1>6

\* Flattening adds one sequence after the other.
LEMMA FlattenEmpty == FlattenSeq(<<>>) = <<>>
BY DEF FlattenSeq

LEMMA FlattenType ==
    ASSUME NEW X, NEW ss \in Seq(Seq(X)) PROVE FlattenSeq(ss) \in Seq(X)
<1>1. CASE ss = <<>>
  BY <1>1, FlattenEmpty, EmptySeq
<1>2. CASE ss # <<>>
  <2>1. PICK h \in [1..Len(ss) -> Seq(X)] : FlattenSeq(ss) = h[Len(ss)]
    BY <1>2, FlattenIs
  <2>2. Len(ss) \in 1..Len(ss)
    BY <1>2
  <2> QED BY <2>1, <2>2
<1> QED BY <1>1, <1>2

LEMMA FlattenAppend ==
    ASSUME NEW X, NEW ss \in Seq(Seq(X)), NEW s \in Seq(X)
    PROVE  FlattenSeq(Append(ss, s)) = FlattenSeq(ss) \o s
<1> DEFINE n == Len(ss)
           tt == Append(ss, s)
<1>1. /\ n \in Nat /\ tt \in Seq(Seq(X)) /\ tt # <<>> /\ Len(tt) = n + 1
      /\ tt[n + 1] = s /\ \A i \in 1..n : tt[i] = ss[i]
  BY AppendProperties
<1> HIDE DEF tt
<1>2. PICK h \in [1..Len(tt) -> Seq(X)] : Flattens(h, tt) /\ FlattenSeq(tt) = h[Len(tt)]
  BY <1>1, FlattenIs
<1>3. \A i \in 1..(n + 1) : h[i] = IF i = 1 THEN tt[i] ELSE h[i - 1] \o tt[i]
  BY <1>1, <1>2, Zenon DEF Flattens
<1>4. CASE n = 0
  <2>1. ss = <<>>
    BY <1>4, EmptySeq
  <2>2. FlattenSeq(tt) = s
    <3>1. 1 \in 1..(n + 1) /\ n + 1 = 1
      BY <1>4
    <3> QED BY <1>1, <1>2, <1>3, <3>1
  <2> QED BY <2>1, <2>2, FlattenEmpty, ConcatEmptySeq DEF tt
<1>5. CASE n # 0
  <2>1. ss # <<>>
    BY <1>5
  <2>2. PICK e \in [1..n -> Seq(X)] : Flattens(e, ss) /\ FlattenSeq(ss) = e[n]
    BY <2>1, FlattenIs
  <2>3. \A i \in 1..n : e[i] = IF i = 1 THEN ss[i] ELSE e[i - 1] \o ss[i]
    BY <2>2, Zenon DEF Flattens
  <2> DEFINE S == {i \in Nat : i \in 1..n => h[i] = e[i]}
  <2>4. 0 \in S
    OBVIOUS
  <2>5. ASSUME NEW i \in Nat, i \in S PROVE i + 1 \in S
    <3> SUFFICES ASSUME i + 1 \in 1..n PROVE h[i + 1] = e[i + 1]
      OBVIOUS
    <3>0. i + 1 \in 1..(n + 1) /\ (i + 1) - 1 = i
      BY <1>1
    <3>1. tt[i + 1] = ss[i + 1]
      BY <1>1
    <3>2. CASE i = 0
      <4>1. i + 1 = 1 /\ 1 \in 1..n /\ 1 \in 1..(n + 1)
        BY <3>2, <3>0
      <4>2. h[1] = tt[1] /\ e[1] = ss[1]
        BY <1>3, <2>3, <4>1
      <4> QED BY <3>1, <4>1, <4>2
    <3>3. CASE i # 0
      <4>1. h[i] = e[i] /\ i + 1 # 1
        BY <1>1, <2>5, <3>3
      <4>2. h[i + 1] = h[i] \o tt[i + 1]
        BY <1>3, <3>0, <4>1
      <4>3. e[i + 1] = e[i] \o ss[i + 1]
        BY <2>3, <3>0, <4>1
      <4> QED BY <3>1, <4>1, <4>2, <4>3
    <3> QED BY <3>2, <3>3
  <2>6. n \in S
    <3> HIDE DEF S, n
    <3> QED BY <1>1, <2>4, <2>5, Induction
  <2>7. h[n] = e[n]
    BY <1>1, <1>5, <2>6
  <2>8. h[n + 1] = h[n] \o s
    <3>1. n + 1 \in 1..(n + 1) /\ n + 1 # 1 /\ (n + 1) - 1 = n
      BY <1>1, <1>5
    <3>2. h[n + 1] = h[(n + 1) - 1] \o tt[n + 1]
      BY <1>3, <3>1
    <3> QED BY <1>1, <3>1, <3>2
  <2> QED BY <1>1, <1>2, <2>2, <2>7, <2>8 DEF tt
<1> QED BY <1>4, <1>5
=============================================================================
