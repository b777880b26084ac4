------------------------ MODULE WorkspaceReadsProofs ------------------------
(***************************************************************************)
(* Proofs about WorkspaceReads and the modules below it, for any trees,    *)
(* inputs, patterns and limits.                                            *)
(*                                                                         *)
(* Links and paths: what Follow and Normalized compute, name by name.      *)
(* The registry: ReadsInv, from which RegistryIsOneToOne follows.          *)
(* Reads: what a capped read shows, and ReadsTellAlways.                   *)
(* Walks: each exists as a function and finds the open files, by induction *)
(* on the height of a path; with AnswerInv, which says that an answer is   *)
(* what the walk answers still, WalksAlwaysAgree and ShownPathsCanBeRead.  *)
(* The index: IndexMissesNothing of bytes, IndexOnlyAccelerates of trees.  *)
(***************************************************************************)
EXTENDS WorkspaceReads, FoldLemmas, FiniteSetTheorems

-----------------------------------------------------------------------------
\* Names and paths.  A plain path is one that was normalized.

Words == STRING \ {"", ".", ".."}
Plain == Seq(Words)

LEMMA KnownWords == Known \subseteq Words
<1>0. NameOrder \in Seq(Words)
  BY NamesAssumption, Zenon DEF Words
<1>1. \A i \in DOMAIN NameOrder : NameOrder[i] \in Words
  <2> DEFINE order == NameOrder
  <2>1. order \in Seq(Words)
    BY <1>0
  <2> HIDE DEF order
  <2>2. \A i \in DOMAIN order : order[i] \in Words
    BY <2>1
  <2> QED BY <2>2 DEF order
<1> QED BY <1>1 DEF Known, ToSet

LEMMA PlainPaths == Seq(Known) \subseteq Plain /\ Plain \subseteq Paths
<1>1. Words \subseteq STRING
  BY DEF Words
<1>2. \A s \in Seq(Known) : s \in Seq(Words)
  BY KnownWords, SeqMonotonic
<1>3. \A s \in Seq(Words) : s \in Seq(STRING)
  BY <1>1, SeqMonotonic
<1> QED BY <1>2, <1>3 DEF Plain, Paths

\* Prefixes of what is appended to.
LEMMA PrefixOf ==
    ASSUME NEW X, NEW s \in Seq(X), NEW n \in 0..Len(s)
    PROVE  /\ Prefix(s, n) \in Seq(X) /\ Len(Prefix(s, n)) = n
           /\ \A i \in 1..n : Prefix(s, n)[i] = s[i]
<1>1. n \in Nat /\ \A i \in 1..n : s[i] \in X
  BY ElementOfSeq
<1>2. /\ SubSeq(s, 1, n) \in Seq(X)
      /\ Len(SubSeq(s, 1, n)) = IF 1 <= n THEN n - 1 + 1 ELSE 0
      /\ \A i \in 1..(n - 1 + 1) : SubSeq(s, 1, n)[i] = s[1 + i - 1]
  BY <1>1, SubSeqProperties
<1> QED BY <1>1, <1>2 DEF Prefix

LEMMA PrefixAppend ==
    ASSUME NEW X, NEW s \in Seq(X), NEW x \in X
    PROVE  /\ \A n \in 0..Len(s) : Prefix(Append(s, x), n) = Prefix(s, n)
           /\ Prefix(Append(s, x), Len(s) + 1) = Append(s, x)
           /\ Front(Append(s, x)) = s /\ Last(Append(s, x)) = x
<1> DEFINE t == Append(s, x)
<1>1. t \in Seq(X) /\ Len(t) = Len(s) + 1 /\ Len(s) \in Nat /\ t[Len(s) + 1] = x
      /\ \A i \in 1..Len(s) : t[i] = s[i]
  BY AppendProperties, LenProperties
<1> HIDE DEF t
<1>2. ASSUME NEW n \in 0..Len(s) PROVE Prefix(t, n) = Prefix(s, n)
  <2>1. n \in 0..Len(t)
    BY <1>1
  <2>2. /\ Prefix(t, n) \in Seq(X) /\ Len(Prefix(t, n)) = n
        /\ \A i \in 1..n : Prefix(t, n)[i] = t[i]
    BY <1>1, <2>1, PrefixOf
  <2>3. /\ Prefix(s, n) \in Seq(X) /\ Len(Prefix(s, n)) = n
        /\ \A i \in 1..n : Prefix(s, n)[i] = s[i]
    BY PrefixOf
  <2>4. \A i \in 1..n : i \in 1..Len(s)
    BY <1>1
  <2>5. \A i \in 1..n : Prefix(t, n)[i] = Prefix(s, n)[i]
    BY <1>1, <2>2, <2>3, <2>4
  <2> QED BY <2>2, <2>3, <2>5, SeqEqual
<1>3. Prefix(t, Len(s) + 1) = t
  BY <1>1, SubSeqFull DEF Prefix
<1>4. Front(t) = s
  <2>1. Front(t) = Prefix(t, Len(s))
    BY <1>1 DEF Front, Prefix
  <2>2. Prefix(s, Len(s)) = s
    BY SubSeqFull DEF Prefix
  <2>3. Len(s) \in 0..Len(s)
    BY <1>1
  <2> QED BY <1>2, <2>1, <2>2, <2>3
<1>5. Last(t) = x
  BY <1>1 DEF Last
<1> QED BY <1>2, <1>3, <1>4, <1>5 DEF t

LEMMA PrefixNext ==
    ASSUME NEW X, NEW s \in Seq(X), NEW n \in Nat, n + 1 <= Len(s)
    PROVE  Prefix(s, n + 1) = Append(Prefix(s, n), s[n + 1]) /\ Prefix(s, n) \in Seq(X)
<1> DEFINE p == Prefix(s, n)
           q == Prefix(s, n + 1)
           x == s[n + 1]
<1>1. Len(s) \in Nat /\ n \in 0..Len(s) /\ n + 1 \in 0..Len(s) /\ x \in X
  <2>1. Len(s) \in Nat
    BY LenProperties
  <2>2. n + 1 \in 1..Len(s)
    BY <2>1
  <2> QED BY <2>1, <2>2, ElementOfSeq
<1>2. p \in Seq(X) /\ Len(p) = n /\ \A i \in 1..n : p[i] = s[i]
  BY <1>1, PrefixOf
<1>3. q \in Seq(X) /\ Len(q) = n + 1 /\ \A i \in 1..(n + 1) : q[i] = s[i]
  BY <1>1, PrefixOf
<1> HIDE DEF p, q
<1>4. /\ Append(p, x) \in Seq(X) /\ Len(Append(p, x)) = n + 1 /\ Append(p, x)[n + 1] = x
      /\ \A i \in 1..n : Append(p, x)[i] = p[i]
  BY <1>1, <1>2, AppendProperties
<1>5. \A i \in 1..(n + 1) : i \in 1..n \/ i = n + 1
  OBVIOUS
<1>6. \A i \in 1..(n + 1) : q[i] = Append(p, x)[i]
  BY <1>2, <1>3, <1>4, <1>5
<1>7. q = Append(p, x)
  BY <1>3, <1>4, <1>6, SeqEqual
<1> QED BY <1>2, <1>7 DEF p, q

\* What is appended to a sequence comes after what it was concatenated with.
LEMMA ConcatAppend ==
    ASSUME NEW X, NEW s \in Seq(X), NEW t \in Seq(X), NEW x \in X
    PROVE  s \o Append(t, x) = Append(s \o t, x)
<1>1. Append(t, x) = t \o <<x>> /\ Append(s \o t, x) = (s \o t) \o <<x>>
  BY ConcatProperties, AppendIsConcat
<1> QED BY <1>1, ConcatAssociative

LEMMA AppendConcat ==
    ASSUME NEW X, NEW s \in Seq(X), NEW t \in Seq(X), NEW x \in X
    PROVE  Append(s, x) \o t = s \o (<<x>> \o t)
<1>1. Append(s, x) = s \o <<x>> /\ <<x>> \in Seq(X)
  BY AppendIsConcat
<1> QED BY <1>1, ConcatAssociative

\* A sequence after another, and what is left of it behind that one.
LEMMA PrefixConcat ==
    ASSUME NEW X, NEW s \in Seq(X), NEW t \in Seq(X)
    PROVE  /\ IsPrefix(s, s \o t)
           /\ SubSeq(s \o t, Len(s) + 1, Len(s \o t)) = t
<1>1. s \o t \in Seq(X) /\ Len(s \o t) = Len(s) + Len(t) /\ Len(s) \in Nat /\ Len(t) \in Nat
      /\ \A i \in 1..(Len(s) + Len(t)) : (s \o t)[i] = IF i <= Len(s) THEN s[i] ELSE t[i - Len(s)]
  BY ConcatProperties, LenProperties
<1>2. SubSeq(s, 1, Len(s)) = s
  BY SubSeqFull
<1>3. SubSeq(s \o t, 1, Len(s)) = s
  <2>1. Len(s) \in 0..Len(s \o t)
    BY <1>1
  <2>2. /\ Prefix(s \o t, Len(s)) \in Seq(X) /\ Len(Prefix(s \o t, Len(s))) = Len(s)
        /\ \A i \in 1..Len(s) : Prefix(s \o t, Len(s))[i] = (s \o t)[i]
    BY <1>1, <2>1, PrefixOf
  <2>3. \A i \in 1..Len(s) : Prefix(s \o t, Len(s))[i] = s[i]
    BY <1>1, <2>2
  <2> QED BY <2>2, <2>3, SeqEqual DEF Prefix
<1>4. SubSeq(s \o t, Len(s) + 1, Len(s \o t)) = t
  <2> DEFINE m == Len(s) + 1
             n == Len(s \o t)
             u == SubSeq(s \o t, m, n)
  <2>1. m \in Int /\ n \in Int /\ \A i \in m..n : (s \o t)[i] \in X
    BY <1>1, ElementOfSeq
  <2>2. /\ u \in Seq(X) /\ Len(u) = IF m <= n THEN n - m + 1 ELSE 0
        /\ \A i \in 1..(n - m + 1) : u[i] = (s \o t)[m + i - 1]
    BY <2>1, SubSeqProperties
  <2>3. Len(u) = Len(t) /\ \A i \in 1..Len(t) : u[i] = t[i]
    <3> HIDE DEF u
    <3>1. Len(u) = Len(t)
      BY <1>1, <2>2
    <3>2. ASSUME NEW i \in 1..Len(t) PROVE u[i] = t[i]
      <4>1. i \in 1..(n - m + 1) /\ m + i - 1 = Len(s) + i
        BY <1>1
      <4>2. u[i] = (s \o t)[Len(s) + i]
        BY <2>2, <4>1
      <4>3. Len(s) + i \in 1..(Len(s) + Len(t)) /\ ~ (Len(s) + i <= Len(s)) /\ (Len(s) + i) - Len(s) = i
        BY <1>1
      <4> QED BY <1>1, <4>2, <4>3
    <3> QED BY <3>1, <3>2
  <2> QED BY <2>2, <2>3, SeqEqual
<1> QED BY <1>1, <1>2, <1>3, <1>4 DEF IsPrefix

LEMMA PrefixIsConcat ==
    ASSUME NEW X, NEW s \in Seq(X), NEW u \in Seq(X), IsPrefix(s, u)
    PROVE  /\ SubSeq(u, Len(s) + 1, Len(u)) \in Seq(X)
           /\ u = s \o SubSeq(u, Len(s) + 1, Len(u))
<1> DEFINE m == Len(s) + 1
           n == Len(u)
           t == SubSeq(u, m, n)
<1>1. m \in Int /\ n \in Nat /\ Len(s) \in Nat /\ Len(s) <= n /\ \A i \in m..n : u[i] \in X
  BY ElementOfSeq DEF IsPrefix
<1>2. t \in Seq(X)
  BY <1>1, SubSeqProperties
<1>3. s = SubSeq(u, 1, Len(s))
  BY SubSeqFull DEF IsPrefix
<1>4. SubSeq(u, 1, Len(s)) \o t = SubSeq(u, 1, n)
  <2>1. 1 \in 1..(Len(u) + 1) /\ Len(s) \in (1 - 1)..Len(u) /\ n \in Len(s)..Len(u)
    BY <1>1
  <2> QED BY <2>1, ConcatAdjacentSubSeq, Zenon
<1>5. SubSeq(u, 1, n) = u
  BY SubSeqFull
<1> QED BY <1>2, <1>3, <1>4, <1>5

-----------------------------------------------------------------------------
\* Links followed

\* The path without a link, one name further.
Onward(t, path, name) ==
    LET at == Append(path, name)
    IN  IF NodeAt(t, at).kind = "link" THEN NodeAt(t, at).to ELSE at

Follows(h, t, path) ==
    h = [i \in 0..Len(path) |->
            IF i = 0 THEN <<>>
            ELSE LET at == Append(h[i - 1], path[i])
                 IN  IF NodeAt(t, at).kind = "link" THEN NodeAt(t, at).to ELSE at]

LEMMA OnwardType ==
    ASSUME NEW t, IsTree(t), NEW X, Known \subseteq X, NEW path \in Seq(X), NEW name \in X
    PROVE  Onward(t, path, name) \in Seq(X)
<1>1. Append(path, name) \in Seq(X)
  BY AppendProperties
<1>2. ASSUME NodeAt(t, Append(path, name)).kind = "link"
      PROVE  NodeAt(t, Append(path, name)).to \in Seq(X)
  <2>1. Append(path, name) \in DOMAIN t
    BY <1>2 DEF NodeAt, None
  <2>2. NodeAt(t, Append(path, name)).to \in Seq(Known)
    BY <1>2, <2>1 DEF NodeAt, IsTree
  <2> QED BY <2>2, SeqMonotonic
<1> QED BY <1>1, <1>2 DEF Onward

LEMMA FollowIs ==
    ASSUME NEW t, IsTree(t), NEW X, Known \subseteq X, NEW path \in Seq(X)
    PROVE  \E h \in [0..Len(path) -> Seq(X)] :
              /\ h[0] = <<>> /\ \A i \in 1..Len(path) : h[i] = Onward(t, h[i - 1], path[i])
              /\ Follow(t, path) = h[Len(path)]
<1> DEFINE n == Len(path)
<1>1. n \in Nat /\ \A i \in 1..n : path[i] \in X
  BY ElementOfSeq
<1>2. \E h : Follows(h, t, path)
  <2> DEFINE g == [i \in 1..n |-> [v \in Seq(X) |-> Onward(t, v, path[i])]]
             e == <<>>
  <2>0. \A i \in 1..n : \A v \in Seq(X) : Onward(t, v, path[i]) \in Seq(X)
    BY <1>1, OnwardType
  <2>1. g \in [1..n -> [Seq(X) -> Seq(X)]] /\ e \in Seq(X)
    BY <2>0, EmptySeq
  <2>2. \E h \in [0..n -> Seq(X)] : MadeInSteps(h, e, g, n)
    <3> HIDE DEF g, n, e
    <3> QED BY <1>1, <2>1, StepsExist
  <2>3. PICK h \in [0..n -> Seq(X)] : MadeInSteps(h, e, g, n)
    BY <2>2
  <2>4. \A i \in 1..n : i - 1 \in 0..n /\ i # 0
    BY <1>1
  <2>5. \A i \in 1..n : g[i][h[i - 1]] = Onward(t, h[i - 1], path[i])
    BY <2>4
  <2>6. \A i \in 0..n : i = 0 \/ i \in 1..n
    BY <1>1
  <2>7. h = [i \in 0..n |-> IF i = 0 THEN <<>> ELSE g[i][h[i - 1]]]
    BY <2>3 DEF MadeInSteps
  <2> HIDE DEF g, n
  <2>8. h = [i \in 0..n |-> IF i = 0 THEN <<>> ELSE Onward(t, h[i - 1], path[i])]
    BY <2>5, <2>6, <2>7
  <2> QED BY <2>8 DEF Follows, Onward, n
<1> DEFINE h == CHOOSE h : Follows(h, t, path)
<1>3. Follows(h, t, path)
  BY <1>2, Zenon
<1>4. Follow(t, path) = h[n]
  BY Zenon DEF Follow, Follows
<1> HIDE DEF h
<1>5. \A i \in 0..n : h[i] = IF i = 0 THEN <<>> ELSE Onward(t, h[i - 1], path[i])
  BY <1>3, Zenon DEF Follows, Onward
<1>6. h[0] = <<>> /\ \A i \in 1..n : h[i] = Onward(t, h[i - 1], path[i])
  <2>1. 0 \in 0..n /\ \A i \in 1..n : i \in 0..n /\ i # 0
    BY <1>1
  <2> QED BY <1>5, <2>1
<1>7. \A i \in 0..n : h[i] \in Seq(X)
  <2> DEFINE S == {i \in Nat : i <= n => h[i] \in Seq(X)}
  <2>1. 0 \in S
    BY <1>6, EmptySeq
  <2>2. ASSUME NEW i \in Nat, i \in S PROVE i + 1 \in S
    <3> SUFFICES ASSUME i + 1 <= n PROVE h[i + 1] \in Seq(X)
      OBVIOUS
    <3>1. i + 1 \in 1..n /\ (i + 1) - 1 = i /\ i <= n
      BY <1>1
    <3>2. h[i + 1] = Onward(t, h[i], path[i + 1]) /\ h[i] \in Seq(X)
      BY <1>6, <2>2, <3>1
    <3> QED BY <1>1, <3>1, <3>2, OnwardType
  <2>3. Nat \subseteq S
    <3> HIDE DEF S
    <3> QED BY <2>1, <2>2, Induction
  <2> QED BY <1>1, <2>3
<1>8. h \in [0..n -> Seq(X)]
  <2>1. h = [i \in 0..n |-> h[i]]
    BY <1>3 DEF Follows
  <2> QED BY <1>7, <2>1
<1> QED BY <1>4, <1>6, <1>8

\* The path without a link is made name by name.
LEMMA FollowEmpty == ASSUME NEW t, IsTree(t) PROVE Follow(t, <<>>) = <<>>
<1>1. <<>> \in Seq(Known) /\ Len(<<>>) = 0
  BY EmptySeq
<1> DEFINE e == <<>>
<1> HIDE DEF e
<1>2. e \in Seq(Known) /\ Len(e) = 0
  BY <1>1 DEF e
<1>3. PICK h \in [0..Len(e) -> Seq(Known)] : h[0] = <<>> /\ Follow(t, e) = h[Len(e)]
  BY <1>2, FollowIs
<1> QED BY <1>2, <1>3 DEF e

LEMMA FollowAppend ==
    ASSUME NEW t, IsTree(t), NEW path \in Paths, NEW name \in STRING
    PROVE  Follow(t, Append(path, name)) = Onward(t, Follow(t, path), name)
<1> DEFINE n == Len(path)
           to == Append(path, name)
<1>1. Known \subseteq STRING
  BY KnownWords DEF Words
<1>0. path \in Seq(STRING)
  BY DEF Paths
<1>2. /\ to \in Seq(STRING) /\ path \in Seq(STRING) /\ n \in Nat /\ Len(to) = n + 1
      /\ to[n + 1] = name /\ \A i \in 1..n : to[i] = path[i]
  <2>1. to \in Seq(STRING)
    BY <1>0, AppendProperties
  <2>2. n \in Nat
    BY <1>0, LenProperties
  <2>3. Len(to) = n + 1 /\ to[n + 1] = name
    BY <1>0, AppendProperties
  <2>4. \A i \in 1..n : to[i] = path[i]
    BY <1>0, AppendProperties
  <2> QED BY <1>0, <2>1, <2>2, <2>3, <2>4
<1> HIDE DEF to
<1>3. PICK h \in [0..Len(to) -> Seq(STRING)] :
              /\ h[0] = <<>> /\ \A i \in 1..Len(to) : h[i] = Onward(t, h[i - 1], to[i])
              /\ Follow(t, to) = h[Len(to)]
  BY <1>1, <1>2, FollowIs, Zenon
<1>4. PICK k \in [0..Len(path) -> Seq(STRING)] :
              /\ k[0] = <<>> /\ \A i \in 1..Len(path) : k[i] = Onward(t, k[i - 1], path[i])
              /\ Follow(t, path) = k[Len(path)]
  BY <1>1, <1>2, FollowIs, Zenon
<1> DEFINE S == {i \in Nat : i <= n => h[i] = k[i]}
<1>5. 0 \in S
  BY <1>3, <1>4
<1>6. ASSUME NEW i \in Nat, i \in S PROVE i + 1 \in S
  <2> SUFFICES ASSUME i + 1 <= n PROVE h[i + 1] = k[i + 1]
    OBVIOUS
  <2>1. i + 1 \in 1..n /\ i + 1 \in 1..Len(to) /\ (i + 1) - 1 = i /\ i <= n
    BY <1>2
  <2>2. h[i + 1] = Onward(t, h[i], to[i + 1]) /\ k[i + 1] = Onward(t, k[i], path[i + 1])
    BY <1>3, <1>4, <2>1
  <2>3. h[i] = k[i] /\ to[i + 1] = path[i + 1]
    BY <1>2, <1>6, <2>1
  <2> QED BY <2>2, <2>3
<1>7. Nat \subseteq S
  <2> HIDE DEF S
  <2> QED BY <1>5, <1>6, Induction
<1>8. h[n] = k[n]
  BY <1>2, <1>7
<1>9. n + 1 \in 1..Len(to) /\ (n + 1) - 1 = n
  BY <1>2
<1>10. h[n + 1] = Onward(t, h[n], to[n + 1])
  BY <1>3, <1>9
<1> QED BY <1>2, <1>3, <1>4, <1>8, <1>10 DEF to

LEMMA FollowType ==
    ASSUME NEW t, IsTree(t), NEW X, Known \subseteq X, NEW path \in Seq(X)
    PROVE  Follow(t, path) \in Seq(X)
<1>1. Len(path) \in 0..Len(path)
  BY LenProperties
<1> QED BY <1>1, FollowIs

\* What no link is in leads to itself; and what is followed has no link in it.
LEMMA NoLinksAppend ==
    ASSUME NEW t, NEW X, NEW path \in Seq(X), NEW name \in X
    PROVE  NoLinks(t, Append(path, name)) <=>
              NoLinks(t, path) /\ NodeAt(t, Append(path, name)).kind # "link"
<1> DEFINE n == Len(path)
           to == Append(path, name)
<1>1. Len(to) = n + 1 /\ n \in Nat
  BY AppendProperties, LenProperties
<1>2. Prefix(to, n + 1) = to /\ \A m \in 0..n : Prefix(to, m) = Prefix(path, m)
  BY PrefixAppend
<1>3. \A m : m \in 0..(n + 1) <=> m \in 0..n \/ m = n + 1
  BY <1>1
<1> HIDE DEF n, to
<1> QED BY <1>1, <1>2, <1>3 DEF NoLinks, n, to

LEMMA RootNoLink ==
    ASSUME NEW t, IsTree(t) PROVE NoLinks(t, <<>>) /\ NodeAt(t, <<>>).kind = "dir"
<1>1. Len(<<>>) = 0 /\ Prefix(<<>>, 0) = <<>>
  BY EmptySeq, SubSeqEmpty DEF Prefix
<1>2. NodeAt(t, <<>>).kind = "dir"
  BY DEF NodeAt, IsTree
<1> QED BY <1>1, <1>2 DEF NoLinks

LEMMA FollowSame ==
    ASSUME NEW t, IsTree(t), NEW path \in Paths, NoLinks(t, path)
    PROVE  Follow(t, path) = path
<1> DEFINE S == {p \in Paths : NoLinks(t, p) => Follow(t, p) = p}
<1>1. <<>> \in S
  BY FollowEmpty, EmptySeq DEF Paths
<1>2. ASSUME NEW p \in Seq(STRING) \cap S, NEW n \in STRING PROVE Append(p, n) \in S
  <2>1. Append(p, n) \in Paths /\ p \in Paths
    BY AppendProperties DEF Paths
  <2>2. ASSUME NoLinks(t, Append(p, n)) PROVE Follow(t, Append(p, n)) = Append(p, n)
    <3>1. NoLinks(t, p) /\ NodeAt(t, Append(p, n)).kind # "link"
      BY <2>2, NoLinksAppend
    <3>2. Follow(t, p) = p
      BY <1>2, <3>1
    <3> QED BY <2>1, <3>1, <3>2, FollowAppend DEF Onward
  <2> QED BY <2>1, <2>2
<1>3. Seq(STRING) \subseteq S
  <2> HIDE DEF S
  <2> QED BY <1>1, <1>2, SeqInduction
<1> QED BY <1>3 DEF Paths

LEMMA FollowNoLinks ==
    ASSUME NEW t, IsTree(t), NEW path \in Paths PROVE NoLinks(t, Follow(t, path))
<1> DEFINE S == {p \in Paths : NoLinks(t, Follow(t, p))}
<1>1. <<>> \in S
  BY FollowEmpty, RootNoLink, EmptySeq DEF Paths
<1>2. ASSUME NEW p \in Seq(STRING) \cap S, NEW n \in STRING PROVE Append(p, n) \in S
  <2> DEFINE at == Append(Follow(t, p), n)
  <2>1. Append(p, n) \in Paths /\ p \in Paths
    BY AppendProperties DEF Paths
  <2>2. Follow(t, p) \in Seq(STRING)
    BY <2>1, FollowType, KnownWords DEF Paths, Words
  <2>3. Follow(t, Append(p, n)) = Onward(t, Follow(t, p), n)
    BY <2>1, FollowAppend
  <2>4. CASE NodeAt(t, at).kind = "link"
    <3>1. at \in DOMAIN t /\ NodeAt(t, at) = t[at]
      BY <2>4 DEF NodeAt, None
    <3>2. NoLinks(t, t[at].to)
      BY <2>4, <3>1 DEF IsTree
    <3> QED BY <2>1, <2>3, <2>4, <3>1, <3>2 DEF Onward
  <2>5. CASE NodeAt(t, at).kind # "link"
    <3>1. NoLinks(t, at)
      BY <1>2, <2>2, <2>5, NoLinksAppend
    <3> QED BY <2>1, <2>3, <2>5, <3>1 DEF Onward
  <2> QED BY <2>4, <2>5
<1>3. Seq(STRING) \subseteq S
  <2> HIDE DEF S
  <2> QED BY <1>1, <1>2, SeqInduction
<1> QED BY <1>3 DEF Paths

LEMMA FollowTwice ==
    ASSUME NEW t, IsTree(t), NEW path \in Paths
    PROVE  Follow(t, Follow(t, path)) = Follow(t, path)
<1>1. Follow(t, path) \in Paths
  BY FollowType, KnownWords DEF Paths, Words
<1> QED BY <1>1, FollowNoLinks, FollowSame

-----------------------------------------------------------------------------
\* Paths normalized

\* A path normalized, one name further.
Backed(done, name) ==
    CASE name \in {"", "."} -> done
      [] name = ".."       -> IF done = <<>> THEN <<>> ELSE Front(done)
      [] OTHER             -> Append(done, name)

Normalizes(h, names) ==
    h = [i \in 0..Len(names) |->
            IF i = 0 THEN <<>>
            ELSE CASE names[i] \in {"", "."} -> h[i - 1]
                   [] names[i] = ".."       -> IF h[i - 1] = <<>> THEN <<>> ELSE Front(h[i - 1])
                   [] OTHER                 -> Append(h[i - 1], names[i])]

LEMMA BackedType ==
    ASSUME NEW done \in Plain, NEW name \in STRING PROVE Backed(done, name) \in Plain
<1>1. CASE name \in {"", "."}
  BY <1>1 DEF Backed
<1>2. CASE name = ".."
  <2>1. <<>> \in Plain
    BY EmptySeq DEF Plain
  <2>2. ASSUME done # <<>> PROVE Front(done) \in Plain
    <3>1. Len(done) - 1 \in 0..Len(done)
      BY <2>2, EmptySeq DEF Plain
    <3> QED BY <3>1, PrefixOf DEF Front, Prefix, Plain
  <2> QED BY <1>2, <2>1, <2>2 DEF Backed
<1>3. CASE name \notin {"", ".", ".."}
  <2>1. name \in Words
    BY <1>3 DEF Words
  <2>2. Append(done, name) \in Plain
    BY <2>1, AppendProperties DEF Plain
  <2> QED BY <1>3, <2>2 DEF Backed
<1> QED BY <1>1, <1>2, <1>3

LEMMA NormalizedIs ==
    ASSUME NEW names \in Paths
    PROVE  \E h \in [0..Len(names) -> Plain] :
              /\ h[0] = <<>> /\ \A i \in 1..Len(names) : h[i] = Backed(h[i - 1], names[i])
              /\ Normalized(names) = h[Len(names)]
<1> DEFINE n == Len(names)
<1>0. names \in Seq(STRING)
  BY DEF Paths
<1>1. n \in Nat /\ \A i \in 1..n : names[i] \in STRING
  BY <1>0, ElementOfSeq, LenProperties
<1>2. \E h : Normalizes(h, names)
  <2> DEFINE g == [i \in 1..n |-> [v \in Plain |-> Backed(v, names[i])]]
             e == <<>>
  <2>0. \A i \in 1..n : \A v \in Plain : Backed(v, names[i]) \in Plain
    BY <1>1, BackedType
  <2>1. g \in [1..n -> [Plain -> Plain]] /\ e \in Plain
    BY <2>0, EmptySeq DEF Plain
  <2>2. \E h \in [0..n -> Plain] : MadeInSteps(h, e, g, n)
    <3> HIDE DEF g, n, e
    <3> QED BY <1>1, <2>1, StepsExist
  <2>3. PICK h \in [0..n -> Plain] : MadeInSteps(h, e, g, n)
    BY <2>2
  <2>4. \A i \in 1..n : i - 1 \in 0..n /\ i # 0
    BY <1>1
  <2>5. \A i \in 1..n : g[i][h[i - 1]] = Backed(h[i - 1], names[i])
    BY <2>4
  <2>6. \A i \in 0..n : i = 0 \/ i \in 1..n
    BY <1>1
  <2>7. h = [i \in 0..n |-> IF i = 0 THEN <<>> ELSE g[i][h[i - 1]]]
    BY <2>3 DEF MadeInSteps
  <2> HIDE DEF g, n
  <2>8. h = [i \in 0..n |-> IF i = 0 THEN <<>> ELSE Backed(h[i - 1], names[i])]
    BY <2>5, <2>6, <2>7
  <2> QED BY <2>8 DEF Normalizes, Backed, n
<1> DEFINE h == CHOOSE h : Normalizes(h, names)
<1>3. Normalizes(h, names)
  BY <1>2, Zenon
<1>4. Normalized(names) = h[n]
  BY Zenon DEF Normalized, Normalizes
<1> HIDE DEF h
<1>5. \A i \in 0..n : h[i] = IF i = 0 THEN <<>> ELSE Backed(h[i - 1], names[i])
  BY <1>3, Zenon DEF Normalizes, Backed
<1>6. h[0] = <<>> /\ \A i \in 1..n : h[i] = Backed(h[i - 1], names[i])
  <2>1. 0 \in 0..n /\ \A i \in 1..n : i \in 0..n /\ i # 0
    BY <1>1
  <2> QED BY <1>5, <2>1
<1>7. \A i \in 0..n : h[i] \in Plain
  <2> DEFINE S == {i \in Nat : i <= n => h[i] \in Plain}
  <2>1. 0 \in S
    BY <1>6, EmptySeq DEF Plain
  <2>2. ASSUME NEW i \in Nat, i \in S PROVE i + 1 \in S
    <3> SUFFICES ASSUME i + 1 <= n PROVE h[i + 1] \in Plain
      OBVIOUS
    <3>1. i + 1 \in 1..n /\ (i + 1) - 1 = i /\ i <= n
      BY <1>1
    <3>2. h[i + 1] = Backed(h[i], names[i + 1]) /\ h[i] \in Plain
      BY <1>6, <2>2, <3>1
    <3> QED BY <1>1, <3>1, <3>2, BackedType
  <2>3. Nat \subseteq S
    <3> HIDE DEF S
    <3> QED BY <2>1, <2>2, Induction
  <2> QED BY <1>1, <2>3
<1>8. h \in [0..n -> Plain]
  <2>1. h = [i \in 0..n |-> h[i]]
    BY <1>3 DEF Normalizes
  <2> QED BY <1>7, <2>1
<1> QED BY <1>4, <1>6, <1>8

LEMMA NormalizedType == ASSUME NEW names \in Paths PROVE Normalized(names) \in Plain
<1>1. Len(names) \in 0..Len(names)
  BY LenProperties DEF Paths
<1> QED BY <1>1, NormalizedIs

\* A path that is normalized stays as it is.
LEMMA NormalizedSame == ASSUME NEW path \in Plain PROVE Normalized(path) = path
<1> DEFINE n == Len(path)
<1>1. path \in Paths /\ path \in Seq(Words) /\ n \in Nat
  BY PlainPaths, LenProperties DEF Plain
<1>2. PICK h \in [0..n -> Plain] :
              /\ h[0] = <<>> /\ \A i \in 1..n : h[i] = Backed(h[i - 1], path[i])
              /\ Normalized(path) = h[n]
  BY <1>1, NormalizedIs
<1> DEFINE S == {i \in Nat : i <= n => h[i] = Prefix(path, i)}
<1>3. 0 \in S
  <2>1. Prefix(path, 0) = <<>>
    BY SubSeqEmpty DEF Prefix
  <2> QED BY <1>2, <2>1
<1>4. ASSUME NEW i \in Nat, i \in S PROVE i + 1 \in S
  <2> SUFFICES ASSUME i + 1 <= n PROVE h[i + 1] = Prefix(path, i + 1)
    OBVIOUS
  <2>1. i + 1 \in 1..n /\ (i + 1) - 1 = i /\ i <= n /\ i \in 0..n
    BY <1>1
  <2>2. path[i + 1] \in Words
    BY <1>1, <2>1, ElementOfSeq
  <2>3. h[i + 1] = Append(Prefix(path, i), path[i + 1])
    BY <1>2, <1>4, <2>1, <2>2 DEF Backed, Words
  <2>4. Prefix(path, i + 1) = Prefix(path, i) \o <<path[i + 1]>>
    <3>1. 1 \in 1..Len(path) /\ i + 1 \in 1..Len(path)
      BY <2>1
    <3> QED BY <1>1, <2>1, <3>1, SubSeqRecursiveSecond DEF Prefix
  <2>5. Prefix(path, i) \in Seq(Words)
    BY <1>1, <2>1, PrefixOf
  <2> QED BY <2>2, <2>3, <2>4, <2>5, AppendIsConcat
<1>5. Nat \subseteq S
  <2> HIDE DEF S
  <2> QED BY <1>3, <1>4, Induction
<1>6. h[n] = Prefix(path, n)
  BY <1>1, <1>5
<1> QED BY <1>1, <1>2, <1>6, SubSeqFull DEF Prefix

\* What a client writes leads to a plain path.
LEMMA AbsoluteType ==
    ASSUME NEW input \in [abs : BOOLEAN, names : Paths], NEW base \in Paths
    PROVE  Absolute(input, base) \in Plain
<1>1. input.names \in Seq(STRING) /\ base \in Seq(STRING)
  BY DEF Paths
<1>2. base \o input.names \in Seq(STRING)
  BY <1>1, ConcatProperties
<1> QED BY <1>1, <1>2, NormalizedType DEF Absolute, Paths

LEMMA FollowPlain ==
    ASSUME NEW t, IsTree(t), NEW path \in Plain PROVE Follow(t, path) \in Plain
BY FollowType, KnownWords DEF Plain

-----------------------------------------------------------------------------
\* The registry

ReadsInv ==
    /\ TypeOK
    /\ workspaces \in Seq(Plain)
    /\ \A t \in Trees : IsTree(t)

LEMMA AllowedIsPlain ==
    ASSUME NEW t, IsTree(t), NEW input \in Opens,
           AssertAllowed(t, input, Cwd, Roots).ok
    PROVE  AssertAllowed(t, input, Cwd, Roots).path \in Plain
<1> DEFINE path == Absolute(input, Cwd)
<1>1. path \in Plain
  BY AbsoluteType, ReadsAssumption
<1>2. Follow(t, path) \in Plain
  BY <1>1, FollowPlain
<1> HIDE DEF path
<1>3. AssertAllowed(t, input, Cwd, Roots).path \in {path, Follow(t, path)}
  BY DEF AssertAllowed, Path, Refused, path
<1> QED BY <1>1, <1>2, <1>3

\* A directory that open was allowed is given by the path that no link is in.
LEMMA AllowedIsFollowed ==
    ASSUME NEW t, IsTree(t), NEW input \in Opens,
           AssertAllowed(t, input, Cwd, Roots).ok,
           Metadata(t, AssertAllowed(t, input, Cwd, Roots).path).kind = "dir"
    PROVE  Follow(t, AssertAllowed(t, input, Cwd, Roots).path)
              = AssertAllowed(t, input, Cwd, Roots).path
<1> DEFINE path == Absolute(input, Cwd)
           root == AssertAllowed(t, input, Cwd, Roots).path
<1>1. path \in Paths
  BY AbsoluteType, PlainPaths, ReadsAssumption
<1> HIDE DEF path
<1>2. root = IF Exists(t, path) THEN Follow(t, path) ELSE path
  BY DEF AssertAllowed, Path, Refused, path
<1>3. Exists(t, path)
  BY <1>2 DEF Exists
<1> QED BY <1>1, <1>2, <1>3, FollowTwice

LEMMA OpenKeeps == ASSUME ReadsInv, Open PROVE ReadsInv'
<1>1. /\ tree \in Trees /\ IsTree(tree) /\ tree' = tree /\ workspaces \in Seq(Plain)
      /\ Len(workspaces) <= MaxWorkspaces /\ DOMAIN idByRoot = ToSet(workspaces)
      /\ \A id \in DOMAIN workspaces : idByRoot[workspaces[id]] = id
  BY DEF ReadsInv, TypeOK, Open, Answer, Fails
<1>2. PICK input \in Opens :
         LET allowed == AssertAllowed(tree, input, Cwd, Roots)
             root    == allowed.path
         IN IF ~allowed.ok \/ Metadata(tree, root).kind # "dir" THEN Fails
            ELSE IF root \in DOMAIN idByRoot
            THEN Answer("open", root, <<>>, <<>>, idByRoot[root], <<>>)
            ELSE /\ Len(workspaces) < MaxWorkspaces
                 /\ workspaces' = Append(workspaces, root)
                 /\ idByRoot' = [r \in DOMAIN idByRoot \cup {root} |->
                                    IF r = root THEN Len(workspaces) + 1 ELSE idByRoot[r]]
                 /\ reply' = [Nothing EXCEPT !.call = "open", !.root = root, !.limit = Len(workspaces) + 1]
                 /\ UNCHANGED tree
  BY DEF Open
<1> DEFINE allowed == AssertAllowed(tree, input, Cwd, Roots)
           root == allowed.path
<1>3. CASE ~allowed.ok \/ Metadata(tree, root).kind # "dir"
  <2>1. Fails
    BY <1>2, <1>3
  <2> QED BY <1>1, <2>1 DEF Fails, Answer, ReadsInv, TypeOK
<1>4. CASE allowed.ok /\ Metadata(tree, root).kind = "dir"
  <2>1. root \in Plain /\ Follow(tree, root) = root
    BY <1>1, <1>4, AllowedIsPlain, AllowedIsFollowed
  <2> HIDE DEF allowed
  <2>2. CASE root \in DOMAIN idByRoot
    <3>1. Answer("open", root, <<>>, <<>>, idByRoot[root], <<>>)
      BY <1>2, <1>4, <2>2 DEF allowed
    <3>2. PICK id \in DOMAIN workspaces : root = workspaces[id]
      BY <1>1, <2>2 DEF ToSet
    <3>3. workspaces[idByRoot[root]] = root
      BY <1>1, <3>2
    <3> QED BY <1>1, <2>1, <3>1, <3>3 DEF Answer, ReadsInv, TypeOK
  <2>3. CASE root \notin DOMAIN idByRoot
    <3> DEFINE n == Len(workspaces)
    <3>1. /\ n < MaxWorkspaces
          /\ workspaces' = Append(workspaces, root)
          /\ idByRoot' = [r \in DOMAIN idByRoot \cup {root} |-> IF r = root THEN n + 1 ELSE idByRoot[r]]
          /\ reply' = [Nothing EXCEPT !.call = "open", !.root = root, !.limit = n + 1]
          /\ tree' = tree
      BY <1>2, <1>4, <2>3 DEF allowed
    <3>2. /\ workspaces' \in Seq(Plain) /\ Len(workspaces') = n + 1 /\ n \in Nat
          /\ DOMAIN workspaces = 1..n /\ DOMAIN workspaces' = 1..(n + 1)
          /\ workspaces'[n + 1] = root /\ \A i \in 1..n : workspaces'[i] = workspaces[i]
      BY <1>1, <2>1, <3>1, AppendProperties, LenProperties
    <3>3. \A i \in 1..n : workspaces[i] # root /\ workspaces[i] \in DOMAIN idByRoot
      BY <1>1, <2>3, <3>2 DEF ToSet
    <3>4. Len(workspaces') <= MaxWorkspaces
      BY <3>1, <3>2, ReadsAssumption
    <3>5. DOMAIN idByRoot' = ToSet(workspaces')
      <4>1. ToSet(workspaces) = {workspaces[i] : i \in 1..n}
        BY <3>2 DEF ToSet
      <4>2. ToSet(workspaces') = {workspaces'[i] : i \in 1..(n + 1)}
        BY <3>2 DEF ToSet
      <4>3. {workspaces'[i] : i \in 1..(n + 1)} = {workspaces[i] : i \in 1..n} \cup {root}
        BY <3>2
      <4>4. DOMAIN idByRoot' = DOMAIN idByRoot \cup {root}
        BY <3>1
      <4> QED BY <1>1, <4>1, <4>2, <4>3, <4>4
    <3>6. \A id \in DOMAIN workspaces' : idByRoot'[workspaces'[id]] = id
      <4>1. ASSUME NEW id \in 1..n PROVE idByRoot'[workspaces'[id]] = id
        BY <1>1, <3>1, <3>2, <3>3
      <4>2. idByRoot'[workspaces'[n + 1]] = n + 1
        BY <3>1, <3>2
      <4> QED BY <3>2, <4>1, <4>2
    <3>7. reply'.root = root /\ reply'.limit = n + 1
      BY <3>1 DEF Nothing
    <3> QED BY <1>1, <2>1, <3>1, <3>2, <3>4, <3>5, <3>6, <3>7 DEF ReadsInv, TypeOK
  <2> QED BY <2>2, <2>3
<1> QED BY <1>3, <1>4

\* The calls that read leave the registry as it is and answer what is no id.
LEMMA CallKeeps == ASSUME ReadsInv, Call PROVE ReadsInv'
<1>1. ASSUME NEW call, NEW root, NEW path, NEW what, NEW limit, NEW out,
             Answer(call, root, path, what, limit, out), call # "open"
      PROVE  ReadsInv'
  BY <1>1 DEF Answer, ReadsInv, TypeOK
<1>2. Fails => ReadsInv'
  BY <1>1 DEF Fails
<1>3. PICK id \in 1..(Len(workspaces) + 1), input \in Inputs :
         \/ ReadFile(id, input)
         \/ \E other \in Inputs, perFile \in Limits : ReadFiles(id, <<input, other, input>>, perFile)
         \/ ListDir(id, input)
         \/ \E pattern \in Patterns, max \in Limits : FindFiles(id, input, pattern, max)
         \/ \E depth \in Limits : ProjectTree(id, input, depth)
         \/ \E needle \in Needles, max \in Limits : SearchFiles(id, input, needle, max)
  BY DEF Call
<1>4. ReadFile(id, input) => ReadsInv'
  BY <1>1, <1>2, Zenon DEF ReadFile
<1>5. ASSUME NEW inputs, NEW perFile, ReadFiles(id, inputs, perFile) PROVE ReadsInv'
  BY <1>1, <1>2, <1>5, Zenon DEF ReadFiles
<1>6. ListDir(id, input) => ReadsInv'
  BY <1>1, <1>2, Zenon DEF ListDir
<1>7. ASSUME NEW pattern, NEW max, FindFiles(id, input, pattern, max) PROVE ReadsInv'
  BY <1>1, <1>2, <1>7, Zenon DEF FindFiles
<1>8. ASSUME NEW depth, ProjectTree(id, input, depth) PROVE ReadsInv'
  BY <1>1, <1>2, <1>8, Zenon DEF ProjectTree
<1>9. ASSUME NEW needle, NEW max, SearchFiles(id, input, needle, max) PROVE ReadsInv'
  BY <1>1, <1>2, <1>9, Zenon DEF SearchFiles
<1> QED BY <1>3, <1>4, <1>5, <1>6, <1>7, <1>8, <1>9

LEMMA ReadsInductive ==
    /\ Init => ReadsInv
    /\ ReadsInv /\ [Next]_vars => ReadsInv'
<1>1. ASSUME Init PROVE ReadsInv
  <2>1. workspaces \in Seq(Plain) /\ Len(workspaces) = 0 /\ DOMAIN workspaces = {}
    BY <1>1, EmptySeq DEF Init
  <2>2. DOMAIN idByRoot = {} /\ ToSet(workspaces) = {}
    BY <1>1, <2>1 DEF Init, ToSet
  <2> QED BY <1>1, <2>1, <2>2, ReadsAssumption, TreesAssumption DEF Init, ReadsInv, TypeOK, Nothing
<1>2. ASSUME ReadsInv, Change PROVE ReadsInv'
  BY <1>2 DEF Change, ReadsInv, TypeOK, Nothing
<1>3. ASSUME ReadsInv, Taken PROVE ReadsInv'
  BY <1>3 DEF Taken, ReadsInv, TypeOK, Nothing
<1>4. ASSUME ReadsInv, UNCHANGED vars PROVE ReadsInv'
  BY <1>4 DEF vars, ReadsInv, TypeOK
<1> QED BY <1>1, <1>2, <1>3, <1>4, OpenKeeps, CallKeeps DEF Next

\* The registry has one id for a directory (registry.rs:57-85), in every reachable state,
\* for any trees and any inputs.
THEOREM RegistryIsOneToOne == Spec => []TypeOK
<1>1. ReadsInv => TypeOK
  BY DEF ReadsInv
<1> QED BY <1>1, ReadsInductive, PTL DEF Spec

-----------------------------------------------------------------------------
\* Files read

LEMMA TakeIs ==
    ASSUME NEW X, NEW bytes \in Seq(X), NEW n \in Nat
    PROVE  \E m \in 0..Len(bytes) :
              /\ m = IF Len(bytes) < n THEN Len(bytes) ELSE n
              /\ Take(bytes, n) = Prefix(bytes, m)
              /\ Take(bytes, n) \in Seq(X) /\ Len(Take(bytes, n)) = m
              /\ \A i \in 1..m : Take(bytes, n)[i] = bytes[i]
<1> DEFINE m == IF Len(bytes) < n THEN Len(bytes) ELSE n
<1>1. m \in 0..Len(bytes)
  BY LenProperties
<1>2. Take(bytes, n) = Prefix(bytes, m)
  BY DEF Take, Prefix
<1> HIDE DEF m
<1>3. /\ Prefix(bytes, m) \in Seq(X) /\ Len(Prefix(bytes, m)) = m
      /\ \A i \in 1..m : Prefix(bytes, m)[i] = bytes[i]
  BY <1>1, PrefixOf
<1> QED BY <1>1, <1>2, <1>3, Zenon DEF m

\* A file in a tree has a text of whole characters.
LEMMA FileText ==
    ASSUME NEW t \in Trees, NEW path, Metadata(t, path).kind = "file"
    PROVE  /\ Follow(t, path) \in DOMAIN t /\ Metadata(t, path) = t[Follow(t, path)]
           /\ Metadata(t, path).text \in Seq(Bytes)
           /\ Lossy(Metadata(t, path).text) = Metadata(t, path).text
<1>1. Follow(t, path) \in DOMAIN t /\ Metadata(t, path) = t[Follow(t, path)]
  BY DEF Metadata, NodeAt, None
<1> QED BY <1>1, TreesAssumption

\* What is shown of a text that is cut is a beginning of it, at most two bytes longer.
Shows(text, n, end, max, got) ==
    /\ n \in 0..Len(text) /\ end \in {<<>>, Replacement}
    /\ got = Take(text, n) \o end
    /\ got \in Seq(Bytes \cup ToSet(Replacement))
    /\ Len(got) \in Nat /\ Len(got) <= max + 2

LEMMA LossyShows ==
    ASSUME NEW text \in Seq(Bytes), NEW max \in Nat
    PROVE  \E n, end : Shows(text, n, end, max, Lossy(Take(text, max)))
<1> DEFINE X == Bytes \cup ToSet(Replacement)
           cap == Take(text, max)
           k == Len(cap)
           cut == {i \in {k - 1, k} : i > 0 /\ cap[i] = "K1"}
<1>1. Replacement \in Seq(X) /\ Len(Replacement) = 3 /\ Len(<<>>) = 0 /\ <<>> \in Seq(X)
  <2>1. Replacement \in [1..3 -> {"EF", "BF", "BD"}] /\ Len(Replacement) = 3
    BY DEF Replacement
  <2>2. DOMAIN Replacement = 1..3 /\ \A i \in 1..3 : Replacement[i] \in X
    BY <2>1 DEF ToSet
  <2>3. Replacement \in Seq(ToSet(Replacement))
    BY <2>1, <2>2 DEF Replacement, ToSet
  <2> QED BY <2>1, <2>3, SeqMonotonic, EmptySeq
<1>2. text \in Seq(X) /\ Len(text) \in Nat
  BY SeqMonotonic, LenProperties
<1> HIDE DEF X
<1>3. PICK m \in 0..Len(text) :
              /\ m = IF Len(text) < max THEN Len(text) ELSE max
              /\ cap = Prefix(text, m) /\ cap \in Seq(X) /\ k = m
  <2>1. PICK m \in 0..Len(text) :
              /\ m = IF Len(text) < max THEN Len(text) ELSE max
              /\ Take(text, max) = Prefix(text, m)
              /\ Take(text, max) \in Seq(X) /\ Len(Take(text, max)) = m
              /\ \A i \in 1..m : Take(text, max)[i] = text[i]
    <3>1. text \in Seq(X)
      BY <1>2
    <3> QED BY <3>1, TakeIs
  <2> QED BY <2>1
<1> HIDE DEF cap
<1>4. k \in Nat /\ k <= max
  BY <1>2, <1>3
<1>5. CASE cut = {}
  <2>1. Lossy(cap) = cap
    BY <1>5 DEF Lossy
  <2>2. k \in 0..Len(text) /\ Take(text, k) \o <<>> = cap
    <3>1. k <= Len(text)
      BY <1>2, <1>3
    <3>2. Take(text, k) = cap
      BY <1>2, <1>3, <3>1 DEF Take, Prefix
    <3> QED BY <1>3, <3>2, ConcatEmptySeq
  <2>3. Shows(text, k, <<>>, max, cap)
    BY <1>3, <1>4, <2>2 DEF Shows, X
  <2> QED BY <2>1, <2>3 DEF cap
<1>6. CASE cut # {}
  <2> DEFINE c == CHOOSE i \in cut : TRUE
  <2>1. c \in cut
    BY <1>6
  <2>2. Lossy(cap) = SubSeq(cap, 1, c - 1) \o Replacement
    BY <1>6, Zenon DEF Lossy
  <2> HIDE DEF c
  <2>3. c \in 1..k /\ c - 1 \in 0..k /\ c - 1 \in 0..Len(text)
    BY <1>2, <1>3, <1>4, <2>1
  <2>4. SubSeq(cap, 1, c - 1) = Take(text, c - 1)
    <3>1. Take(text, c - 1) = Prefix(text, c - 1)
      BY <1>2, <2>3 DEF Take, Prefix
    <3>2. /\ Prefix(cap, c - 1) \in Seq(X) /\ Len(Prefix(cap, c - 1)) = c - 1
          /\ \A i \in 1..(c - 1) : Prefix(cap, c - 1)[i] = cap[i]
      BY <1>3, <2>3, PrefixOf
    <3>3. /\ Prefix(text, c - 1) \in Seq(X) /\ Len(Prefix(text, c - 1)) = c - 1
          /\ \A i \in 1..(c - 1) : Prefix(text, c - 1)[i] = text[i]
      BY <1>2, <2>3, PrefixOf
    <3>4. \A i \in 1..m : cap[i] = text[i]
      BY <1>2, <1>3, PrefixOf
    <3>5. \A i \in 1..(c - 1) : i \in 1..m
      BY <1>3, <2>3
    <3>6. Prefix(cap, c - 1) = Prefix(text, c - 1)
      BY <3>2, <3>3, <3>4, <3>5, SeqEqual
    <3> QED BY <3>1, <3>6 DEF Prefix
  <2>5. Take(text, c - 1) \in Seq(X) /\ Len(Take(text, c - 1)) = c - 1
    <3>1. c - 1 \in Nat /\ ~ (Len(text) < c - 1)
      BY <1>2, <2>3
    <3> QED BY <1>2, <3>1, TakeIs
  <2>6. /\ Take(text, c - 1) \o Replacement \in Seq(X)
        /\ Len(Take(text, c - 1) \o Replacement) = (c - 1) + 3
    <3> DEFINE u == Take(text, c - 1)
               e == Replacement
    <3>1. u \in Seq(X) /\ e \in Seq(X) /\ Len(u) = c - 1 /\ Len(e) = 3
      BY <1>1, <2>5
    <3> HIDE DEF u, e
    <3>2. u \o e \in Seq(X) /\ Len(u \o e) = Len(u) + Len(e)
      BY <3>1, ConcatProperties
    <3> QED BY <3>1, <3>2 DEF u, e
  <2>7. (c - 1) + 3 \in Nat /\ (c - 1) + 3 <= max + 2
    BY <1>4, <2>3
  <2>8. Shows(text, c - 1, Replacement, max, Lossy(cap))
    BY <2>2, <2>3, <2>4, <2>6, <2>7 DEF Shows, X
  <2> QED BY <2>8 DEF cap
<1> QED BY <1>5, <1>6

\* What a read answers of a text.
ContentByte == Bytes \cup ToSet(Replacement) \cup STRING
Begins(text, got) ==
    \E n \in 0..Len(text), end \in {<<>>, Replacement} : got = (Take(text, n) \o end) \o Marker
Tells(text, max, read) ==
    /\ IF read.truncated THEN Len(text) > max /\ Begins(text, read.text) ELSE read.text = text
    /\ read.text \in Seq(ContentByte)
    /\ Len(read.text) \in Nat /\ Len(read.text) <= max + (2 + Len(Marker))

LEMMA ReadCappedTells ==
    ASSUME NEW text \in Seq(Bytes), NEW max \in Nat, Lossy(text) = text
    PROVE  Tells(text, max, ReadCapped(text, max))
<1> DEFINE read == ReadCapped(text, max)
           part == Lossy(Take(text, max))
           l == Len(Marker)
<1>1. Len(text) \in Nat
  BY LenProperties
<1>2. ASSUME ~ (Len(text) > max) PROVE Take(text, max) = text
  <2>1. Take(text, max) = SubSeq(text, 1, Len(text))
    BY <1>1, <1>2 DEF Take
  <2> QED BY <2>1, SubSeqFull
<1>3. /\ read.truncated <=> Len(text) > max
      /\ read.text = part \o (IF Len(text) > max THEN Marker ELSE <<>>)
  BY DEF ReadCapped, Content
<1>4. PICK n, end : Shows(text, n, end, max, part)
  BY LossyShows, Zenon
<1>5. Marker \in Seq(STRING) /\ Marker \in Seq(ContentByte) /\ l \in Nat
  <2>1. STRING \subseteq ContentByte
    BY DEF ContentByte
  <2> QED BY <2>1, ReadsAssumption, SeqMonotonic, LenProperties
<1>6. part \in Seq(ContentByte) /\ Len(part) \in Nat /\ Len(part) <= max + 2
  <2>1. Bytes \cup ToSet(Replacement) \subseteq ContentByte
    BY DEF ContentByte
  <2> QED BY <1>4, <2>1, SeqMonotonic DEF Shows
<1> HIDE DEF part, read
<1>7. CASE Len(text) > max
  <2>1. read.text = part \o Marker
    BY <1>3, <1>7
  <2>2. part \o Marker \in Seq(ContentByte) /\ Len(part \o Marker) = Len(part) + l
    BY <1>5, <1>6, ConcatProperties
  <2>3. Begins(text, read.text)
    BY <1>4, <2>1 DEF Shows, Begins
  <2>4. Len(part) + l \in Nat /\ Len(part) + l <= max + (2 + l)
    BY <1>5, <1>6
  <2> HIDE DEF l
  <2> QED BY <1>3, <1>7, <2>1, <2>2, <2>3, <2>4 DEF Tells, read, l
<1>8. CASE ~(Len(text) > max)
  <2>1. read.text = part /\ part = text
    <3>1. read.text = part \o <<>>
      BY <1>3, <1>8
    <3>2. part = text
      BY <1>2, <1>8 DEF part
    <3> QED BY <1>6, <3>1, <3>2, ConcatEmptySeq
  <2>2. Len(part) <= max + (2 + l)
    BY <1>5, <1>6
  <2> HIDE DEF l
  <2> QED BY <1>3, <1>6, <1>8, <2>1, <2>2 DEF Tells, read, l
<1> QED BY <1>7, <1>8

LEMMA ReadFileTells ==
    ASSUME ReadsInv, NEW id, NEW input, ReadFile(id, input) PROVE ReadsTell'
<1> DEFINE at == Resolve(id, input)
<1>1. CASE ~at.ok \/ Metadata(tree, at.path).kind # "file"
  BY <1>1 DEF ReadFile, Fails, Answer, ReadsTell
<1>2. CASE at.ok /\ Metadata(tree, at.path).kind = "file"
  <2> DEFINE text == Metadata(tree, at.path).text
             read == ReadCapped(text, MaxRead)
  <2>1. tree \in Trees
    BY DEF ReadsInv, TypeOK
  <2>2. Answer("read_file", workspaces[id], at.path, <<>>, MaxRead, <<read>>)
    BY <1>2 DEF ReadFile
  <2> HIDE DEF at
  <2>3. text \in Seq(Bytes) /\ Lossy(text) = text
    BY <1>2, <2>1, FileText
  <2>4. MaxRead \in Nat
    BY ReadsAssumption
  <2> HIDE DEF text
  <2>5. Tells(text, MaxRead, read)
    BY <2>3, <2>4, ReadCappedTells
  <2> HIDE DEF read
  <2>6. /\ reply'.call = "read_file" /\ reply'.path = at.path /\ reply'.limit = MaxRead
        /\ reply'.out = <<read>> /\ tree' = tree
    BY <2>2 DEF Answer
  <2>7. ReadPaths(reply)' = <<at.path>>
    BY <2>6 DEF ReadPaths
  <2>8. ReadsTell' <=>
           \A i \in DOMAIN <<at.path>> :
              LET now == Metadata(tree, <<at.path>>[i]).text IN
              IF <<read>>[i].truncated
              THEN Len(now) > MaxRead /\ Begins(now, <<read>>[i].text)
              ELSE <<read>>[i].text = now
    BY <2>6, <2>7 DEF ReadsTell, Begins
  <2>9. \A i \in DOMAIN <<at.path>> : i = 1 /\ <<at.path>>[i] = at.path /\ <<read>>[i] = read
    OBVIOUS
  <2>10. IF read.truncated THEN Len(text) > MaxRead /\ Begins(text, read.text) ELSE read.text = text
    BY <2>5 DEF Tells
  <2> QED BY <2>8, <2>9, <2>10, Zenon DEF text
<1> QED BY <1>1, <1>2

\* Flattened, sequences are as long as they are together.
LEMMA FlattenBound ==
    ASSUME NEW X, NEW b \in Nat, NEW ss \in Seq({s \in Seq(X) : Len(s) <= b})
    PROVE  /\ FlattenSeq(ss) \in Seq(X)
           /\ Len(FlattenSeq(ss)) <= Len(ss) * b
<1> DEFINE Y == {s \in Seq(X) : Len(s) <= b}
           S == {s \in Seq(Y) : FlattenSeq(s) \in Seq(X) /\ Len(FlattenSeq(s)) <= Len(s) * b}
<1>1. <<>> \in S
  <2>1. Len(<<>>) = 0 /\ <<>> \in Seq(Y) /\ <<>> \in Seq(X) /\ 0 <= 0 * b
    BY EmptySeq
  <2> HIDE DEF Y
  <2> QED BY <2>1, FlattenEmpty
<1>2. ASSUME NEW s \in Seq(Y) \cap S, NEW y \in Y PROVE Append(s, y) \in S
  <2>1. Append(s, y) \in Seq(Y) /\ Len(Append(s, y)) = Len(s) + 1 /\ Len(s) \in Nat
    BY AppendProperties, LenProperties
  <2>2. y \in Seq(X) /\ Len(y) <= b /\ Len(y) \in Nat /\ s \in Seq(Seq(X))
    <3>1. Y \subseteq Seq(X)
      OBVIOUS
    <3> QED BY <3>1, SeqMonotonic, LenProperties
  <2>3. FlattenSeq(Append(s, y)) = FlattenSeq(s) \o y
    BY <2>2, FlattenAppend
  <2>4. FlattenSeq(s) \in Seq(X) /\ Len(FlattenSeq(s)) <= Len(s) * b /\ Len(FlattenSeq(s)) \in Nat
    BY <1>2, LenProperties
  <2>5. /\ FlattenSeq(s) \o y \in Seq(X)
        /\ Len(FlattenSeq(s) \o y) = Len(FlattenSeq(s)) + Len(y)
    BY <2>2, <2>4, ConcatProperties
  <2>6. Len(FlattenSeq(s)) + Len(y) <= (Len(s) + 1) * b
    <3> DEFINE l == Len(s)
               f == Len(FlattenSeq(s))
               k == Len(y)
    <3>1. l \in Nat /\ f \in Nat /\ k \in Nat /\ f <= l * b /\ k <= b
      BY <2>1, <2>2, <2>4
    <3> HIDE DEF l, f, k
    <3>2. (l + 1) * b = l * b + b
      BY <3>1
    <3>3. l * b \in Nat
      BY <3>1
    <3>4. f + k <= (l + 1) * b
      BY <3>1, <3>2, <3>3
    <3> QED BY <3>4 DEF l, f, k
  <2> QED BY <2>1, <2>3, <2>5, <2>6
<1>3. Seq(Y) \subseteq S
  <2> HIDE DEF S, Y
  <2> QED BY <1>1, <1>2, SeqInduction
<1> QED BY <1>3

\* The share of a file, times the files, fits the output.
LEMMA FairShareFits ==
    ASSUME NEW n \in Nat \ {0}, MinShare * n <= MaxOutput
    PROVE  FairShare(n) \in Nat /\ FairShare(n) * n <= MaxOutput
<1>1. MinShare \in Nat /\ MaxOutput \in Nat
  BY ReadsAssumption
<1> DEFINE q == MaxOutput \div n
<1>2. q \in Nat /\ q * n <= MaxOutput
  BY <1>1
<1> HIDE DEF q
<1>3. FairShare(n) = IF q > MinShare THEN q ELSE MinShare
  BY DEF FairShare, q
<1> QED BY <1>1, <1>2, <1>3

LEMMA OnceType == ASSUME NEW X, NEW seq \in Seq(X) PROVE Once(seq) \in Seq(X)
<1> DEFINE ss == [i \in DOMAIN seq |->
                     IF \E j \in 1..(i - 1) : seq[j] = seq[i] THEN <<>> ELSE <<seq[i]>>]
<1>1. DOMAIN seq = 1..Len(seq) /\ Len(seq) \in Nat /\ \A i \in 1..Len(seq) : seq[i] \in X
  BY LenProperties, ElementOfSeq
<1>2. \A i \in 1..Len(seq) : ss[i] \in Seq(X)
  BY <1>1
<1>3. ss \in Seq(Seq(X))
  BY <1>1, <1>2
<1>4. FlattenSeq(ss) \in Seq(X)
  <2> HIDE DEF ss
  <2> QED BY <1>3, FlattenType
<1> QED BY <1>4 DEF Once

LEMMA ReadFilesTells ==
    ASSUME ReadsInv, NEW inputs \in Seq(Inputs), NEW perFile \in Limits,
           NEW id, ReadFiles(id, inputs, perFile)
    PROVE  ReadsTell'
<1> DEFINE kept == Once(inputs)
           k    == Len(kept)
           at   == [i \in DOMAIN kept |-> Resolve(id, kept[i])]
           caps == {perFile, MaxRead, FairShare(k)}
           cap  == CHOOSE m \in caps : \A n \in caps : m <= n
           text(i) == Metadata(tree, at[i].path).text
           out  == [i \in DOMAIN at |-> ReadCapped(Metadata(tree, at[i].path).text, cap)]
           paths == [i \in DOMAIN at |-> at[i].path]
<1>1. CASE \E i \in DOMAIN at : ~at[i].ok \/ Metadata(tree, at[i].path).kind # "file"
  BY <1>1 DEF ReadFiles, Fails, Answer, ReadsTell
<1>2. CASE \A i \in DOMAIN at : at[i].ok /\ Metadata(tree, at[i].path).kind = "file"
  <2>1. DOMAIN kept = 1..k /\ k \in Nat /\ DOMAIN at = 1..k
    <3>1. kept \in Seq(Inputs)
      BY OnceType
    <3> HIDE DEF kept
    <3> QED BY <3>1, LenProperties
  <2>2. Answer("read_files", workspaces[id], <<>>, paths, cap, out)
    BY <1>2 DEF ReadFiles
  <2>3. tree \in Trees
    BY DEF ReadsInv, TypeOK
  <2>4. \A i \in 1..k : text(i) \in Seq(Bytes) /\ Lossy(text(i)) = text(i)
    <3> HIDE DEF at
    <3> QED BY <1>2, <2>1, <2>3, FileText
  <2>5. k # 0 => /\ cap \in Nat /\ cap <= FairShare(k)
                 /\ FairShare(k) \in Nat
    <3> SUFFICES ASSUME k # 0 PROVE cap \in Nat /\ cap <= FairShare(k) /\ FairShare(k) \in Nat
      OBVIOUS
    <3>1. perFile \in Nat /\ MaxRead \in Nat /\ MinShare \in Nat /\ MaxOutput \in Nat
      BY ReadsAssumption
    <3> HIDE DEF kept
    <3>2. FairShare(k) \in Nat
      BY <2>1, <3>1 DEF FairShare
    <3>3. \E m \in caps : \A n \in caps : m <= n
      BY <3>1, <3>2
    <3>4. cap \in caps /\ \A n \in caps : cap <= n
      BY <3>3
    <3> HIDE DEF cap
    <3> QED BY <3>1, <3>2, <3>4
  <2> HIDE DEF kept, cap
  <2>6. /\ reply'.call = "read_files" /\ reply'.limit = cap /\ reply'.what = paths
        /\ reply'.out = out /\ tree' = tree
    BY <2>2 DEF Answer
  <2>7. DOMAIN paths = 1..k /\ DOMAIN out = 1..k /\ Len(paths) = k
        /\ \A i \in 1..k : paths[i] = at[i].path /\ out[i] = ReadCapped(text(i), cap)
    BY <2>1
  <2> HIDE DEF at, out, paths
  <2>8. \A i \in 1..k : Tells(text(i), cap, out[i])
    <3>1. \A i \in 1..k : cap \in Nat
      BY <2>1, <2>5
    <3> HIDE DEF text
    <3> QED BY <2>4, <2>7, <3>1, ReadCappedTells
  <2>9. \A i \in 1..k :
           IF out[i].truncated
           THEN Len(text(i)) > cap /\ Begins(text(i), out[i].text)
           ELSE out[i].text = text(i)
    <3> HIDE DEF text
    <3> QED BY <2>8 DEF Tells
  <2> DEFINE texts == [i \in DOMAIN out |-> out[i].text]
  <2> DEFINE beyond == 2 + Len(Marker)
  <2>10. MinShare * k <= MaxOutput => Len(FlattenSeq(texts)) <= MaxOutput + beyond * k
    <3> SUFFICES ASSUME MinShare * k <= MaxOutput
                 PROVE  Len(FlattenSeq(texts)) <= MaxOutput + beyond * k
      OBVIOUS
    <3> DEFINE X == ContentByte
    <3>0. MaxOutput \in Nat /\ beyond \in Nat
      <4>1. Len(Marker) \in Nat /\ MaxOutput \in Nat
        BY ReadsAssumption, LenProperties
      <4> QED BY <4>1
    <3> HIDE DEF beyond, X
    <3>1. CASE k = 0
      <4>1. texts = <<>>
        BY <2>7, <3>1
      <4>2. Len(FlattenSeq(texts)) = 0
        BY <4>1, FlattenEmpty, EmptySeq
      <4> QED BY <3>0, <3>1, <4>2
    <3>2. CASE k # 0
      <4> DEFINE Y == {s \in Seq(X) : Len(s) <= cap + beyond}
      <4>1. cap \in Nat /\ FairShare(k) \in Nat /\ cap <= FairShare(k) /\ FairShare(k) * k <= MaxOutput
        BY <2>1, <2>5, <3>2, FairShareFits
      <4>2. \A i \in 1..k : out[i].text \in Y
        BY <2>8 DEF Tells, X, beyond
      <4>3. texts \in Seq(Y) /\ Len(texts) = k
        <5> HIDE DEF Y
        <5> QED BY <2>1, <2>7, <4>2
      <4>4. Len(FlattenSeq(texts)) \in Nat /\ Len(FlattenSeq(texts)) <= k * (cap + beyond)
        <5>1. cap + beyond \in Nat
          BY <3>0, <4>1
        <5>2. FlattenSeq(texts) \in Seq(X) /\ Len(FlattenSeq(texts)) <= Len(texts) * (cap + beyond)
          <6> HIDE DEF texts
          <6> QED BY <4>3, <5>1, FlattenBound
        <5> QED BY <4>3, <5>2, LenProperties
      <4>5. k * (cap + beyond) <= MaxOutput + beyond * k
        <5> DEFINE f == FairShare(k)
        <5>1. k \in Nat /\ cap \in Nat /\ f \in Nat /\ cap <= f /\ f * k <= MaxOutput
          BY <2>1, <4>1
        <5> HIDE DEF f, k
        <5>2. k * (cap + beyond) = cap * k + beyond * k /\ cap * k <= f * k
          BY <3>0, <5>1
        <5>3. cap * k \in Nat /\ f * k \in Nat /\ beyond * k \in Nat
          BY <3>0, <5>1
        <5> QED BY <3>0, <5>1, <5>2, <5>3
      <4>6. k * (cap + beyond) \in Nat /\ MaxOutput + beyond * k \in Nat
        BY <2>1, <3>0, <4>1
      <4> HIDE DEF k, texts
      <4> QED BY <4>4, <4>5, <4>6
    <3> QED BY <3>1, <3>2
  <2>11. ReadPaths(reply)' = paths /\ ContentBytes(reply)' = Len(FlattenSeq(texts))
    BY <2>6 DEF ReadPaths, ContentBytes
  <2>12. ReadsTell' <=>
           /\ \A i \in DOMAIN paths :
                 LET now == Metadata(tree, paths[i]).text IN
                 IF out[i].truncated
                 THEN Len(now) > cap /\ Begins(now, out[i].text)
                 ELSE out[i].text = now
           /\ MinShare * Len(paths) <= MaxOutput =>
                 Len(FlattenSeq(texts)) <= MaxOutput + (2 + Len(Marker)) * Len(paths)
    BY <2>6, <2>11 DEF ReadsTell, Begins
  <2> HIDE DEF texts
  <2> QED BY <2>7, <2>9, <2>10, <2>12, Zenon
<1> QED BY <1>1, <1>2

-----------------------------------------------------------------------------
\* What is in a sequence, and what is kept of it

Distinct(s) == \A i, j \in DOMAIN s : s[i] = s[j] => i = j

LEMMA ToSetIs ==
    ASSUME NEW X, NEW s \in Seq(X)
    PROVE  /\ ToSet(s) = {s[i] : i \in 1..Len(s)} /\ ToSet(s) \subseteq X
           /\ s \in Seq(ToSet(s))
<1>1. DOMAIN s = 1..Len(s) /\ \A i \in 1..Len(s) : s[i] \in X
  BY LenProperties, ElementOfSeq
<1>2. ToSet(s) = Range(s)
  BY DEF ToSet, Range
<1> QED BY <1>1, <1>2, SeqOfRange DEF ToSet

LEMMA ToSetEmpty == ToSet(<<>>) = {} /\ Distinct(<<>>)
<1>1. DOMAIN <<>> = {}
  OBVIOUS
<1> QED BY <1>1 DEF ToSet, Distinct

LEMMA ToSetAppend ==
    ASSUME NEW X, NEW s \in Seq(X), NEW x \in X
    PROVE  /\ ToSet(Append(s, x)) = ToSet(s) \cup {x}
           /\ Distinct(Append(s, x)) <=> Distinct(s) /\ x \notin ToSet(s)
<1> DEFINE t == Append(s, x)
           n == Len(s)
<1>1. /\ n \in Nat /\ DOMAIN s = 1..n /\ DOMAIN t = 1..(n + 1)
      /\ t[n + 1] = x /\ \A i \in 1..n : t[i] = s[i]
  BY AppendProperties, LenProperties
<1> HIDE DEF t, n
<1>2. \A i : i \in 1..(n + 1) <=> i \in 1..n \/ i = n + 1
  BY <1>1
<1>3. n + 1 \notin 1..n
  BY <1>1
<1>4. ToSet(t) = ToSet(s) \cup {x}
  BY <1>1, <1>2 DEF ToSet
<1>5. Distinct(t) <=> Distinct(s) /\ x \notin ToSet(s)
  BY <1>1, <1>2, <1>3 DEF ToSet, Distinct
<1> QED BY <1>4, <1>5 DEF t

LEMMA ToSetConcat ==
    ASSUME NEW X, NEW s \in Seq(X), NEW t \in Seq(X)
    PROVE  ToSet(s \o t) = ToSet(s) \cup ToSet(t)
<1>1. s \o t \in Seq(X)
  BY ConcatProperties
<1>2. ToSet(s) = Range(s) /\ ToSet(t) = Range(t) /\ ToSet(s \o t) = Range(s \o t)
  BY DEF ToSet, Range
<1> QED BY <1>2, RangeConcatenation

LEMMA KeptEmpty == ASSUME NEW A PROVE Kept(<<>>, A) = <<>>
<1>1. [i \in DOMAIN <<>> |-> IF <<>>[i] \in A THEN <<<<>>[i]>> ELSE <<>>] = <<>>
  OBVIOUS
<1> QED BY <1>1, FlattenEmpty DEF Kept

\* A function of the elements of a sequence, one element further.
LEMMA MapAppend ==
    ASSUME NEW X, NEW s \in Seq(X), NEW x \in X, NEW g, NEW Y, \A e \in X : g[e] \in Y
    PROVE  /\ [i \in DOMAIN Append(s, x) |-> g[Append(s, x)[i]]]
                 = Append([i \in DOMAIN s |-> g[s[i]]], g[x])
           /\ [i \in DOMAIN s |-> g[s[i]]] \in Seq(Y)
<1> DEFINE t == Append(s, x)
           n == Len(s)
           u == [i \in DOMAIN s |-> g[s[i]]]
           v == [i \in DOMAIN t |-> g[t[i]]]
<1>1. /\ n \in Nat /\ DOMAIN s = 1..n /\ DOMAIN t = 1..(n + 1) /\ t \in Seq(X)
      /\ t[n + 1] = x /\ \A i \in 1..n : t[i] = s[i] /\ s[i] \in X
  BY AppendProperties, LenProperties, ElementOfSeq
<1> HIDE DEF t, n
<1>2. u \in Seq(Y) /\ Len(u) = n /\ \A i \in 1..n : u[i] = g[s[i]]
  BY <1>1
<1>3. v \in Seq(Y) /\ Len(v) = n + 1 /\ \A i \in 1..(n + 1) : v[i] = g[t[i]]
  <2>1. \A i \in 1..(n + 1) : t[i] \in X
    BY <1>1
  <2> QED BY <1>1, <2>1
<1> HIDE DEF u, v
<1>4. g[x] \in Y
  OBVIOUS
<1>5. /\ Append(u, g[x]) \in Seq(Y) /\ Len(Append(u, g[x])) = n + 1
      /\ Append(u, g[x])[n + 1] = g[x] /\ \A i \in 1..n : Append(u, g[x])[i] = u[i]
  BY <1>2, <1>4, AppendProperties
<1>6. \A i \in 1..(n + 1) : i \in 1..n \/ i = n + 1
  BY <1>1
<1>7. \A i \in 1..(n + 1) : v[i] = Append(u, g[x])[i]
  BY <1>1, <1>2, <1>3, <1>5, <1>6
<1>8. v = Append(u, g[x])
  BY <1>3, <1>5, <1>7, SeqEqual
<1> QED BY <1>2, <1>8 DEF u, v, t

LEMMA KeptAppend ==
    ASSUME NEW X, NEW s \in Seq(X), NEW x \in X, NEW A
    PROVE  Kept(Append(s, x), A) = Kept(s, A) \o (IF x \in A THEN <<x>> ELSE <<>>)
<1> DEFINE g == [e \in X |-> IF e \in A THEN <<e>> ELSE <<>>]
           t == Append(s, x)
<1>1. \A e \in X : g[e] \in Seq(X)
  OBVIOUS
<1>2. t \in Seq(X) /\ DOMAIN t = 1..Len(t) /\ \A i \in DOMAIN t : t[i] \in X
  BY AppendProperties, LenProperties, ElementOfSeq
<1>3. \A i \in DOMAIN s : s[i] \in X
  BY LenProperties, ElementOfSeq
<1> HIDE DEF t
<1>4. Kept(s, A) = FlattenSeq([i \in DOMAIN s |-> g[s[i]]])
  <2>1. [i \in DOMAIN s |-> IF s[i] \in A THEN <<s[i]>> ELSE <<>>] = [i \in DOMAIN s |-> g[s[i]]]
    BY <1>3
  <2> QED BY <2>1 DEF Kept
<1>5. Kept(t, A) = FlattenSeq([i \in DOMAIN t |-> g[t[i]]])
  <2>1. [i \in DOMAIN t |-> IF t[i] \in A THEN <<t[i]>> ELSE <<>>] = [i \in DOMAIN t |-> g[t[i]]]
    BY <1>2
  <2> QED BY <2>1 DEF Kept
<1>6. g[x] = IF x \in A THEN <<x>> ELSE <<>>
  OBVIOUS
<1> HIDE DEF g
<1> DEFINE u == [i \in DOMAIN s |-> g[s[i]]]
<1>7. [i \in DOMAIN t |-> g[t[i]]] = Append(u, g[x]) /\ u \in Seq(Seq(X))
  BY <1>1, MapAppend DEF t
<1> HIDE DEF u
<1>8. FlattenSeq(Append(u, g[x])) = FlattenSeq(u) \o g[x]
  BY <1>1, <1>7, FlattenAppend
<1> QED BY <1>4, <1>5, <1>6, <1>7, <1>8 DEF t, u

LEMMA KeptNext ==
    ASSUME NEW X, NEW s \in Seq(X), NEW x \in X, NEW A, Kept(s, A) \in Seq(X)
    PROVE  Kept(Append(s, x), A) = IF x \in A THEN Append(Kept(s, A), x) ELSE Kept(s, A)
<1>1. Kept(Append(s, x), A) = Kept(s, A) \o (IF x \in A THEN <<x>> ELSE <<>>)
  BY KeptAppend
<1>2. Kept(s, A) \o <<x>> = Append(Kept(s, A), x)
  BY AppendIsConcat
<1>3. Kept(s, A) \o <<>> = Kept(s, A)
  BY ConcatEmptySeq
<1> QED BY <1>1, <1>2, <1>3

LEMMA KeptIs ==
    ASSUME NEW X, NEW s \in Seq(X), NEW A
    PROVE  /\ Kept(s, A) \in Seq(X)
           /\ ToSet(Kept(s, A)) = ToSet(s) \cap A
           /\ Distinct(s) => Distinct(Kept(s, A))
           /\ ToSet(s) \subseteq A => Kept(s, A) = s
<1> DEFINE S == {q \in Seq(X) : /\ Kept(q, A) \in Seq(X)
                                /\ ToSet(Kept(q, A)) = ToSet(q) \cap A
                                /\ Distinct(q) => Distinct(Kept(q, A))
                                /\ ToSet(q) \subseteq A => Kept(q, A) = q}
<1>1. <<>> \in S
  BY KeptEmpty, ToSetEmpty, EmptySeq
<1>2. ASSUME NEW q \in Seq(X) \cap S, NEW x \in X PROVE Append(q, x) \in S
  <2>0. q \in Seq(X)
    OBVIOUS
  <2>1. /\ Kept(q, A) \in Seq(X) /\ ToSet(Kept(q, A)) = ToSet(q) \cap A
        /\ Distinct(q) => Distinct(Kept(q, A))
        /\ ToSet(q) \subseteq A => Kept(q, A) = q
    BY <1>2
  <2>2. /\ ToSet(Append(q, x)) = ToSet(q) \cup {x} /\ Append(q, x) \in Seq(X)
        /\ Distinct(Append(q, x)) <=> Distinct(q) /\ x \notin ToSet(q)
    BY ToSetAppend, AppendProperties
  <2>3. CASE x \in A
    <3>1. Kept(Append(q, x), A) = Append(Kept(q, A), x)
      BY <2>0, <2>1, <2>3, KeptNext
    <3>2. /\ ToSet(Append(Kept(q, A), x)) = ToSet(Kept(q, A)) \cup {x}
          /\ Append(Kept(q, A), x) \in Seq(X)
          /\ Distinct(Append(Kept(q, A), x)) <=> Distinct(Kept(q, A)) /\ x \notin ToSet(Kept(q, A))
      BY <2>1, ToSetAppend, AppendProperties
    <3> QED BY <2>1, <2>2, <2>3, <3>1, <3>2
  <2>4. CASE x \notin A
    <3>1. Kept(Append(q, x), A) = Kept(q, A)
      BY <2>0, <2>1, <2>4, KeptNext
    <3> QED BY <2>1, <2>2, <2>4, <3>1
  <2> QED BY <2>3, <2>4
<1>3. Seq(X) \subseteq S
  <2> HIDE DEF S
  <2> QED BY <1>1, <1>2, SeqInduction
<1> QED BY <1>3

LEMMA KeptConcat ==
    ASSUME NEW X, NEW s \in Seq(X), NEW t \in Seq(X), NEW A
    PROVE  Kept(s \o t, A) = Kept(s, A) \o Kept(t, A)
<1> DEFINE S == {q \in Seq(X) : Kept(s \o q, A) = Kept(s, A) \o Kept(q, A)}
<1>0. Kept(s, A) \in Seq(X)
  BY KeptIs
<1>1. <<>> \in S
  BY <1>0, KeptEmpty, ConcatEmptySeq, EmptySeq
<1>2. ASSUME NEW q \in Seq(X) \cap S, NEW x \in X PROVE Append(q, x) \in S
  <2> DEFINE e == IF x \in A THEN <<x>> ELSE <<>>
  <2>1. s \o Append(q, x) = Append(s \o q, x)
    BY ConcatAppend
  <2>2. s \o q \in Seq(X) /\ Append(q, x) \in Seq(X)
    BY ConcatProperties, AppendProperties
  <2>3. Kept(Append(s \o q, x), A) = Kept(s \o q, A) \o e
    BY <2>2, KeptAppend
  <2>4. Kept(Append(q, x), A) = Kept(q, A) \o e
    BY KeptAppend
  <2>5. e \in Seq(X) /\ Kept(q, A) \in Seq(X)
    BY KeptIs, EmptySeq
  <2>6. Kept(s \o q, A) = Kept(s, A) \o Kept(q, A)
    BY <1>2
  <2> HIDE DEF e
  <2>7. (Kept(s, A) \o Kept(q, A)) \o e = Kept(s, A) \o (Kept(q, A) \o e)
    BY <1>0, <2>5, ConcatAssociative
  <2> QED BY <2>1, <2>2, <2>3, <2>4, <2>6, <2>7
<1>3. Seq(X) \subseteq S
  <2> HIDE DEF S
  <2> QED BY <1>1, <1>2, SeqInduction
<1> QED BY <1>3

LEMMA KeptKept ==
    ASSUME NEW X, NEW s \in Seq(X), NEW A, NEW B
    PROVE  Kept(Kept(s, A), B) = Kept(s, A \cap B)
<1> DEFINE S == {q \in Seq(X) : Kept(Kept(q, A), B) = Kept(q, A \cap B)}
<1>1. <<>> \in S
  BY KeptEmpty, EmptySeq
<1>2. ASSUME NEW q \in Seq(X) \cap S, NEW x \in X PROVE Append(q, x) \in S
  <2>0. q \in Seq(X)
    OBVIOUS
  <2>1. Kept(q, A) \in Seq(X) /\ Append(q, x) \in Seq(X) /\ Kept(q, A \cap B) \in Seq(X)
    BY KeptIs, AppendProperties
  <2>2. Kept(Kept(q, A), B) = Kept(q, A \cap B)
    BY <1>2
  <2>3. CASE x \in A
    <3>1. Kept(Append(q, x), A) = Append(Kept(q, A), x)
      BY <2>0, <2>1, <2>3, KeptNext
    <3>2. Kept(Append(Kept(q, A), x), B) = Kept(Kept(q, A), B) \o (IF x \in B THEN <<x>> ELSE <<>>)
      BY <2>1, KeptAppend
    <3>3. Kept(Append(q, x), A \cap B) = Kept(q, A \cap B) \o (IF x \in A \cap B THEN <<x>> ELSE <<>>)
      <4> DEFINE C == A \cap B
      <4> HIDE DEF C
      <4>1. Kept(Append(q, x), C) = Kept(q, C) \o (IF x \in C THEN <<x>> ELSE <<>>)
        BY <2>0, KeptAppend
      <4> QED BY <4>1 DEF C
    <3> QED BY <2>1, <2>2, <2>3, <3>1, <3>2, <3>3
  <2>4. CASE x \notin A
    <3>1. Kept(Append(q, x), A) = Kept(q, A)
      BY <2>0, <2>1, <2>4, KeptNext
    <3>2. Kept(Append(q, x), A \cap B) = Kept(q, A \cap B)
      BY <2>0, <2>1, <2>4, KeptNext
    <3> QED BY <2>1, <2>2, <3>1, <3>2
  <2> QED BY <2>3, <2>4
<1>3. Seq(X) \subseteq S
  <2> HIDE DEF S
  <2> QED BY <1>1, <1>2, SeqInduction
<1> QED BY <1>3

-----------------------------------------------------------------------------
\* What is below a path

LEMMA NameOrderIs == NameOrder \in Seq(Known) /\ Distinct(NameOrder)
<1>1. NameOrder \in Seq(Words)
  BY NamesAssumption DEF Words
<1> QED BY <1>1, NamesAssumption, ToSetIs DEF Known, Distinct

LEMMA NamesAre ==
    ASSUME NEW t, NEW dir
    PROVE  /\ Names(t, dir) \in Seq(Known) /\ Distinct(Names(t, dir))
           /\ ToSet(Names(t, dir)) = {n \in Known : Entry(t, dir, n).kind # "none"}
<1> DEFINE A == {n \in Known : NodeAt(t, Append(Follow(t, dir), n)).kind # "none"}
<1>1. Names(t, dir) = Kept(NameOrder, A)
  BY DEF Names
<1>2. ToSet(NameOrder) = Known /\ A = {n \in Known : Entry(t, dir, n).kind # "none"}
  BY DEF Known, Entry
<1> HIDE DEF A
<1>3. /\ Kept(NameOrder, A) \in Seq(Known) /\ Distinct(Kept(NameOrder, A))
      /\ ToSet(Kept(NameOrder, A)) = ToSet(NameOrder) \cap A
  BY NameOrderIs, KeptIs
<1> QED BY <1>1, <1>2, <1>3 DEF A

LEMMA EnteredAre ==
    ASSUME NEW t, NEW dir
    PROVE  /\ Entered(t, dir) \in Seq(Known) /\ Distinct(Entered(t, dir))
           /\ ToSet(Entered(t, dir)) =
                 {n \in Known : /\ Entry(t, dir, n).kind \notin {"none", "link"}
                                /\ ~(Entry(t, dir, n).kind = "dir" /\ n \in IgnoredDirectories)}
<1> DEFINE A == {n \in Known : LET entry == Entry(t, dir, n).kind IN
                               entry # "link" /\ ~(entry = "dir" /\ n \in IgnoredDirectories)}
<1>1. Entered(t, dir) = Kept(Names(t, dir), A)
  BY DEF Entered
<1> HIDE DEF A
<1>2. /\ Kept(Names(t, dir), A) \in Seq(Known) /\ Distinct(Kept(Names(t, dir), A))
      /\ ToSet(Kept(Names(t, dir), A)) = ToSet(Names(t, dir)) \cap A
  BY NamesAre, KeptIs
<1> QED BY <1>1, <1>2, NamesAre DEF A

\* What is no link is found below its directory, links followed.
LEMMA ChildIs ==
    ASSUME NEW t, IsTree(t), NEW path \in Paths, NEW n \in STRING, Entry(t, path, n).kind # "link"
    PROVE  /\ Follow(t, Append(path, n)) = Append(Follow(t, path), n)
           /\ Metadata(t, Append(path, n)) = Entry(t, path, n)
<1>1. Follow(t, Append(path, n)) = Onward(t, Follow(t, path), n)
  BY FollowAppend
<1> QED BY <1>1 DEF Onward, Entry, Metadata

LEMMA PathTypes ==
    ASSUME NEW path \in Paths
    PROVE  /\ \A n \in STRING : Append(path, n) \in Paths
           /\ \A t : IsTree(t) => Follow(t, path) \in Paths
           /\ Len(path) \in Nat
<1>1. path \in Seq(STRING) /\ Known \subseteq STRING
  BY KnownWords DEF Paths, Words
<1>2. \A n \in STRING : Append(path, n) \in Seq(STRING)
  BY <1>1, AppendProperties
<1>3. \A t : IsTree(t) => Follow(t, path) \in Seq(STRING)
  BY <1>1, FollowType
<1>4. Len(path) \in Nat
  BY <1>1, LenProperties
<1> QED BY <1>2, <1>3, <1>4 DEF Paths

\* A tree has a depth, and a walk goes down.
LEMMA Bounded ==
    ASSUME NEW X, NEW S \in SUBSET Seq(X), IsFiniteSet(S)
    PROVE  \E m \in Nat : \A p \in S : Len(p) <= m
<1>0. PICK n \in Nat : \E f : f \in Surjection(1..n, S)
  BY FS_NatSurjection DEF ExistsSurjection
<1>1. PICK f \in [1..n -> S] : \A p \in S : \E i \in 1..n : f[i] = p
  <2>2. PICK f : f \in Surjection(1..n, S)
    BY <1>0
  <2> QED BY <2>2 DEF Surjection
<1> DEFINE T == {k \in Nat : k <= n => \E m \in Nat : \A i \in 1..k : Len(f[i]) <= m}
<1>2. 0 \in T
  <2>1. 0 \in Nat /\ \A i \in 1..0 : FALSE
    OBVIOUS
  <2> QED BY <2>1
<1>3. ASSUME NEW k \in Nat, k \in T PROVE k + 1 \in T
  <2> SUFFICES ASSUME k + 1 <= n PROVE \E m \in Nat : \A i \in 1..(k + 1) : Len(f[i]) <= m
    OBVIOUS
  <2>1. PICK m \in Nat : \A i \in 1..k : Len(f[i]) <= m
    BY <1>3
  <2>2. \A i \in 1..n : f[i] \in Seq(X)
    OBVIOUS
  <2>3. \A i \in 1..n : Len(f[i]) \in Nat
    BY <2>2, LenProperties
  <2>4. k + 1 \in 1..n /\ \A i \in 1..(k + 1) : i \in 1..k \/ i = k + 1
    OBVIOUS
  <2> DEFINE l == IF m < Len(f[k + 1]) THEN Len(f[k + 1]) ELSE m
  <2>5. l \in Nat /\ m <= l /\ Len(f[k + 1]) <= l
    BY <2>3, <2>4
  <2>6. \A i \in 1..(k + 1) : Len(f[i]) <= l
    <3> HIDE DEF l
    <3>1. ASSUME NEW i \in 1..(k + 1) PROVE Len(f[i]) <= l
      <4>1. i \in 1..n
        OBVIOUS
      <4>2. CASE i \in 1..k
        <5>1. Len(f[i]) <= m /\ Len(f[i]) \in Nat
          BY <2>1, <2>3, <4>1, <4>2
        <5> QED BY <2>5, <5>1
      <4>3. CASE i = k + 1
        BY <2>5, <4>3
      <4> QED BY <2>4, <4>2, <4>3
    <3> QED BY <3>1
  <2> QED BY <2>5, <2>6
<1>4. Nat \subseteq T
  <2> HIDE DEF T
  <2> QED BY <1>2, <1>3, Induction
<1>5. \E m \in Nat : \A i \in 1..n : Len(f[i]) <= m
  <2>1. n \in T
    BY <1>4
  <2> QED BY <2>1
<1>6. PICK m \in Nat : \A i \in 1..n : Len(f[i]) <= m
  BY <1>5
<1> QED BY <1>1, <1>6

Height(t, m, path) ==
    IF Metadata(t, path).kind = "dir" THEN m + 1 - Len(Follow(t, path)) ELSE 0

Deep(t, m) == m \in Nat /\ \A p \in DOMAIN t : Len(p) <= m

LEMMA TreesAreDeep == ASSUME NEW t, IsTree(t) PROVE \E m : Deep(t, m)
<1>1. DOMAIN t \in SUBSET Seq(Known) /\ IsFiniteSet(DOMAIN t)
  BY DEF IsTree
<1> QED BY <1>1, Bounded DEF Deep

LEMMA HeightIs ==
    ASSUME NEW t, IsTree(t), NEW m, Deep(t, m), NEW path \in Paths
    PROVE  /\ Height(t, m, path) \in 0..(m + 1)
           /\ \A n \in STRING :
                 /\ Metadata(t, path).kind = "dir"
                 /\ Entry(t, path, n).kind # "link"
                 => Height(t, m, Append(path, n)) < Height(t, m, path)
<1>1. Follow(t, path) \in Paths /\ Len(Follow(t, path)) \in Nat /\ m \in Nat
  BY PathTypes DEF Deep
<1>2. Metadata(t, path).kind = "dir" => Len(Follow(t, path)) <= m
  BY DEF Deep, Metadata, NodeAt, None
<1>3. Height(t, m, path) \in 0..(m + 1)
  BY <1>1, <1>2 DEF Height
<1>4. ASSUME NEW n \in STRING, Metadata(t, path).kind = "dir", Entry(t, path, n).kind # "link"
      PROVE  Height(t, m, Append(path, n)) < Height(t, m, path)
  <2>1. Follow(t, Append(path, n)) = Append(Follow(t, path), n)
    BY <1>4, ChildIs
  <2>2. Len(Append(Follow(t, path), n)) = Len(Follow(t, path)) + 1
    <3>1. Follow(t, path) \in Seq(STRING)
      BY <1>1 DEF Paths
    <3> QED BY <3>1, AppendProperties
  <2>3. Height(t, m, path) = m + 1 - Len(Follow(t, path)) /\ m + 1 - Len(Follow(t, path)) > 0
    BY <1>1, <1>2, <1>4 DEF Height
  <2> QED BY <1>1, <2>1, <2>2, <2>3 DEF Height
<1> QED BY <1>3, <1>4

\* A path in the tree is below directories.
LEMMA DirsAbove ==
    ASSUME NEW t, IsTree(t), NEW a \in Plain, NEW b \in Seq(Known), a \o b \in DOMAIN t, b # <<>>
    PROVE  a \in DOMAIN t /\ t[a].kind = "dir"
<1> DEFINE S == {q \in Seq(Known) : a \o q \in DOMAIN t /\ q # <<>> => a \in DOMAIN t /\ t[a].kind = "dir"}
<1>1. <<>> \in S
  BY EmptySeq
<1>2. ASSUME NEW q \in Seq(Known) \cap S, NEW x \in Known PROVE Append(q, x) \in S
  <2> SUFFICES ASSUME a \o Append(q, x) \in DOMAIN t PROVE a \in DOMAIN t /\ t[a].kind = "dir"
    <3>1. q \in Seq(Known)
      OBVIOUS
    <3>2. Append(q, x) \in Seq(Known)
      BY <3>1, AppendProperties
    <3> QED BY <3>2
  <2>1. q \in Seq(Words) /\ a \in Seq(Words) /\ x \in Words
    BY PlainPaths, KnownWords DEF Plain
  <2>2. a \o Append(q, x) = Append(a \o q, x) /\ a \o q \in Seq(Words)
    BY <2>1, ConcatAppend, ConcatProperties
  <2> DEFINE u == a \o q
  <2>3. Append(u, x) # <<>> /\ Front(Append(u, x)) = u
    <3>1. u \in Seq(Words)
      BY <2>2
    <3> HIDE DEF u
    <3>2. Append(u, x) # <<>>
      BY <2>1, <3>1, AppendProperties
    <3>3. Front(Append(u, x)) = u
      BY <2>1, <3>1, PrefixAppend
    <3> QED BY <3>2, <3>3
  <2>4. u \in DOMAIN t /\ t[u].kind = "dir"
    <3>1. Append(u, x) \in DOMAIN t
      BY <2>2
    <3> HIDE DEF u
    <3>2. \A p \in DOMAIN t : p # <<>> => Front(p) \in DOMAIN t /\ t[Front(p)].kind = "dir"
      BY Zenon DEF IsTree
    <3>3. Front(Append(u, x)) \in DOMAIN t /\ t[Front(Append(u, x))].kind = "dir"
      BY <2>3, <3>1, <3>2, Zenon
    <3> QED BY <2>3, <3>3, Zenon
  <2>5. CASE q = <<>>
    BY <2>1, <2>4, <2>5, ConcatEmptySeq
  <2>6. CASE q # <<>>
    BY <1>2, <2>4, <2>6
  <2> QED BY <2>5, <2>6
<1>3. Seq(Known) \subseteq S
  <2> HIDE DEF S
  <2> QED BY <1>1, <1>2, SeqInduction
<1> QED BY <1>3

-----------------------------------------------------------------------------
\* The open files below a path, step by step

LEMMA ConsIs ==
    ASSUME NEW X, NEW x \in X, NEW s \in Seq(X)
    PROVE  /\ <<x>> \o s \in Seq(X) /\ Len(<<x>> \o s) = Len(s) + 1 /\ <<x>> \o s # <<>>
           /\ (<<x>> \o s)[1] = x /\ \A i \in 1..Len(s) : (<<x>> \o s)[i + 1] = s[i]
           /\ Prefix(<<x>> \o s, 0) = <<>>
<1> DEFINE u == <<x>> \o s
<1>1. <<x>> \in Seq(X) /\ Len(<<x>>) = 1 /\ <<x>>[1] = x /\ Len(s) \in Nat
  OBVIOUS
<1>2. /\ u \in Seq(X) /\ Len(u) = 1 + Len(s)
      /\ \A i \in 1..(1 + Len(s)) : u[i] = IF i <= 1 THEN <<x>>[i] ELSE s[i - 1]
  BY <1>1, ConcatProperties
<1> HIDE DEF u
<1>3. u[1] = x /\ u # <<>>
  BY <1>1, <1>2, EmptySeq
<1>4. ASSUME NEW i \in 1..Len(s) PROVE u[i + 1] = s[i]
  <2>1. i + 1 \in 1..(1 + Len(s)) /\ ~ (i + 1 <= 1) /\ (i + 1) - 1 = i
    BY <1>1
  <2> QED BY <1>2, <2>1
<1>5. Prefix(u, 0) = <<>>
  BY SubSeqEmpty DEF Prefix
<1>7. Len(u) = Len(s) + 1
  BY <1>1, <1>2
<1> QED BY <1>2, <1>3, <1>4, <1>5, <1>7 DEF u

LEMMA ConsPrefix ==
    ASSUME NEW X, NEW x \in X, NEW s \in Seq(X), NEW i \in 0..Len(s)
    PROVE  Prefix(<<x>> \o s, i + 1) = <<x>> \o Prefix(s, i)
<1> DEFINE u == <<x>> \o s
<1>1. <<x>> \in Seq(X) /\ Len(<<x>>) = 1 /\ <<x>>[1] = x /\ Len(s) \in Nat
  OBVIOUS
<1>2. u \in Seq(X) /\ Len(u) = Len(s) + 1 /\ u[1] = x /\ \A j \in 1..Len(s) : u[j + 1] = s[j]
  BY ConsIs
<1> HIDE DEF u
<1>3. u[1] = x
  BY <1>2
<1>4. \A j \in 1..Len(s) : u[j + 1] = s[j]
  BY <1>2
<1>6. Prefix(u, i + 1) = <<x>> \o Prefix(s, i)
  <2>1. i + 1 \in 0..Len(u) /\ i \in Nat
    BY <1>1, <1>2
  <2>2. /\ Prefix(u, i + 1) \in Seq(X) /\ Len(Prefix(u, i + 1)) = i + 1
        /\ \A j \in 1..(i + 1) : Prefix(u, i + 1)[j] = u[j]
    BY <1>2, <2>1, PrefixOf
  <2>3. /\ Prefix(s, i) \in Seq(X) /\ Len(Prefix(s, i)) = i
        /\ \A j \in 1..i : Prefix(s, i)[j] = s[j]
    BY PrefixOf
  <2> DEFINE v == <<x>> \o Prefix(s, i)
  <2>4. /\ v \in Seq(X) /\ Len(v) = 1 + i
        /\ \A j \in 1..(1 + i) : v[j] = IF j <= 1 THEN <<x>>[j] ELSE Prefix(s, i)[j - 1]
    BY <1>1, <2>3, ConcatProperties
  <2> HIDE DEF v
  <2>5. ASSUME NEW j \in 1..(i + 1) PROVE Prefix(u, i + 1)[j] = v[j]
    <3>1. CASE j = 1
      BY <1>1, <1>3, <2>1, <2>2, <2>4, <3>1
    <3>2. CASE j # 1
      <4>1. j - 1 \in 1..i /\ j - 1 \in 1..Len(s) /\ (j - 1) + 1 = j /\ ~ (j <= 1)
        BY <1>1, <3>2
      <4>2. u[j] = s[j - 1]
        BY <1>4, <4>1
      <4>3. v[j] = Prefix(s, i)[j - 1]
        BY <2>1, <2>4, <4>1
      <4>4. Prefix(u, i + 1)[j] = u[j]
        BY <2>2
      <4>5. Prefix(s, i)[j - 1] = s[j - 1]
        BY <2>3, <4>1
      <4> QED BY <4>2, <4>3, <4>4, <4>5, Zenon
    <3> QED BY <3>1, <3>2
  <2>6. Prefix(u, i + 1) = v
    BY <2>1, <2>2, <2>4, <2>5, SeqEqual
  <2> QED BY <2>6 DEF v
<1> QED BY <1>6 DEF u

LEMMA ConsOf ==
    ASSUME NEW X, NEW s \in Seq(X), s # <<>>
    PROVE  \E x \in X, r \in Seq(X) : s = <<x>> \o r
<1> DEFINE x == Head(s)
           r == Tail(s)
           u == <<x>> \o r
<1>1. /\ x \in X /\ r \in Seq(X) /\ Len(r) = Len(s) - 1 /\ Len(s) \in Nat \ {0}
      /\ \A i \in 1..Len(r) : r[i] = s[i + 1]
  BY HeadTailProperties, EmptySeq
<1>2. x = s[1]
  OBVIOUS
<1> HIDE DEF x, r
<1>3. u \in Seq(X) /\ Len(u) = Len(r) + 1 /\ u[1] = x /\ \A i \in 1..Len(r) : u[i + 1] = r[i]
  BY <1>1, ConsIs
<1> HIDE DEF u
<1>4. ASSUME NEW i \in 1..Len(s) PROVE u[i] = s[i]
  <2>1. CASE i = 1
    BY <1>2, <1>3, <2>1
  <2>2. CASE i # 1
    <3>1. i - 1 \in 1..Len(r) /\ (i - 1) + 1 = i
      BY <1>1, <2>2
    <3>2. u[i] = r[i - 1] /\ r[i - 1] = s[i]
      BY <1>1, <1>3, <3>1
    <3> QED BY <3>2
  <2> QED BY <2>1, <2>2
<1>5. Len(u) = Len(s)
  BY <1>1, <1>3
<1>6. u = s
  BY <1>3, <1>4, <1>5, SeqEqual
<1> QED BY <1>1, <1>6 DEF u

\* A file is open below a path if nothing between them cuts it off.
Reached(t, root, path, s) ==
    /\ s \in Seq(Known)
    /\ NodeAt(t, Follow(t, path) \o s).kind = "file"
    /\ \A n \in 0..Len(s) : IsSafePath(t, root, path \o Prefix(s, n))
    /\ \A n \in 1..(Len(s) - 1) : s[n] \notin IgnoredDirectories

LEMMA PlainTypes ==
    ASSUME NEW path \in Plain
    PROVE  /\ \A n \in Known : Append(path, n) \in Plain
           /\ \A t : IsTree(t) => Follow(t, path) \in Plain
           /\ path \in Paths /\ path \o <<>> = path
           /\ \A s \in Seq(Known) : path \o s \in Plain
<1>1. path \in Seq(Words) /\ Known \subseteq Words
  BY KnownWords DEF Plain
<1>2. \A n \in Known : Append(path, n) \in Seq(Words)
  BY <1>1, AppendProperties
<1>3. \A t : IsTree(t) => Follow(t, path) \in Seq(Words)
  BY <1>1, FollowType
<1>4. path \o <<>> = path
  BY <1>1, ConcatEmptySeq
<1>5. path \in Paths
  BY PlainPaths
<1>6. \A s \in Seq(Known) : path \o s \in Seq(Words)
  <2>1. \A s \in Seq(Known) : s \in Seq(Words)
    BY <1>1, SeqMonotonic
  <2> QED BY <1>1, <2>1, ConcatProperties
<1> QED BY <1>2, <1>3, <1>4, <1>5, <1>6 DEF Plain

LEMMA ReachedHere ==
    ASSUME NEW t, IsTree(t), NEW root, NEW path \in Plain
    PROVE  Reached(t, root, path, <<>>) <=> Metadata(t, path).kind = "file" /\ IsSafePath(t, root, path)
<1>1. <<>> \in Seq(Known) /\ Len(<<>>) = 0 /\ Prefix(<<>>, 0) = <<>>
  BY EmptySeq, SubSeqEmpty DEF Prefix
<1>2. path \o <<>> = path /\ Follow(t, path) \o <<>> = Follow(t, path)
  BY PlainTypes
<1>3. \A n : n \in 0..0 <=> n = 0
  OBVIOUS
<1>4. \A n : n \notin 1..(0 - 1)
  OBVIOUS
<1> DEFINE e == <<>>
<1>5. e \in Seq(Known) /\ Len(e) = 0 /\ Prefix(e, 0) = e /\ path \o e = path /\ Follow(t, path) \o e = Follow(t, path)
  BY <1>1, <1>2
<1> HIDE DEF e
<1>6. Reached(t, root, path, e) <=> Metadata(t, path).kind = "file" /\ IsSafePath(t, root, path)
  BY <1>3, <1>4, <1>5 DEF Reached, Metadata
<1> QED BY <1>6 DEF e

\* Only below a directory are there more files.
LEMMA ReachedInDir ==
    ASSUME NEW t, IsTree(t), NEW root, NEW path \in Plain, NEW s, Reached(t, root, path, s), s # <<>>
    PROVE  Metadata(t, path).kind = "dir" /\ IsSafePath(t, root, path)
<1>1. s \in Seq(Known) /\ Follow(t, path) \in Plain
  BY PlainTypes DEF Reached
<1>2. Follow(t, path) \o s \in DOMAIN t
  BY DEF Reached, NodeAt, None
<1>3. Follow(t, path) \in DOMAIN t /\ t[Follow(t, path)].kind = "dir"
  BY <1>1, <1>2, DirsAbove
<1>4. IsSafePath(t, root, path)
  <2>1. 0 \in 0..Len(s) /\ Prefix(s, 0) = <<>>
    BY <1>1, LenProperties, SubSeqEmpty DEF Prefix
  <2>2. path \o Prefix(s, 0) = path
    BY <2>1, PlainTypes
  <2> QED BY <2>1, <2>2 DEF Reached
<1> QED BY <1>3, <1>4 DEF Metadata, NodeAt

LEMMA ReachedBelow ==
    ASSUME NEW t, IsTree(t), NEW root, NEW path \in Plain, NEW n \in Known, NEW s \in Seq(Known)
    PROVE  Reached(t, root, path, <<n>> \o s) <=>
              /\ IsSafePath(t, root, path) /\ n \in ToSet(Entered(t, path))
              /\ Reached(t, root, Append(path, n), s)
<1> DEFINE u == <<n>> \o s
           to == Append(path, n)
           at == Follow(t, path)
<1>1. /\ u \in Seq(Known) /\ Len(u) = Len(s) + 1 /\ u # <<>>
      /\ u[1] = n /\ \A i \in 1..Len(s) : u[i + 1] = s[i]
      /\ Prefix(u, 0) = <<>>
      /\ \A i \in 0..Len(s) : Prefix(u, i + 1) = <<n>> \o Prefix(s, i)
  <2>1. /\ <<n>> \o s \in Seq(Known) /\ Len(<<n>> \o s) = Len(s) + 1 /\ <<n>> \o s # <<>>
        /\ (<<n>> \o s)[1] = n /\ \A i \in 1..Len(s) : (<<n>> \o s)[i + 1] = s[i]
    BY ConsIs
  <2>2. Prefix(<<n>> \o s, 0) = <<>>
    BY ConsIs
  <2>3. ASSUME NEW i \in 0..Len(s) PROVE Prefix(<<n>> \o s, i + 1) = <<n>> \o Prefix(s, i)
    BY ConsPrefix
  <2> QED BY <2>1, <2>2, <2>3, Zenon
<1>2. Len(s) \in Nat /\ \A i \in 0..Len(s) : Prefix(s, i) \in Seq(Known)
  BY LenProperties, PrefixOf
<1>3. to \in Plain /\ at \in Plain /\ path \in Paths /\ n \in STRING /\ n \in Words
  BY PlainTypes, KnownWords DEF Words
<1>4. \A q \in Seq(Known) : path \o (<<n>> \o q) = to \o q /\ at \o (<<n>> \o q) = Append(at, n) \o q
  <2>1. path \in Seq(Words) /\ at \in Seq(Words)
    BY <1>3 DEF Plain
  <2>2. \A q \in Seq(Known) : q \in Seq(Words)
    BY PlainPaths DEF Plain
  <2> QED BY <1>3, <2>1, <2>2, AppendConcat
<1>5. Prefix(s, Len(s)) = s
  BY SubSeqFull DEF Prefix
<1> HIDE DEF u
<1>6. (\A i \in 0..Len(u) : IsSafePath(t, root, path \o Prefix(u, i)))
         <=> IsSafePath(t, root, path) /\ \A i \in 0..Len(s) : IsSafePath(t, root, to \o Prefix(s, i))
  <2>1. path \o Prefix(u, 0) = path
    BY <1>1, PlainTypes
  <2>2. \A i \in 0..Len(s) : path \o Prefix(u, i + 1) = to \o Prefix(s, i)
    BY <1>1, <1>2, <1>4
  <2>3. \A i : i \in 0..Len(u) <=> i = 0 \/ \E j \in 0..Len(s) : i = j + 1
    <3>1. ASSUME NEW i, i \in 0..Len(u), i # 0 PROVE \E j \in 0..Len(s) : i = j + 1
      <4>1. i - 1 \in 0..Len(s) /\ i = (i - 1) + 1
        BY <1>1, <1>2, <3>1
      <4> QED BY <4>1
    <3>2. 0 \in 0..Len(u) /\ \A j \in 0..Len(s) : j + 1 \in 0..Len(u)
      BY <1>1, <1>2
    <3> QED BY <3>1, <3>2
  <2> HIDE DEF to
  <2> QED BY <2>1, <2>2, <2>3
<1>7. (\A i \in 1..(Len(u) - 1) : u[i] \notin IgnoredDirectories)
         <=> /\ s # <<>> => n \notin IgnoredDirectories
             /\ \A i \in 1..(Len(s) - 1) : s[i] \notin IgnoredDirectories
  <2>1. s # <<>> <=> Len(s) # 0
    BY EmptySeq
  <2>2. \A i : i \in 1..(Len(u) - 1) <=> (i = 1 /\ Len(s) # 0) \/ \E j \in 1..(Len(s) - 1) : i = j + 1
    <3>1. ASSUME NEW i, i \in 1..(Len(u) - 1), i # 1 PROVE \E j \in 1..(Len(s) - 1) : i = j + 1
      <4>1. i - 1 \in 1..(Len(s) - 1) /\ i = (i - 1) + 1
        BY <1>1, <1>2, <3>1
      <4> QED BY <4>1
    <3>2. Len(s) # 0 <=> 1 \in 1..(Len(u) - 1)
      BY <1>1, <1>2
    <3>3. \A j \in 1..(Len(s) - 1) : j + 1 \in 1..(Len(u) - 1)
      BY <1>1, <1>2
    <3> QED BY <3>1, <3>2, <3>3
  <2>3. \A j \in 1..(Len(s) - 1) : u[j + 1] = s[j]
    BY <1>1, <1>2
  <2>4. ASSUME \A i \in 1..(Len(u) - 1) : u[i] \notin IgnoredDirectories
        PROVE  /\ s # <<>> => n \notin IgnoredDirectories
               /\ \A i \in 1..(Len(s) - 1) : s[i] \notin IgnoredDirectories
    <3>1. ASSUME NEW i \in 1..(Len(s) - 1) PROVE s[i] \notin IgnoredDirectories
      <4>1. i + 1 \in 1..(Len(u) - 1)
        BY <2>2
      <4> QED BY <2>3, <2>4, <4>1
    <3>2. ASSUME s # <<>> PROVE n \notin IgnoredDirectories
      <4>1. 1 \in 1..(Len(u) - 1)
        BY <2>1, <2>2, <3>2
      <4> QED BY <1>1, <2>4, <4>1
    <3> QED BY <3>1, <3>2
  <2>5. ASSUME s # <<>> => n \notin IgnoredDirectories,
               \A i \in 1..(Len(s) - 1) : s[i] \notin IgnoredDirectories,
               NEW i \in 1..(Len(u) - 1)
        PROVE  u[i] \notin IgnoredDirectories
    <3>1. CASE i = 1 /\ Len(s) # 0
      BY <1>1, <2>1, <2>5, <3>1
    <3>2. CASE \E j \in 1..(Len(s) - 1) : i = j + 1
      <4>1. PICK j \in 1..(Len(s) - 1) : i = j + 1
        BY <3>2
      <4>2. u[j + 1] = s[j]
        BY <2>3
      <4> QED BY <2>5, <4>1, <4>2
    <3> QED BY <2>2, <3>1, <3>2
  <2> QED BY <2>4, <2>5
<1>8. at \o u = Append(at, n) \o s
  BY <1>4 DEF u
<1>9. ASSUME Entry(t, path, n).kind # "link" PROVE Follow(t, to) \o s = at \o u
  BY <1>3, <1>8, <1>9, ChildIs
<1>10. ASSUME Reached(t, root, path, u)
       PROVE  n \in ToSet(Entered(t, path)) /\ Reached(t, root, to, s)
  <2>1. at \o u \in DOMAIN t /\ t[at \o u].kind = "file"
    BY <1>10 DEF Reached, NodeAt, None
  <2>2. Append(at, n) \in Plain
    BY <1>3, PlainTypes
  <2>3. s # <<>> => Append(at, n) \in DOMAIN t /\ t[Append(at, n)].kind = "dir"
    BY <1>8, <2>1, <2>2, DirsAbove
  <2>4. s = <<>> => Append(at, n) \in DOMAIN t /\ t[Append(at, n)].kind = "file"
    BY <1>8, <2>1, <2>2, PlainTypes
  <2>5. Entry(t, path, n).kind = IF s = <<>> THEN "file" ELSE "dir"
    BY <2>3, <2>4 DEF Entry, NodeAt
  <2>6. s # <<>> => n \notin IgnoredDirectories
    BY <1>7, <1>10 DEF Reached
  <2>7. n \in ToSet(Entered(t, path))
    BY <2>5, <2>6, EnteredAre
  <2>8. Reached(t, root, to, s)
    <3> HIDE DEF to
    <3> QED BY <1>6, <1>7, <1>9, <1>10, <2>5 DEF Reached
  <2> QED BY <2>7, <2>8
<1>11. ASSUME n \in ToSet(Entered(t, path)), IsSafePath(t, root, path), Reached(t, root, to, s)
       PROVE  Reached(t, root, path, u)
  <2>1. Entry(t, path, n).kind # "link" /\ ~(Entry(t, path, n).kind = "dir" /\ n \in IgnoredDirectories)
    BY <1>11, EnteredAre
  <2>2. s # <<>> => n \notin IgnoredDirectories
    <3>1. s # <<>> => Metadata(t, to).kind = "dir"
      BY <1>3, <1>11, ReachedInDir
    <3>2. Metadata(t, to) = Entry(t, path, n)
      BY <1>3, <2>1, ChildIs
    <3> QED BY <2>1, <3>1, <3>2
  <2> HIDE DEF to
  <2> QED BY <1>1, <1>6, <1>7, <1>9, <1>11, <2>1, <2>2 DEF Reached
<1>12. Reached(t, root, path, u) => IsSafePath(t, root, path)
  BY <1>1, ReachedInDir
<1> QED BY <1>10, <1>11, <1>12 DEF u

\* Below where a path leads there is nothing but directories on the way to a file.
LEMMA FollowBelow ==
    ASSUME NEW t, IsTree(t), NEW path \in Plain, NEW s \in Seq(Known),
           Follow(t, path) \o s \in DOMAIN t, t[Follow(t, path) \o s].kind # "link"
    PROVE  Follow(t, path \o s) = Follow(t, path) \o s
<1> DEFINE at == Follow(t, path)
           S == {q \in Seq(Known) : at \o q \in DOMAIN t /\ t[at \o q].kind # "link"
                                       => Follow(t, path \o q) = at \o q}
<1>0. at \in Plain /\ path \in Seq(Words) /\ at \in Seq(Words)
  BY PlainTypes DEF Plain
<1>1. <<>> \in S
  <2>1. path \o <<>> = path /\ at \o <<>> = at
    BY <1>0, ConcatEmptySeq
  <2>2. <<>> \in Seq(Known)
    BY EmptySeq
  <2> QED BY <2>1, <2>2
<1>2. ASSUME NEW q \in Seq(Known) \cap S, NEW x \in Known PROVE Append(q, x) \in S
  <2>1. q \in Seq(Known) /\ q \in Seq(Words) /\ x \in Words /\ x \in STRING
    BY PlainPaths, KnownWords DEF Plain, Words
  <2>2. at \o Append(q, x) = Append(at \o q, x) /\ path \o Append(q, x) = Append(path \o q, x)
    BY <1>0, <2>1, ConcatAppend
  <2>3. at \o q \in Plain /\ path \o q \in Plain /\ path \o q \in Paths
    BY <1>0, <2>1, PlainTypes, PlainPaths
  <2>4. <<x>> \in Seq(Known) /\ <<x>> # <<>> /\ Append(at \o q, x) = (at \o q) \o <<x>>
    <3>1. at \o q \in Seq(Words)
      BY <2>3 DEF Plain
    <3> QED BY <2>1, <3>1, AppendIsConcat
  <2> SUFFICES ASSUME at \o Append(q, x) \in DOMAIN t, t[at \o Append(q, x)].kind # "link"
               PROVE  Follow(t, path \o Append(q, x)) = at \o Append(q, x)
    <3>1. Append(q, x) \in Seq(Known)
      BY <2>1, AppendProperties
    <3> QED BY <3>1
  <2>5. at \o q \in DOMAIN t /\ t[at \o q].kind = "dir"
    BY <2>2, <2>3, <2>4, DirsAbove
  <2>6. Follow(t, path \o q) = at \o q
    BY <1>2, <2>5
  <2>7. Follow(t, Append(path \o q, x)) = Onward(t, at \o q, x)
    BY <2>1, <2>3, <2>6, FollowAppend
  <2>8. NodeAt(t, Append(at \o q, x)).kind # "link"
    BY <2>2 DEF NodeAt
  <2> QED BY <2>2, <2>7, <2>8 DEF Onward
<1>3. Seq(Known) \subseteq S
  <2> HIDE DEF S
  <2> QED BY <1>1, <1>2, SeqInduction
<1> QED BY <1>3

\* What is shown of a safe path resolves to it.
LEMMA SafePathIs ==
    ASSUME NEW t, NEW root \in Plain, NEW path \in Plain, IsSafePath(t, root, path)
    PROVE  /\ root \o Relative(root, path) = path /\ Relative(root, path) \in Plain
           /\ ResolveIn(t, root, [abs |-> FALSE, names |-> Relative(root, path)]) = Path(path)
           /\ IsInside(path, root) /\ ~IsDenied(root, path)
<1> DEFINE full == [abs |-> TRUE, names |-> path]
           rel  == [abs |-> FALSE, names |-> Relative(root, path)]
<1>1. Absolute(full, root) = path
  BY NormalizedSame DEF Absolute
<1>2. /\ IsInside(path, root) /\ IsInside(Canonical(t, path), Canonical(t, root))
      /\ ~IsDenied(root, path)
  <2>1. ResolveIn(t, root, full).ok
    BY DEF IsSafePath
  <2> HIDE DEF full
  <2> QED BY <1>1, <2>1 DEF ResolveIn, Refused, IsSafePath
<1>3. root \o Relative(root, path) = path /\ Relative(root, path) \in Plain
  <2>1. root \in Seq(Words) /\ path \in Seq(Words) /\ IsPrefix(root, path)
    BY <1>2 DEF Plain, IsInside
  <2>2. Relative(root, path) = SubSeq(path, Len(root) + 1, Len(path))
    BY DEF Relative
  <2> QED BY <2>1, <2>2, PrefixIsConcat DEF Plain
<1>4. Absolute(rel, root) = path
  BY <1>3, NormalizedSame DEF Absolute
<1>5. ResolveIn(t, root, rel) = Path(path)
  <2> HIDE DEF rel
  <2> QED BY <1>2, <1>4 DEF ResolveIn
<1> QED BY <1>2, <1>3, <1>5

LEMMA SuffixType ==
    ASSUME NEW X, NEW s \in Seq(X), NEW n \in Nat PROVE SubSeq(s, n + 1, Len(s)) \in Seq(X)
<1>1. n + 1 \in Nat \ {0} /\ Len(s) \in Nat /\ \A i \in (n + 1)..Len(s) : s[i] \in X
  BY LenProperties, ElementOfSeq
<1> QED BY <1>1, SubSeqProperties

\* The open files, as they are reached from the start.
LEMMA OpenFilesAre ==
    ASSUME NEW t, IsTree(t), NEW root, NEW start \in Plain
    PROVE  OpenFiles(t, root, start) =
              {start \o s : s \in {s \in Seq(Known) : Reached(t, root, start, s)}}
<1> DEFINE at == Follow(t, start)
           suffix(q) == SubSeq(q, Len(at) + 1, Len(q))
           open(q) == \A n \in 0..Len(suffix(q)) :
                         /\ IsSafePath(t, root, start \o Prefix(suffix(q), n))
                         /\ n \in 1..(Len(suffix(q)) - 1) => suffix(q)[n] \notin IgnoredDirectories
           found == {q \in DOMAIN t : IsInside(q, at) /\ t[q].kind = "file" /\ open(q)}
<1>0. OpenFiles(t, root, start) = {start \o suffix(q) : q \in found}
  BY DEF OpenFiles
<1>1. at \in Plain /\ at \in Seq(Words) /\ Len(at) \in Nat
  BY PlainTypes, LenProperties DEF Plain
<1>2. ASSUME NEW q \in found
      PROVE  suffix(q) \in Seq(Known) /\ Reached(t, root, start, suffix(q))
  <2>1. q \in Seq(Known) /\ q \in Seq(Words)
    BY PlainPaths DEF IsTree, Plain
  <2>2. suffix(q) \in Seq(Known)
    BY <1>1, <2>1, SuffixType
  <2>3. q = at \o suffix(q)
    BY <1>1, <2>1, PrefixIsConcat DEF IsInside
  <2> DEFINE s == suffix(q)
  <2>4. /\ s \in Seq(Known) /\ q = at \o s /\ t[q].kind = "file" /\ q \in DOMAIN t
        /\ \A n \in 0..Len(s) : IsSafePath(t, root, start \o Prefix(s, n))
        /\ \A n \in 0..Len(s) : n \in 1..(Len(s) - 1) => s[n] \notin IgnoredDirectories
    BY <2>2, <2>3
  <2>5. \A n : n \in 1..(Len(s) - 1) => n \in 0..Len(s)
    BY <2>2, LenProperties
  <2> HIDE DEF s
  <2>6. Reached(t, root, start, s)
    BY <2>4, <2>5 DEF Reached, NodeAt
  <2> QED BY <2>2, <2>6 DEF s
<1>3. ASSUME NEW s \in Seq(Known), Reached(t, root, start, s)
      PROVE  at \o s \in found /\ suffix(at \o s) = s
  <2>1. s \in Seq(Words)
    BY PlainPaths DEF Plain
  <2> DEFINE q == at \o s
  <2>2. IsPrefix(at, q) /\ suffix(q) = s
    BY <1>1, <2>1, PrefixConcat
  <2>3. q \in DOMAIN t /\ t[q].kind = "file"
    BY <1>3 DEF Reached, NodeAt, None
  <2>4. open(q)
    <3> HIDE DEF q
    <3> QED BY <1>3, <2>2 DEF Reached
  <2> QED BY <2>2, <2>3, <2>4 DEF IsInside
<1> HIDE DEF found, suffix
<1>4. \A q \in found : start \o suffix(q) \in {start \o s : s \in {s \in Seq(Known) : Reached(t, root, start, s)}}
  BY <1>2
<1>5. \A s \in Seq(Known) : Reached(t, root, start, s) => start \o s \in {start \o suffix(q) : q \in found}
  BY <1>3
<1> QED BY <1>0, <1>4, <1>5

\* An open file is a file, and can be read as it is shown.
LEMMA ReachedIs ==
    ASSUME NEW t, IsTree(t), NEW root, NEW start \in Plain, NEW s, Reached(t, root, start, s)
    PROVE  /\ start \o s \in Plain /\ IsSafePath(t, root, start \o s)
           /\ Metadata(t, start \o s).kind = "file"
<1>1. s \in Seq(Known) /\ NodeAt(t, Follow(t, start) \o s).kind = "file"
  BY DEF Reached
<1>2. Follow(t, start) \o s \in DOMAIN t /\ t[Follow(t, start) \o s].kind = "file"
  BY <1>1 DEF NodeAt, None
<1>3. Follow(t, start \o s) = Follow(t, start) \o s
  BY <1>1, <1>2, FollowBelow
<1>4. start \o s \in Plain
  BY <1>1, PlainTypes
<1>5. IsSafePath(t, root, start \o s)
  <2>1. Len(s) \in 0..Len(s) /\ Prefix(s, Len(s)) = s
    BY <1>1, LenProperties, SubSeqFull DEF Prefix
  <2> QED BY <2>1 DEF Reached
<1> QED BY <1>1, <1>3, <1>4, <1>5 DEF Metadata

-----------------------------------------------------------------------------
\* The names of a directory one after the other

InTurns(h, walk, dir, names, results) ==
    h = [i \in 0..Len(names) |->
            IF i = 0 THEN results ELSE walk[Append(dir, names[i])][h[i - 1]]]

Steppers(walk, dir, names) == [i \in 1..Len(names) |-> walk[Append(dir, names[i])]]

\* What a walk finds from each of the names goes from a result to a result.
Walks(V, walk, dir, names) ==
    \A i \in 1..Len(names) : walk[Append(dir, names[i])] \in [V -> V]

LEMMA InTurnIs ==
    ASSUME NEW V, NEW X, NEW walk, NEW dir, NEW names, NEW results,
           names \in Seq(X), results \in V, Walks(V, walk, dir, names)
    PROVE  /\ StepsOver(V, Len(names), Steppers(walk, dir, names))
           /\ \E h : /\ MadeInSteps(h, results, Steppers(walk, dir, names), Len(names))
                     /\ InTurn(walk, dir, names, results) = h[Len(names)]
<1> DEFINE n == Len(names)
           g == Steppers(walk, dir, names)
<1>1. n \in Nat
  BY LenProperties
<1>2. g \in [1..n -> [V -> V]] /\ \A i \in 1..n : g[i] = walk[Append(dir, names[i])]
  BY DEF Steppers, Walks
<1>3. \A i \in 0..n : i = 0 \/ i \in 1..n
  BY <1>1
<1> HIDE DEF g
<1>4. ASSUME NEW h PROVE InTurns(h, walk, dir, names, results) <=> MadeInSteps(h, results, g, n)
  <2>1. [i \in 0..n |-> IF i = 0 THEN results ELSE walk[Append(dir, names[i])][h[i - 1]]]
           = [i \in 0..n |-> IF i = 0 THEN results ELSE g[i][h[i - 1]]]
    BY <1>2, <1>3
  <2> QED BY <2>1, Zenon DEF InTurns, MadeInSteps, n
<1>5. \E h : InTurns(h, walk, dir, names, results)
  <2>1. \E h \in [0..n -> V] : MadeInSteps(h, results, g, n)
    <3> HIDE DEF n
    <3> QED BY <1>1, <1>2, StepsExist
  <2> QED BY <1>4, <2>1
<1> DEFINE h == CHOOSE h : InTurns(h, walk, dir, names, results)
<1>6. InTurns(h, walk, dir, names, results)
  BY <1>5, Zenon
<1>7. InTurn(walk, dir, names, results) = h[n]
  BY Zenon DEF InTurn, InTurns
<1> HIDE DEF h
<1>8. MadeInSteps(h, results, g, n)
  BY <1>4, <1>6
<1>9. StepsOver(V, n, g)
  BY <1>1, <1>2 DEF StepsOver
<1> QED BY <1>7, <1>8, <1>9 DEF g

LEMMA InTurnEmpty ==
    ASSUME NEW walk, NEW dir, NEW V, NEW results \in V
    PROVE  InTurn(walk, dir, <<>>, results) = results
<1> DEFINE e == <<>>
<1>1. e \in Seq(V) /\ Len(e) = 0
  BY EmptySeq
<1> HIDE DEF e
<1>2. Walks(V, walk, dir, e)
  BY <1>1 DEF Walks
<1>5. e \in Seq(V) /\ results \in V
  BY <1>1
<1>3. PICK h : /\ MadeInSteps(h, results, Steppers(walk, dir, e), Len(e))
               /\ InTurn(walk, dir, e, results) = h[Len(e)]
  BY <1>2, <1>5, InTurnIs
<1>4. h[0] = results
  BY <1>1, <1>3 DEF MadeInSteps
<1> QED BY <1>1, <1>3, <1>4 DEF e

\* One name further, the walk goes on from there.
TurnsTo(walk, dir, names, x, results) ==
    InTurn(walk, dir, Append(names, x), results)
        = walk[Append(dir, x)][InTurn(walk, dir, names, results)]

LEMMA InTurnAppend ==
    ASSUME NEW V, NEW X, NEW walk, NEW dir, NEW names, NEW x, NEW results,
           names \in Seq(X), x \in X, results \in V, Walks(V, walk, dir, Append(names, x))
    PROVE  InTurn(walk, dir, names, results) \in V /\ TurnsTo(walk, dir, names, x, results)
<1> DEFINE n  == Len(names)
           to == Append(names, x)
           m  == Len(to)
           g  == Steppers(walk, dir, names)
           e  == Steppers(walk, dir, to)
<1>1. n \in Nat
  BY LenProperties
<1>2. to \in Seq(X) /\ m = n + 1 /\ to[n + 1] = x /\ \A i \in 1..n : to[i] = names[i]
  BY AppendProperties
<1>3. Walks(V, walk, dir, to)
  OBVIOUS
<1> HIDE DEF to
<1>4. m \in Nat /\ n <= m /\ m \in 1..m /\ n \in 0..n /\ n \in 0..m /\ \A i \in 1..n : i \in 1..m
  BY <1>1, <1>2
<1>5. Walks(V, walk, dir, names)
  BY <1>2, <1>3, <1>4 DEF Walks
<1>6. PICK h : MadeInSteps(h, results, g, n) /\ InTurn(walk, dir, names, results) = h[n]
  BY <1>5, InTurnIs
<1>7. PICK k : MadeInSteps(k, results, e, m) /\ InTurn(walk, dir, to, results) = k[m]
  BY <1>2, <1>3, InTurnIs
<1>8. StepsOver(V, n, g) /\ StepsOver(V, m, e)
  BY <1>2, <1>3, <1>5, InTurnIs
<1>9. (\A i \in 1..n : g[i] = e[i]) /\ e[m] = walk[Append(dir, x)]
  BY <1>1, <1>2, <1>4 DEF Steppers
<1> HIDE DEF g, e, n, m
<1>10. h[n] = k[n]
  <2>1. MadeInSteps(h, results, g, n) /\ MadeInSteps(k, results, e, m)
    BY <1>6, <1>7
  <2> QED BY <2>1, <1>4, <1>8, <1>9, StepsSame
<1>11. k[m] = e[m][k[n]]
  <2>1. m = n + 1 /\ MadeInSteps(k, results, e, m)
    BY <1>2, <1>7
  <2>2. \A i \in 0..m : k[i] = IF i = 0 THEN results ELSE e[i][k[i - 1]]
    BY <2>1 DEF MadeInSteps
  <2>3. m \in 0..m /\ m # 0 /\ m - 1 = n
    BY <1>1, <1>4, <2>1
  <2> QED BY <2>2, <2>3
<1>12. h[n] \in V
  <2>1. \A i \in 0..n : h[i] \in V
    BY <1>6, <1>8, StepsAre
  <2> QED BY <1>4, <2>1
<1>13. InTurn(walk, dir, to, results) = walk[Append(dir, x)][InTurn(walk, dir, names, results)]
  BY <1>6, <1>7, <1>9, <1>10, <1>11
<1> QED BY <1>6, <1>12, <1>13 DEF to, TurnsTo

\* It depends on what the walk does with these names.
LEMMA InTurnSame ==
    ASSUME NEW V, NEW X, NEW f1, NEW f2, NEW dir, NEW names, NEW results,
           names \in Seq(X), results \in V, Walks(V, f1, dir, names),
           \A i \in 1..Len(names) : f1[Append(dir, names[i])] = f2[Append(dir, names[i])]
    PROVE  /\ InTurn(f1, dir, names, results) = InTurn(f2, dir, names, results)
           /\ InTurn(f1, dir, names, results) \in V
<1> DEFINE n == Len(names)
           g == Steppers(f1, dir, names)
           e == Steppers(f2, dir, names)
<1>1. n \in Nat /\ n <= n /\ n \in 0..n
  BY LenProperties
<1>2. Walks(V, f2, dir, names)
  BY DEF Walks
<1>3. PICK h : MadeInSteps(h, results, g, n) /\ InTurn(f1, dir, names, results) = h[n]
  BY InTurnIs
<1>4. PICK k : MadeInSteps(k, results, e, n) /\ InTurn(f2, dir, names, results) = k[n]
  BY <1>2, InTurnIs
<1>5. StepsOver(V, n, g) /\ StepsOver(V, n, e)
  BY <1>2, InTurnIs
<1>6. \A i \in 1..n : g[i] = e[i]
  BY DEF Steppers
<1> HIDE DEF g, e, n
<1>7. h[n] = k[n]
  <2>1. MadeInSteps(h, results, g, n) /\ MadeInSteps(k, results, e, n)
    BY <1>3, <1>4
  <2> QED BY <2>1, <1>1, <1>5, <1>6, StepsSame
<1>8. h[n] \in V
  <2>1. \A i \in 0..n : h[i] \in V
    BY <1>3, <1>5, StepsAre
  <2> QED BY <1>1, <2>1
<1> QED BY <1>3, <1>4, <1>7, <1>8

-----------------------------------------------------------------------------
\* find_files: the walk exists, and finds the open files

\* What the walk finds at a path, and what makes it up.
FindStep(f, t, root, pattern, max, path, results) ==
    LET kind == Metadata(t, path).kind IN
    IF Len(results) >= max \/ ~IsSafePath(t, root, path) THEN results
    ELSE IF kind = "dir" THEN InTurn(f, path, Entered(t, path), results)
    ELSE IF kind = "file" /\ Matches(pattern, Display(root, path)) THEN Append(results, Relative(root, path))
    ELSE results

FindRec(f, t, root, pattern, max) ==
    f = [path \in Paths |-> [results \in Seq(Paths) |->
            LET kind == Metadata(t, path).kind IN
            IF Len(results) >= max \/ ~IsSafePath(t, root, path) THEN results
            ELSE IF kind = "dir" THEN InTurn(f, path, Entered(t, path), results)
            ELSE IF kind = "file" /\ Matches(pattern, Display(root, path)) THEN Append(results, Relative(root, path))
            ELSE results]]

Finders == [Seq(Paths) -> Seq(Paths)]

\* Two walks that agree below a path.
AgreeBelow(t, m, path, f1, f2) ==
    \A q \in Paths : Height(t, m, q) < Height(t, m, path) => f1[q] = f2[q]

LEMMA RelativeType ==
    ASSUME NEW root \in Plain, NEW path \in Paths PROVE Relative(root, path) \in Paths
<1>1. Len(root) \in Nat /\ path \in Seq(STRING)
  BY LenProperties DEF Plain, Paths
<1>2. SubSeq(path, Len(root) + 1, Len(path)) \in Seq(STRING)
  BY <1>1, SuffixType
<1> QED BY <1>1, <1>2 DEF Relative, Paths

\* The names that a walk goes on to lead down.
LEMMA EnteredBelow ==
    ASSUME NEW t, IsTree(t), NEW m, Deep(t, m), NEW path \in Paths,
           Metadata(t, path).kind = "dir", NEW n \in ToSet(Entered(t, path))
    PROVE  /\ Append(path, n) \in Paths /\ n \in Known
           /\ Height(t, m, Append(path, n)) < Height(t, m, path)
           /\ Metadata(t, Append(path, n)) = Entry(t, path, n)
<1>1. n \in Known /\ Entry(t, path, n).kind # "link"
  BY EnteredAre
<1>2. n \in STRING
  BY <1>1, KnownWords DEF Words
<1>3. Append(path, n) \in Paths
  BY <1>2, PathTypes
<1>4. Height(t, m, Append(path, n)) < Height(t, m, path)
  BY <1>1, <1>2, HeightIs
<1>5. Metadata(t, Append(path, n)) = Entry(t, path, n)
  BY <1>1, <1>2, ChildIs
<1> QED BY <1>1, <1>3, <1>4, <1>5

LEMMA EnteredElement ==
    ASSUME NEW t, NEW path, NEW i \in 1..Len(Entered(t, path))
    PROVE  Entered(t, path)[i] \in ToSet(Entered(t, path))
<1>1. Entered(t, path) \in Seq(Known)
  BY EnteredAre
<1> QED BY <1>1, ToSetIs

LEMMA FindStepSame ==
    ASSUME NEW t, IsTree(t), NEW m, Deep(t, m), NEW root \in Plain, NEW pattern, NEW max,
           NEW path \in Paths, NEW results \in Seq(Paths),
           NEW f1 \in [Paths -> Finders], NEW f2 \in [Paths -> Finders],
           AgreeBelow(t, m, path, f1, f2)
    PROVE  /\ FindStep(f1, t, root, pattern, max, path, results)
                 = FindStep(f2, t, root, pattern, max, path, results)
           /\ FindStep(f1, t, root, pattern, max, path, results) \in Seq(Paths)
<1> DEFINE names == Entered(t, path)
<1>1. Append(results, Relative(root, path)) \in Seq(Paths)
  BY RelativeType, AppendProperties
<1>2. ASSUME Metadata(t, path).kind = "dir"
      PROVE  /\ InTurn(f1, path, names, results) = InTurn(f2, path, names, results)
             /\ InTurn(f1, path, names, results) \in Seq(Paths)
  <2>1. \A i \in 1..Len(names) : /\ Append(path, names[i]) \in Paths
                                 /\ Height(t, m, Append(path, names[i])) < Height(t, m, path)
    BY <1>2, EnteredElement, EnteredBelow
  <2>2. Walks(Seq(Paths), f1, path, names)
    BY <2>1 DEF Walks, Finders
  <2>3. \A i \in 1..Len(names) : f1[Append(path, names[i])] = f2[Append(path, names[i])]
    BY <2>1 DEF AgreeBelow
  <2>4. names \in Seq(Known) /\ results \in Seq(Paths)
    BY EnteredAre
  <2> HIDE DEF names
  <2> QED BY <2>2, <2>3, <2>4, InTurnSame
<1> QED BY <1>1, <1>2 DEF FindStep

LEMMA FindExists ==
    ASSUME NEW t, IsTree(t), NEW root \in Plain, NEW pattern, NEW max
    PROVE  \E f \in [Paths -> Finders] : FindRec(f, t, root, pattern, max)
<1>1. PICK m : Deep(t, m)
  BY TreesAreDeep
<1> DEFINE step(d, f) == [results \in Seq(Paths) |-> FindStep(f, t, root, pattern, max, d, results)]
           g == [d \in Paths |-> [f \in [Paths -> Finders] |-> step(d, f)]]
           height == [d \in Paths |-> Height(t, m, d)]
           v == [results \in Seq(Paths) |-> results]
           k == m + 1
<1>2. v \in Finders /\ k \in Nat
  BY <1>1 DEF Finders, Deep
<1>3. height \in [Paths -> 0..k]
  BY <1>1, HeightIs
<1>4. ASSUME NEW d \in Paths, NEW f1 \in [Paths -> Finders], NEW f2 \in [Paths -> Finders],
             AgreeBelow(t, m, d, f1, f2)
      PROVE  step(d, f1) = step(d, f2) /\ step(d, f1) \in Finders
  <2>1. ASSUME NEW results \in Seq(Paths)
        PROVE  /\ FindStep(f1, t, root, pattern, max, d, results)
                     = FindStep(f2, t, root, pattern, max, d, results)
               /\ FindStep(f1, t, root, pattern, max, d, results) \in Seq(Paths)
    BY <1>1, <1>4, FindStepSame
  <2> QED BY <2>1 DEF Finders
<1>5. \A d \in Paths, f \in [Paths -> Finders] : AgreeBelow(t, m, d, f, f)
  BY DEF AgreeBelow
<1>6. g \in [Paths -> [[Paths -> Finders] -> Finders]]
  <2>1. \A d \in Paths : \A f \in [Paths -> Finders] : step(d, f) \in Finders
    BY <1>4, <1>5
  <2> HIDE DEF step
  <2> QED BY <2>1
<1>7. \A d \in Paths : \A f1, f2 \in [Paths -> Finders] :
         (\A e \in Paths : height[e] < height[d] => f1[e] = f2[e]) => g[d][f1] = g[d][f2]
  <2>1. ASSUME NEW d \in Paths, NEW f1 \in [Paths -> Finders], NEW f2 \in [Paths -> Finders],
               \A e \in Paths : height[e] < height[d] => f1[e] = f2[e]
        PROVE  g[d][f1] = g[d][f2]
    <3>1. AgreeBelow(t, m, d, f1, f2)
      BY <2>1 DEF AgreeBelow
    <3>2. step(d, f1) = step(d, f2)
      BY <1>4, <3>1
    <3> HIDE DEF step
    <3> QED BY <3>2
  <2> QED BY <2>1
<1>8. \E f \in [Paths -> Finders] : f = [d \in Paths |-> g[d][f]]
  <2>1. v \in Finders /\ Descends(Paths, Finders, k, height, g)
    <3> HIDE DEF g, height, v, k
    <3> QED BY <1>2, <1>3, <1>6, <1>7, Zenon DEF Descends
  <2> HIDE DEF g, height, v, k
  <2> QED BY <2>1, RecursionExists
<1>9. PICK f \in [Paths -> Finders] : f = [d \in Paths |-> g[d][f]]
  BY <1>8
<1>10. f = [d \in Paths |-> step(d, f)]
  <2> HIDE DEF step
  <2> QED BY <1>9
<1> QED BY <1>10 DEF FindRec, FindStep

\* Results that are filled up to a number.
Fill(results, found, max) == IF Len(results) >= max THEN results ELSE Take(results \o found, max)

LEMMA TakeAll ==
    ASSUME NEW X, NEW s \in Seq(X), NEW n \in Nat, Len(s) <= n PROVE Take(s, n) = s
<1>1. Len(s) \in Nat
  BY LenProperties
<1>2. PICK m \in 0..Len(s) : /\ m = IF Len(s) < n THEN Len(s) ELSE n
                             /\ Take(s, n) = Prefix(s, m)
  BY TakeIs
<1>3. m = Len(s)
  BY <1>1, <1>2
<1> QED BY <1>2, <1>3, SubSeqFull DEF Prefix

LEMMA TakeFirst ==
    ASSUME NEW X, NEW s \in Seq(X), NEW u \in Seq(X), NEW n \in Nat, n <= Len(s)
    PROVE  Take(s \o u, n) = Take(s, n) /\ Len(Take(s, n)) = n
<1> DEFINE w == s \o u
           a == Take(s, n)
           b == Take(w, n)
<1>1. /\ Len(s) \in Nat /\ Len(u) \in Nat /\ w \in Seq(X) /\ Len(w) = Len(s) + Len(u)
      /\ \A i \in 1..(Len(s) + Len(u)) : w[i] = IF i <= Len(s) THEN s[i] ELSE u[i - Len(s)]
  BY ConcatProperties, LenProperties
<1> HIDE DEF w
<1>2. PICK m \in 0..Len(s) : /\ m = IF Len(s) < n THEN Len(s) ELSE n
                             /\ a \in Seq(X) /\ Len(a) = m /\ \A i \in 1..m : a[i] = s[i]
  BY TakeIs
<1>3. PICK k \in 0..Len(w) : /\ k = IF Len(w) < n THEN Len(w) ELSE n
                             /\ b \in Seq(X) /\ Len(b) = k /\ \A i \in 1..k : b[i] = w[i]
  BY <1>1, TakeIs
<1> HIDE DEF a, b
<1>4. m = n /\ k = n /\ Len(a) = n /\ Len(b) = n
  BY <1>1, <1>2, <1>3
<1>5. ASSUME NEW i \in 1..n PROVE b[i] = a[i]
  <2>1. i \in 1..(Len(s) + Len(u)) /\ i <= Len(s)
    BY <1>1
  <2> QED BY <1>1, <1>2, <1>3, <1>4, <2>1
<1>6. b = a
  BY <1>2, <1>3, <1>4, <1>5, SeqEqual
<1> QED BY <1>4, <1>6 DEF a, b, w

LEMMA FillIs ==
    ASSUME NEW X, NEW rs \in Seq(X), NEW max \in Nat \ {0}
    PROVE  /\ Fill(rs, <<>>, max) = rs
           /\ \A x \in X : Len(rs) < max => Fill(rs, <<x>>, max) = Append(rs, x)
           /\ \A s \in Seq(X) : Fill(rs, s, max) \in Seq(X)
<1>1. Len(rs) \in Nat /\ rs \o <<>> = rs
  BY LenProperties, ConcatEmptySeq
<1>2. Len(rs) < max => Take(rs, max) = rs
  BY <1>1, TakeAll
<1>3. Fill(rs, <<>>, max) = rs
  BY <1>1, <1>2 DEF Fill
<1>4. ASSUME NEW x \in X, Len(rs) < max PROVE Fill(rs, <<x>>, max) = Append(rs, x)
  <2>1. rs \o <<x>> = Append(rs, x) /\ Append(rs, x) \in Seq(X) /\ Len(Append(rs, x)) = Len(rs) + 1
    BY AppendProperties, AppendIsConcat
  <2> DEFINE w == Append(rs, x)
             e == rs \o <<x>>
  <2>2. w \in Seq(X) /\ Len(w) <= max /\ max \in Nat /\ e = w /\ ~(Len(rs) >= max)
    BY <1>1, <1>4, <2>1
  <2> HIDE DEF w, e
  <2>3. Take(w, max) = w
    BY <2>2, TakeAll
  <2>4. Fill(rs, <<x>>, max) = Take(e, max)
    BY <2>2, Zenon DEF Fill, e
  <2> QED BY <2>2, <2>3, <2>4 DEF w
<1>5. ASSUME NEW s \in Seq(X) PROVE Fill(rs, s, max) \in Seq(X)
  <2>1. rs \o s \in Seq(X)
    BY ConcatProperties
  <2>2. Take(rs \o s, max) \in Seq(X)
    BY <2>1, TakeIs
  <2> QED BY <2>2 DEF Fill
<1> QED BY <1>3, <1>4, <1>5

LEMMA FillFill ==
    ASSUME NEW X, NEW rs \in Seq(X), NEW s \in Seq(X), NEW u \in Seq(X), NEW max \in Nat \ {0}
    PROVE  Fill(Fill(rs, s, max), u, max) = Fill(rs, s \o u, max)
<1> DEFINE a == rs \o s
<1>1. Len(rs) \in Nat /\ a \in Seq(X) /\ Len(a) \in Nat /\ max \in Nat
  BY ConcatProperties, LenProperties
<1>2. a \o u = rs \o (s \o u)
  BY ConcatAssociative
<1> HIDE DEF a
<1>3. CASE Len(rs) >= max
  BY <1>3 DEF Fill
<1>4. CASE Len(rs) < max /\ max <= Len(a)
  <2>1. Take(a \o u, max) = Take(a, max) /\ Len(Take(a, max)) = max
    BY <1>1, <1>4, TakeFirst
  <2>2. Fill(rs, s, max) = Take(a, max) /\ Fill(rs, s \o u, max) = Take(a \o u, max)
    BY <1>1, <1>2, <1>4 DEF Fill, a
  <2> QED BY <1>1, <2>1, <2>2 DEF Fill
<1>5. CASE Len(rs) < max /\ Len(a) < max
  <2>1. Take(a, max) = a
    BY <1>1, <1>5, TakeAll
  <2>2. Fill(rs, s, max) = a /\ Fill(rs, s \o u, max) = Take(a \o u, max)
    BY <1>1, <1>2, <1>5, <2>1 DEF Fill, a
  <2> QED BY <1>1, <1>5, <2>2 DEF Fill
<1> QED BY <1>1, <1>3, <1>4, <1>5

LEMMA DistinctConcat ==
    ASSUME NEW X, NEW s \in Seq(X), NEW u \in Seq(X), Distinct(s), Distinct(u),
           ToSet(s) \cap ToSet(u) = {}
    PROVE  Distinct(s \o u)
<1> DEFINE w == s \o u
           n == Len(s)
<1>1. /\ n \in Nat /\ Len(u) \in Nat /\ w \in Seq(X) /\ Len(w) = n + Len(u)
      /\ \A i \in 1..(n + Len(u)) : w[i] = IF i <= n THEN s[i] ELSE u[i - n]
  BY ConcatProperties, LenProperties
<1>2. /\ DOMAIN w = 1..(n + Len(u)) /\ DOMAIN s = 1..n /\ DOMAIN u = 1..Len(u)
  BY <1>1, LenProperties
<1> HIDE DEF w
<1>3. /\ \A i, j \in 1..n : s[i] = s[j] => i = j
      /\ \A i, j \in 1..Len(u) : u[i] = u[j] => i = j
      /\ \A i \in 1..n, j \in 1..Len(u) : s[i] # u[j]
  <2>1. \A i \in 1..n, j \in 1..Len(u) : s[i] \in ToSet(s) /\ u[j] \in ToSet(u)
    BY ToSetIs
  <2> QED BY <1>2, <2>1 DEF Distinct
<1>4. ASSUME NEW i \in 1..(n + Len(u)), NEW j \in 1..(n + Len(u)), w[i] = w[j] PROVE i = j
  <2>1. CASE i <= n /\ j <= n
    BY <1>1, <1>3, <1>4, <2>1
  <2>2. CASE i <= n /\ j > n
    <3>1. i \in 1..n /\ j - n \in 1..Len(u)
      BY <1>1, <2>2
    <3>2. w[i] = s[i] /\ w[j] = u[j - n]
      BY <1>1, <2>2
    <3> QED BY <1>3, <1>4, <3>1, <3>2
  <2>3. CASE i > n /\ j <= n
    <3>1. j \in 1..n /\ i - n \in 1..Len(u)
      BY <1>1, <2>3
    <3>2. w[j] = s[j] /\ w[i] = u[i - n]
      BY <1>1, <2>3
    <3> QED BY <1>3, <1>4, <3>1, <3>2
  <2>4. CASE i > n /\ j > n
    <3>1. j - n \in 1..Len(u) /\ i - n \in 1..Len(u)
      BY <1>1, <2>4
    <3>2. w[j] = u[j - n] /\ w[i] = u[i - n]
      BY <1>1, <2>4
    <3>3. i - n = j - n
      BY <1>3, <1>4, <3>1, <3>2
    <3> QED BY <1>1, <3>3
  <2> QED BY <1>1, <2>1, <2>2, <2>3, <2>4
<1> QED BY <1>2, <1>4 DEF Distinct, w

\* The open files below a path that match, and those below some of the names in it.
Hits(t, root, pattern, path) ==
    {y \in Plain : \E s \in Seq(Known) : /\ y = path \o s /\ Reached(t, root, path, s)
                                         /\ Matches(pattern, Display(root, y))}
HitsIn(t, root, pattern, path, names) == UNION {Hits(t, root, pattern, Append(path, n)) : n \in names}

LEMMA HitIs ==
    ASSUME NEW t, IsTree(t), NEW root \in Plain, NEW pattern, NEW path \in Plain,
           NEW y \in Hits(t, root, pattern, path)
    PROVE  /\ y \in Plain /\ IsSafePath(t, root, y) /\ Metadata(t, y).kind = "file"
           /\ Matches(pattern, Display(root, y)) /\ root \o Relative(root, y) = y /\ Relative(root, y) \in Paths
<1>1. PICK s \in Seq(Known) : y = path \o s /\ Reached(t, root, path, s) /\ Matches(pattern, Display(root, y))
  BY DEF Hits
<1>2. y \in Plain /\ IsSafePath(t, root, y) /\ Metadata(t, y).kind = "file"
  BY <1>1, ReachedIs
<1>3. root \o Relative(root, y) = y /\ Relative(root, y) \in Plain
  BY <1>2, SafePathIs
<1> QED BY <1>1, <1>2, <1>3, PlainPaths

\* The files below two names are different.
LEMMA HitName ==
    ASSUME NEW t, NEW root, NEW pattern, NEW path \in Plain, NEW n \in Known,
           NEW y \in Hits(t, root, pattern, Append(path, n))
    PROVE  y[Len(path) + 1] = n
<1> DEFINE to == Append(path, n)
           k  == Len(path) + 1
<1>1. path \in Seq(Words) /\ n \in Words
  BY KnownWords DEF Plain
<1>2. to \in Seq(Words) /\ Len(to) = k /\ k \in Nat \ {0} /\ to[k] = n
  BY <1>1, AppendProperties, LenProperties
<1> HIDE DEF to, k
<1>3. PICK s \in Seq(Known) : y = to \o s
  BY DEF Hits, to
<1>4. s \in Seq(Words) /\ Len(s) \in Nat
  BY PlainPaths, LenProperties DEF Plain
<1>5. \A i \in 1..(Len(to) + Len(s)) : y[i] = IF i <= Len(to) THEN to[i] ELSE s[i - Len(to)]
  BY <1>2, <1>3, <1>4, ConcatProperties
<1>6. k \in 1..(Len(to) + Len(s)) /\ k <= Len(to)
  BY <1>2, <1>4
<1>7. y[k] = to[k]
  BY <1>5, <1>6
<1> QED BY <1>2, <1>7 DEF k

\* The hits in a directory are those below the names that are entered.
LEMMA HitsBelow ==
    ASSUME NEW t, IsTree(t), NEW root, NEW pattern, NEW path \in Plain,
           Metadata(t, path).kind = "dir", IsSafePath(t, root, path)
    PROVE  Hits(t, root, pattern, path)
              = HitsIn(t, root, pattern, path, ToSet(Entered(t, path)))
<1> DEFINE names == ToSet(Entered(t, path))
<1>1. \A n \in names : n \in Known
  BY EnteredAre
<1>2. \A n \in Known, s \in Seq(Known) : path \o (<<n>> \o s) = Append(path, n) \o s
  <2>1. path \in Seq(Words) /\ \A n \in Known : n \in Words
    BY KnownWords DEF Plain
  <2>2. \A s \in Seq(Known) : s \in Seq(Words)
    BY PlainPaths DEF Plain
  <2> QED BY <2>1, <2>2, AppendConcat
<1>3. ASSUME NEW y \in Hits(t, root, pattern, path)
      PROVE  \E n \in names : y \in Hits(t, root, pattern, Append(path, n))
  <2>1. PICK s \in Seq(Known) : /\ y = path \o s /\ Reached(t, root, path, s)
                                /\ Matches(pattern, Display(root, y)) /\ y \in Plain
    BY DEF Hits
  <2>2. s # <<>>
    <3>1. s = <<>> => Reached(t, root, path, <<>>)
      BY <2>1
    <3> QED BY <3>1, ReachedHere
  <2>3. PICK n \in Known, r \in Seq(Known) : s = <<n>> \o r
    BY <2>2, ConsOf
  <2>4. Reached(t, root, path, <<n>> \o r)
    BY <2>1, <2>3
  <2>5. n \in names /\ Reached(t, root, Append(path, n), r)
    BY <2>4, ReachedBelow
  <2>6. y = Append(path, n) \o r
    BY <1>2, <2>1, <2>3
  <2> QED BY <2>1, <2>5, <2>6 DEF Hits
<1>4. ASSUME NEW n \in names, NEW y \in Hits(t, root, pattern, Append(path, n))
      PROVE  y \in Hits(t, root, pattern, path)
  <2>1. PICK r \in Seq(Known) : /\ y = Append(path, n) \o r /\ Reached(t, root, Append(path, n), r)
                                /\ Matches(pattern, Display(root, y)) /\ y \in Plain
    BY DEF Hits
  <2>2. n \in Known /\ Reached(t, root, path, <<n>> \o r)
    BY <1>1, <2>1, ReachedBelow
  <2>3. <<n>> \o r \in Seq(Known) /\ y = path \o (<<n>> \o r)
    BY <1>2, <2>1, <2>2, ConsIs
  <2> QED BY <2>1, <2>2, <2>3 DEF Hits
<1> QED BY <1>3, <1>4 DEF HitsIn

LEMMA HitsHere ==
    ASSUME NEW t, IsTree(t), NEW root, NEW pattern, NEW path \in Plain,
           ~(Metadata(t, path).kind = "dir" /\ IsSafePath(t, root, path))
    PROVE  Hits(t, root, pattern, path) =
              IF /\ Metadata(t, path).kind = "file" /\ IsSafePath(t, root, path)
                 /\ Matches(pattern, Display(root, path))
              THEN {path} ELSE {}
<1> DEFINE e == <<>>
<1>1. e \in Seq(Known) /\ path \o e = path
  BY PlainTypes, EmptySeq
<1>2. Reached(t, root, path, e) <=> Metadata(t, path).kind = "file" /\ IsSafePath(t, root, path)
  BY ReachedHere
<1>3. \A s : Reached(t, root, path, s) => s = e
  BY ReachedInDir
<1> HIDE DEF e
<1> QED BY <1>1, <1>2, <1>3 DEF Hits

\* What the walk finds in order, whatever was found before and however many are wanted.
ShowsHits(root, s, hits) ==
    s \in Seq(Paths) /\ Distinct(s) /\ ToSet(s) = {Relative(root, y) : y \in hits}
FindsAt(t, root, pattern, path, s) ==
    /\ ShowsHits(root, s, Hits(t, root, pattern, path))
    /\ \A max \in Nat \ {0} : \A f : FindRec(f, t, root, pattern, max) =>
          f[path] \in Finders /\ \A rs \in Seq(Paths) : f[path][rs] = Fill(rs, s, max)
FindsInTurn(t, root, pattern, path, names, s) ==
    /\ ShowsHits(root, s, HitsIn(t, root, pattern, path, ToSet(names)))
    /\ \A max \in Nat \ {0} : \A f : FindRec(f, t, root, pattern, max) =>
          \A rs \in Seq(Paths) : InTurn(f, path, names, rs) = Fill(rs, s, max)

LEMMA FindRecIs ==
    ASSUME NEW f, NEW t, NEW root, NEW pattern, NEW max, NEW path,
           FindRec(f, t, root, pattern, max), path \in Paths
    PROVE  /\ \A rs \in Seq(Paths) : f[path][rs] = FindStep(f, t, root, pattern, max, path, rs)
           /\ (\A rs \in Seq(Paths) : f[path][rs] \in Seq(Paths)) => f[path] \in Finders
<1>1. f[path] = [rs \in Seq(Paths) |-> FindStep(f, t, root, pattern, max, path, rs)]
  BY Zenon DEF FindRec, FindStep
<1> QED BY <1>1 DEF Finders

\* One name further.
LEMMA HitsInNext ==
    ASSUME NEW t, IsTree(t), NEW root \in Plain, NEW pattern, NEW path \in Plain,
           NEW names \in SUBSET Known, NEW x \in Known, x \notin names,
           NEW s, NEW u,
           ShowsHits(root, s, HitsIn(t, root, pattern, path, names)),
           ShowsHits(root, u, Hits(t, root, pattern, Append(path, x)))
    PROVE  ShowsHits(root, s \o u, HitsIn(t, root, pattern, path, names \cup {x}))
<1> DEFINE H == HitsIn(t, root, pattern, path, names)
           K == Hits(t, root, pattern, Append(path, x))
<1>1. HitsIn(t, root, pattern, path, names \cup {x}) = H \cup K
  BY DEF HitsIn
<1>2. \A n \in Known : Append(path, n) \in Plain
  BY PlainTypes
<1>3. ASSUME NEW y \in H, NEW z \in K PROVE Relative(root, y) # Relative(root, z)
  <2>1. PICK n \in names : y \in Hits(t, root, pattern, Append(path, n))
    BY DEF HitsIn
  <2>2. n \in Known /\ n # x
    OBVIOUS
  <2>3. y[Len(path) + 1] = n
    BY <2>1, <2>2, HitName
  <2>4. z[Len(path) + 1] = x
    BY HitName
  <2>5. root \o Relative(root, y) = y
    BY <1>2, <2>1, <2>2, HitIs
  <2>6. root \o Relative(root, z) = z
    BY <1>2, HitIs
  <2> QED BY <2>2, <2>3, <2>4, <2>5, <2>6
<1> HIDE DEF H, K
<1>4. /\ s \in Seq(Paths) /\ Distinct(s) /\ ToSet(s) = {Relative(root, y) : y \in H}
      /\ u \in Seq(Paths) /\ Distinct(u) /\ ToSet(u) = {Relative(root, y) : y \in K}
  BY DEF ShowsHits, H, K
<1>5. ToSet(s) \cap ToSet(u) = {}
  BY <1>3, <1>4
<1>6. s \o u \in Seq(Paths)
  BY <1>4, ConcatProperties
<1>7. Distinct(s \o u)
  BY <1>4, <1>5, DistinctConcat
<1>8. ToSet(s \o u) = ToSet(s) \cup ToSet(u)
  BY <1>4, ToSetConcat
<1>9. ToSet(s \o u) = {Relative(root, y) : y \in H \cup K}
  BY <1>4, <1>8
<1> QED BY <1>1, <1>6, <1>7, <1>9 DEF ShowsHits

LEMMA FindTurn ==
    ASSUME NEW t, IsTree(t), NEW root \in Plain, NEW pattern, NEW path \in Plain,
           NEW X \in SUBSET Known, NEW names \in Seq(X), Distinct(names),
           \A n \in X : \E s : FindsAt(t, root, pattern, Append(path, n), s)
    PROVE  \E s : FindsInTurn(t, root, pattern, path, names, s)
<1> DEFINE S == {ns \in Seq(X) : Distinct(ns) => \E s : FindsInTurn(t, root, pattern, path, ns, s)}
<1>1. <<>> \in S
  <2> DEFINE e == <<>>
  <2>1. e \in Seq(Paths) /\ e \in Seq(X) /\ Distinct(e) /\ ToSet(e) = {}
    BY EmptySeq, ToSetEmpty
  <2>2. \A rs \in Seq(Paths) : \A f : InTurn(f, path, e, rs) = rs
    BY InTurnEmpty
  <2>3. \A rs \in Seq(Paths), max \in Nat \ {0} : Fill(rs, e, max) = rs
    BY FillIs
  <2>4. HitsIn(t, root, pattern, path, {}) = {}
    BY DEF HitsIn
  <2> HIDE DEF e
  <2>5. FindsInTurn(t, root, pattern, path, e, e)
    BY <2>1, <2>2, <2>3, <2>4 DEF FindsInTurn, ShowsHits
  <2> QED BY <2>1, <2>5 DEF e
<1>2. ASSUME NEW ns \in Seq(X) \cap S, NEW x \in X PROVE Append(ns, x) \in S
  <2> DEFINE to == Append(ns, x)
  <2>0. ns \in Seq(X) /\ to \in Seq(X) /\ ToSet(to) = ToSet(ns) \cup {x} /\ ToSet(ns) \subseteq X
        /\ (Distinct(to) <=> Distinct(ns) /\ x \notin ToSet(ns))
    <3>1. ns \in Seq(X)
      OBVIOUS
    <3> QED BY <3>1, AppendProperties, ToSetAppend, ToSetIs
  <2> HIDE DEF to
  <2> SUFFICES ASSUME Distinct(to) PROVE \E s : FindsInTurn(t, root, pattern, path, to, s)
    BY <2>0 DEF to
  <2>1. PICK s : FindsInTurn(t, root, pattern, path, ns, s)
    BY <1>2, <2>0
  <2>2. PICK u : FindsAt(t, root, pattern, Append(path, x), u)
    OBVIOUS
  <2>3. ShowsHits(root, s \o u, HitsIn(t, root, pattern, path, ToSet(to)))
    <3>1. /\ ShowsHits(root, s, HitsIn(t, root, pattern, path, ToSet(ns)))
          /\ ShowsHits(root, u, Hits(t, root, pattern, Append(path, x)))
      BY <2>1, <2>2 DEF FindsInTurn, FindsAt
    <3>2. ToSet(ns) \in SUBSET Known /\ x \in Known /\ x \notin ToSet(ns)
      BY <2>0
    <3>3. ShowsHits(root, s \o u, HitsIn(t, root, pattern, path, ToSet(ns) \cup {x}))
      BY <3>1, <3>2, HitsInNext
    <3> QED BY <2>0, <3>3
  <2>4. s \in Seq(Paths) /\ u \in Seq(Paths)
    BY <2>1, <2>2 DEF FindsInTurn, FindsAt, ShowsHits
  <2>5. ASSUME NEW max \in Nat \ {0}, NEW f, FindRec(f, t, root, pattern, max), NEW rs \in Seq(Paths)
        PROVE  InTurn(f, path, to, rs) = Fill(rs, s \o u, max)
    <3>1. \A n \in X : f[Append(path, n)] \in Finders
      BY <2>5 DEF FindsAt
    <3>2. \A i \in 1..Len(to) : to[i] \in X
      BY <2>0, ElementOfSeq
    <3>3. Walks(Seq(Paths), f, path, to)
      BY <3>1, <3>2 DEF Walks, Finders
    <3>4. InTurn(f, path, to, rs) = f[Append(path, x)][InTurn(f, path, ns, rs)]
      <4>1. Walks(Seq(Paths), f, path, Append(ns, x)) /\ ns \in Seq(X) /\ x \in X /\ rs \in Seq(Paths)
        BY <2>0, <3>3 DEF to
      <4>2. TurnsTo(f, path, ns, x, rs)
        BY <4>1, InTurnAppend
      <4> QED BY <4>2 DEF to, TurnsTo
    <3>5. InTurn(f, path, ns, rs) = Fill(rs, s, max)
      BY <2>1, <2>5 DEF FindsInTurn
    <3>6. Fill(rs, s, max) \in Seq(Paths)
      BY <2>4, FillIs
    <3>7. f[Append(path, x)][Fill(rs, s, max)] = Fill(Fill(rs, s, max), u, max)
      BY <2>2, <2>5, <3>6 DEF FindsAt
    <3>8. Fill(Fill(rs, s, max), u, max) = Fill(rs, s \o u, max)
      BY <2>4, FillFill
    <3> QED BY <3>4, <3>5, <3>7, <3>8
  <2>6. FindsInTurn(t, root, pattern, path, to, s \o u)
    BY <2>3, <2>5 DEF FindsInTurn
  <2> QED BY <2>6
<1>3. Seq(X) \subseteq S
  <2> HIDE DEF S
  <2> QED BY <1>1, <1>2, SeqInduction
<1> QED BY <1>3

\* By the height of a path: its directories' names are found first.
LEMMA FindsEverywhere ==
    ASSUME NEW t, IsTree(t), NEW root \in Plain, NEW pattern, NEW path \in Plain
    PROVE  \E s : FindsAt(t, root, pattern, path, s)
<1>1. PICK m : Deep(t, m)
  BY TreesAreDeep
<1> DEFINE S == {k \in Nat : \A p \in Plain : Height(t, m, p) < k
                                => \E s : FindsAt(t, root, pattern, p, s)}
<1>2. m \in Nat /\ \A p \in Plain : p \in Paths /\ Height(t, m, p) \in 0..(m + 1)
  BY <1>1, HeightIs, PlainPaths DEF Deep
<1>3. 0 \in S
  <2>1. \A p \in Plain : ~(Height(t, m, p) < 0)
    BY <1>2
  <2> QED BY <2>1
<1>4. ASSUME NEW k \in Nat, k \in S PROVE k + 1 \in S
  <2>1. ASSUME NEW p \in Plain, Height(t, m, p) < k + 1
        PROVE  \E s : FindsAt(t, root, pattern, p, s)
    <3> DEFINE H == Hits(t, root, pattern, p)
    <3>0. p \in Paths
      BY <1>2
    <3>1. CASE Metadata(t, p).kind = "dir" /\ IsSafePath(t, root, p)
      <4> DEFINE names == Entered(t, p)
                 X == ToSet(names)
      <4>1. names \in Seq(Known) /\ Distinct(names) /\ names \in Seq(X) /\ X \in SUBSET Known
        BY EnteredAre, ToSetIs
      <4>2. ASSUME NEW n \in X PROVE \E s : FindsAt(t, root, pattern, Append(p, n), s)
        <5>1. n \in Known /\ Height(t, m, Append(p, n)) < Height(t, m, p)
          BY <1>1, <3>0, <3>1, EnteredBelow
        <5>2. Append(p, n) \in Plain
          BY <5>1, PlainTypes
        <5>3. Height(t, m, Append(p, n)) < k
          BY <1>2, <2>1, <5>1, <5>2
        <5> QED BY <1>4, <5>2, <5>3
      <4> HIDE DEF X
      <4>3. \E s : FindsInTurn(t, root, pattern, p, names, s)
        BY <4>1, <4>2, FindTurn
      <4>4. PICK s : FindsInTurn(t, root, pattern, p, names, s)
        BY <4>3
      <4>5. ShowsHits(root, s, H) /\ s \in Seq(Paths)
        <5>1. H = HitsIn(t, root, pattern, p, ToSet(names))
          BY <3>1, HitsBelow
        <5> HIDE DEF H, names
        <5> QED BY <4>4, <5>1 DEF FindsInTurn, ShowsHits
      <4>6. ASSUME NEW max \in Nat \ {0}, NEW f, FindRec(f, t, root, pattern, max)
            PROVE  f[p] \in Finders /\ \A rs \in Seq(Paths) : f[p][rs] = Fill(rs, s, max)
        <5>1. /\ \A rs \in Seq(Paths) : f[p][rs] = FindStep(f, t, root, pattern, max, p, rs)
              /\ (\A rs \in Seq(Paths) : f[p][rs] \in Seq(Paths)) => f[p] \in Finders
          BY <3>0, <4>6, FindRecIs
        <5>2. ASSUME NEW rs \in Seq(Paths)
              PROVE  FindStep(f, t, root, pattern, max, p, rs) = Fill(rs, s, max)
          <6>1. InTurn(f, p, names, rs) = Fill(rs, s, max)
            BY <4>4, <4>6 DEF FindsInTurn
          <6> QED BY <3>1, <6>1 DEF FindStep, Fill
        <5>3. \A rs \in Seq(Paths) : Fill(rs, s, max) \in Seq(Paths)
          BY <4>5, FillIs
        <5> QED BY <5>1, <5>2, <5>3
      <4>7. FindsAt(t, root, pattern, p, s)
        BY <4>5, <4>6 DEF FindsAt
      <4> QED BY <4>7
    <3>2. CASE ~(Metadata(t, p).kind = "dir" /\ IsSafePath(t, root, p))
      <4> DEFINE file == /\ Metadata(t, p).kind = "file" /\ IsSafePath(t, root, p)
                         /\ Matches(pattern, Display(root, p))
                 shown == Relative(root, p)
                 s == IF file THEN <<shown>> ELSE <<>>
      <4>1. H = IF file THEN {p} ELSE {}
        BY <3>2, HitsHere
      <4>2. shown \in Paths /\ <<shown>> = Append(<<>>, shown)
        BY <3>0, RelativeType
      <4>3. ShowsHits(root, s, H) /\ s \in Seq(Paths)
        <5> DEFINE e == <<>>
        <5>1. e \in Seq(Paths) /\ ToSet(e) = {} /\ Distinct(e)
          BY EmptySeq, ToSetEmpty
        <5> HIDE DEF shown, H, file, e
        <5>6. ToSet(Append(e, shown)) = ToSet(e) \cup {shown} /\ Distinct(Append(e, shown))
          BY <4>2, <5>1, ToSetAppend
        <5>7. Append(e, shown) \in Seq(Paths)
          BY <4>2, <5>1, AppendProperties
        <5>2. /\ ToSet(Append(<<>>, shown)) = {shown} /\ Distinct(Append(<<>>, shown))
              /\ Append(<<>>, shown) \in Seq(Paths)
          BY <5>1, <5>6, <5>7 DEF e
        <5>3. CASE file
          BY <4>1, <4>2, <5>2, <5>3 DEF ShowsHits, shown
        <5>4. CASE ~file
          BY <4>1, <5>1, <5>4 DEF ShowsHits, e
        <5> QED BY <5>3, <5>4
      <4>6. ASSUME NEW max \in Nat \ {0}, NEW f, FindRec(f, t, root, pattern, max)
            PROVE  f[p] \in Finders /\ \A rs \in Seq(Paths) : f[p][rs] = Fill(rs, s, max)
        <5>1. /\ \A rs \in Seq(Paths) : f[p][rs] = FindStep(f, t, root, pattern, max, p, rs)
              /\ (\A rs \in Seq(Paths) : f[p][rs] \in Seq(Paths)) => f[p] \in Finders
          BY <3>0, <4>6, FindRecIs
        <5>2. ASSUME NEW rs \in Seq(Paths)
              PROVE  FindStep(f, t, root, pattern, max, p, rs) = Fill(rs, s, max)
          <6>1. Fill(rs, <<>>, max) = rs /\ (Len(rs) < max => Fill(rs, <<shown>>, max) = Append(rs, shown))
            BY <4>2, FillIs
          <6>2. FindStep(f, t, root, pattern, max, p, rs)
                   = IF Len(rs) < max /\ file THEN Append(rs, shown) ELSE rs
            BY <3>2, LenProperties DEF FindStep
          <6>3. CASE Len(rs) >= max
            BY <6>2, <6>3, LenProperties DEF Fill
          <6>4. CASE Len(rs) < max
            BY <6>1, <6>2, <6>4
          <6> QED BY <6>3, <6>4, LenProperties
        <5>3. \A rs \in Seq(Paths) : Fill(rs, s, max) \in Seq(Paths)
          BY <4>3, FillIs
        <5> QED BY <5>1, <5>2, <5>3
      <4>7. FindsAt(t, root, pattern, p, s)
        BY <4>3, <4>6 DEF FindsAt
      <4> QED BY <4>7
    <3> QED BY <3>1, <3>2
  <2> QED BY <2>1
<1>5. Nat \subseteq S
  <2> HIDE DEF S
  <2> QED BY <1>3, <1>4, Induction
<1>6. m + 2 \in S /\ Height(t, m, path) < m + 2
  BY <1>2, <1>5
<1> QED BY <1>6

LEMMA DistinctCount ==
    ASSUME NEW X, NEW s \in Seq(X), Distinct(s) PROVE Cardinality(ToSet(s)) = Len(s)
<1> DEFINE n == Len(s)
           T == ToSet(s)
<1>1. n \in Nat /\ T = {s[i] : i \in 1..n} /\ DOMAIN s = 1..n /\ s \in [1..n -> X]
  BY ToSetIs, LenProperties
<1>2. s \in [1..n -> T]
  BY <1>1
<1>3. s \in Injection(1..n, T)
  BY <1>1, <1>2 DEF Injection, IsInjective, Distinct
<1>4. s \in Surjection(1..n, T)
  BY <1>1, <1>2 DEF Surjection
<1>5. ExistsBijection(1..n, T)
  BY <1>3, <1>4 DEF ExistsBijection, Bijection
<1> QED BY <1>1, <1>5, FS_CountingElements

LEMMA FillEmpty ==
    ASSUME NEW X, NEW s \in Seq(X), NEW max \in Nat \ {0}
    PROVE  /\ Fill(<<>>, s, max) \in Seq(X) /\ ToSet(Fill(<<>>, s, max)) \subseteq ToSet(s)
           /\ Distinct(s) => Distinct(Fill(<<>>, s, max))
           /\ Len(Fill(<<>>, s, max)) < max => Fill(<<>>, s, max) = s
           /\ max = Len(s) + 1 => Fill(<<>>, s, max) = s
           /\ IsPrefix(Fill(<<>>, s, max), s)
<1> DEFINE e == <<>>
           out == Fill(e, s, max)
           n == Len(s)
<1>1. Len(e) = 0 /\ e \o s = s /\ n \in Nat /\ max \in Nat /\ max > 0
  BY ConcatEmptySeq, LenProperties
<1> HIDE DEF e
<1>2. out = Take(s, max)
  BY <1>1 DEF Fill
<1>3. PICK m \in 0..n : /\ m = IF n < max THEN n ELSE max
                        /\ Take(s, max) = Prefix(s, m)
                        /\ Take(s, max) \in Seq(X) /\ Len(Take(s, max)) = m
                        /\ \A i \in 1..m : Take(s, max)[i] = s[i]
  BY <1>1, TakeIs
<1> HIDE DEF out
<1>4. out \in Seq(X) /\ Len(out) = m /\ out = Prefix(s, m) /\ \A i \in 1..m : out[i] = s[i]
  BY <1>2, <1>3
<1>5. m \in Nat /\ m <= n /\ \A i \in 1..m : i \in 1..n
  BY <1>1
<1>6. DOMAIN out = 1..m /\ DOMAIN s = 1..n
  BY <1>4, LenProperties
<1>7. ToSet(out) \subseteq ToSet(s)
  BY <1>4, <1>5, <1>6 DEF ToSet
<1>8. Distinct(s) => Distinct(out)
  BY <1>4, <1>5, <1>6 DEF Distinct
<1>9. m = n => out = s
  BY <1>4, SubSeqFull DEF Prefix
<1>13. m = IF n < max THEN n ELSE max
  BY <1>3
<1>12. IsPrefix(out, s)
  <2>1. SubSeq(out, 1, Len(out)) = out
    BY <1>4, SubSeqFull
  <2>2. SubSeq(s, 1, Len(out)) = out
    BY <1>4 DEF Prefix
  <2> QED BY <1>4, <1>5, <2>1, <2>2 DEF IsPrefix
<1> HIDE DEF n
<1>10. Len(out) < max => m = n
  BY <1>1, <1>4, <1>5, <1>13
<1>11. max = n + 1 => m = n
  BY <1>1, <1>13
<1> QED BY <1>4, <1>7, <1>8, <1>9, <1>10, <1>11, <1>12 DEF out, e, n

\* The answer is a beginning of what there is to find.
LEMMA WalkFindIs ==
    ASSUME NEW t, IsTree(t), NEW root \in Plain, NEW start \in Plain, NEW pattern, NEW s,
           FindsAt(t, root, pattern, start, s), NEW max \in Nat \ {0}
    PROVE  WalkFind(t, root, start, pattern, max) = Fill(<<>>, s, max)
<1> DEFINE f == CHOOSE f : FindRec(f, t, root, pattern, max)
           e == <<>>
<1>1. FindRec(f, t, root, pattern, max)
  <2>1. \E g : FindRec(g, t, root, pattern, max)
    BY FindExists
  <2> QED BY <2>1, Zenon
<1>2. WalkFind(t, root, start, pattern, max) = f[start][e]
  BY Zenon DEF WalkFind, FindRec
<1>3. e \in Seq(Paths)
  BY EmptySeq
<1> HIDE DEF f, e
<1>4. f[start][e] = Fill(e, s, max)
  BY <1>1, <1>3 DEF FindsAt
<1> QED BY <1>2, <1>4 DEF e

\* What is wanted of a walk is what it finds.
LEMMA WantedIs ==
    ASSUME NEW t, IsTree(t), NEW root \in Plain, NEW start \in Plain, NEW pattern
    PROVE  {p \in {Relative(root, q) : q \in OpenFiles(t, root, start)} : Matches(pattern, Display(root, root \o p))}
              = {Relative(root, y) : y \in Hits(t, root, pattern, start)}
<1>1. OpenFiles(t, root, start) = {start \o s : s \in {s \in Seq(Known) : Reached(t, root, start, s)}}
  BY OpenFilesAre
<1>2. ASSUME NEW q \in OpenFiles(t, root, start), Matches(pattern, Display(root, root \o Relative(root, q)))
      PROVE  q \in Hits(t, root, pattern, start)
  <2>1. PICK s \in Seq(Known) : q = start \o s /\ Reached(t, root, start, s)
    BY <1>1
  <2>2. q \in Plain /\ IsSafePath(t, root, q)
    BY <2>1, ReachedIs
  <2>3. root \o Relative(root, q) = q
    BY <2>2, SafePathIs
  <2> QED BY <1>2, <2>1, <2>2, <2>3 DEF Hits
<1>3. ASSUME NEW y \in Hits(t, root, pattern, start)
      PROVE  y \in OpenFiles(t, root, start) /\ Matches(pattern, Display(root, root \o Relative(root, y)))
  <2>1. root \o Relative(root, y) = y /\ Matches(pattern, Display(root, y))
    BY HitIs
  <2>2. \E s \in Seq(Known) : y = start \o s /\ Reached(t, root, start, s)
    BY DEF Hits
  <2> QED BY <1>1, <2>1, <2>2
<1> QED BY <1>2, <1>3

LEMMA FindAgreesAlways ==
    ASSUME NEW t, IsTree(t), NEW r, r.root \in Plain, r.path \in Plain, r.limit \in Nat \ {0},
           r.out = WalkFind(t, r.root, r.path, r.what, r.limit)
    PROVE  FindAgrees(t, r)
<1> DEFINE wanted == {p \in OpenPaths(t, r) : Matches(r.what, Display(r.root, r.root \o p))}
<1>1. PICK s : FindsAt(t, r.root, r.what, r.path, s)
  BY FindsEverywhere
<1>2. s \in Seq(Paths) /\ Distinct(s)
  BY <1>1 DEF FindsAt, ShowsHits
<1>3. wanted = ToSet(s)
  <2>1. ToSet(s) = {Relative(r.root, y) : y \in Hits(t, r.root, r.what, r.path)}
    BY <1>1 DEF FindsAt, ShowsHits
  <2>2. wanted = {p \in {Relative(r.root, q) : q \in OpenFiles(t, r.root, r.path)} :
                     Matches(r.what, Display(r.root, r.root \o p))}
    BY DEF OpenPaths
  <2> HIDE DEF wanted
  <2> QED BY <2>1, <2>2, WantedIs
<1> HIDE DEF wanted
<1>4. r.out = Fill(<<>>, s, r.limit)
  BY <1>1, WalkFindIs
<1> DEFINE k == Cardinality(wanted) + 1
<1>5. k = Len(s) + 1 /\ k \in Nat \ {0}
  BY <1>2, <1>3, DistinctCount, LenProperties
<1> HIDE DEF k
<1>6. WalkFind(t, r.root, r.path, r.what, k) = Fill(<<>>, s, k)
  BY <1>1, <1>5, WalkFindIs
<1>7. Fill(<<>>, s, k) = s
  BY <1>2, <1>5, FillEmpty
<1>8. /\ r.out \in Seq(Paths) /\ ToSet(r.out) \subseteq ToSet(s) /\ Distinct(r.out)
      /\ Len(r.out) < r.limit => r.out = s
      /\ IsPrefix(r.out, s)
  BY <1>2, <1>4, FillEmpty
<1>9. Len(r.out) = Cardinality(ToSet(r.out))
  BY <1>8, DistinctCount
<1>10. IsPrefix(r.out, WalkFind(t, r.root, r.path, r.what, k))
  BY <1>6, <1>7, <1>8
<1>11. /\ ToSet(r.out) \subseteq wanted
       /\ Len(r.out) < r.limit => ToSet(r.out) = wanted
  BY <1>3, <1>8
<1> QED BY <1>9, <1>10, <1>11, Zenon DEF FindAgrees, wanted, k

-----------------------------------------------------------------------------
\* A search: the files of its walk are open files

LEMMA FlattenElements ==
    ASSUME NEW X, NEW ss \in Seq(Seq(X))
    PROVE  ToSet(FlattenSeq(ss)) = UNION {ToSet(s) : s \in ToSet(ss)}
<1> DEFINE S == {q \in Seq(Seq(X)) : ToSet(FlattenSeq(q)) = UNION {ToSet(s) : s \in ToSet(q)}}
<1>1. <<>> \in S
  <2> DEFINE e == <<>>
  <2>1. e \in Seq(Seq(X)) /\ FlattenSeq(e) = e /\ ToSet(e) = {}
    BY EmptySeq, FlattenEmpty, ToSetEmpty
  <2> HIDE DEF e
  <2>2. e \in S
    BY <2>1
  <2> QED BY <2>2 DEF e
<1>2. ASSUME NEW q \in Seq(Seq(X)) \cap S, NEW x \in Seq(X) PROVE Append(q, x) \in S
  <2>1. q \in Seq(Seq(X)) /\ Append(q, x) \in Seq(Seq(X))
    <3>1. q \in Seq(Seq(X))
      OBVIOUS
    <3> QED BY <3>1, AppendProperties
  <2>2. FlattenSeq(Append(q, x)) = FlattenSeq(q) \o x /\ FlattenSeq(q) \in Seq(X)
    BY <2>1, FlattenAppend, FlattenType
  <2>3. ToSet(FlattenSeq(q) \o x) = ToSet(FlattenSeq(q)) \cup ToSet(x)
    BY <2>2, ToSetConcat
  <2>4. ToSet(Append(q, x)) = ToSet(q) \cup {x}
    BY <2>1, ToSetAppend
  <2>5. ToSet(FlattenSeq(q)) = UNION {ToSet(s) : s \in ToSet(q)}
    BY <1>2
  <2> QED BY <2>1, <2>2, <2>3, <2>4, <2>5
<1>3. Seq(Seq(X)) \subseteq S
  <2> HIDE DEF S
  <2> QED BY <1>1, <1>2, SeqInduction
<1> QED BY <1>3

\* What a walk finds below each of the names.
Below(f, path, names) == [i \in DOMAIN names |-> f[Append(path, names[i])]]

BelowHas(f, path, names) ==
    \A y : y \in ToSet(Below(f, path, names)) <=> \E n \in ToSet(names) : y = f[Append(path, n)]

LEMMA BelowIs ==
    ASSUME NEW X, NEW Y, NEW f, NEW path, NEW names, names \in Seq(X),
           \A n \in ToSet(names) : f[Append(path, n)] \in Y
    PROVE  /\ Below(f, path, names) \in Seq(Y)
           /\ BelowHas(f, path, names)
<1> DEFINE b == Below(f, path, names)
<1>1. /\ DOMAIN names = 1..Len(names) /\ Len(names) \in Nat
      /\ ToSet(names) = {names[i] : i \in 1..Len(names)}
  BY ToSetIs, LenProperties
<1>2. \A i \in 1..Len(names) : b[i] = f[Append(path, names[i])] /\ b[i] \in Y
  BY <1>1 DEF Below
<1>3. DOMAIN b = 1..Len(names) /\ b \in [1..Len(names) -> Y]
  BY <1>1, <1>2 DEF Below
<1>4. b \in Seq(Y)
  BY <1>1, <1>3, SeqDef
<1>5. ToSet(b) = {b[i] : i \in 1..Len(names)}
  BY <1>3 DEF ToSet
<1> HIDE DEF b
<1>6. \A y : y \in ToSet(b) <=> \E n \in ToSet(names) : y = f[Append(path, n)]
  BY <1>1, <1>2, <1>5
<1> QED BY <1>4, <1>6 DEF b, BelowHas

\* The names that a search goes on to, and what it finds at a path.
Searching(t, root, path) ==
    Kept(Entered(t, path), {n \in Known \ GitIgnored : IsSafePath(t, root, Append(path, n))})
FilesStep(f, t, root, include, path) ==
    LET kind == Metadata(t, path).kind
    IN  IF kind = "dir" THEN FlattenSeq(Below(f, path, Searching(t, root, path)))
        ELSE IF /\ kind = "file" /\ IsSafePath(t, root, path)
                /\ Matches(include, Display(root, path))
        THEN <<path>> ELSE <<>>
FilesRec(f, t, root, include) ==
    f = [path \in Paths |->
            LET names == Kept(Entered(t, path),
                              {n \in Known \ GitIgnored : IsSafePath(t, root, Append(path, n))})
                kind == Metadata(t, path).kind
            IN  IF kind = "dir" THEN FlattenSeq([i \in DOMAIN names |-> f[Append(path, names[i])]])
                ELSE IF /\ kind = "file" /\ IsSafePath(t, root, path)
                        /\ Matches(include, Display(root, path))
                THEN <<path>> ELSE <<>>]

LEMMA SearchingAre ==
    ASSUME NEW t, NEW root, NEW path
    PROVE  /\ Searching(t, root, path) \in Seq(Known)
           /\ ToSet(Searching(t, root, path)) \subseteq ToSet(Entered(t, path))
           /\ \A n \in ToSet(Searching(t, root, path)) : n \in Known /\ IsSafePath(t, root, Append(path, n))
<1> DEFINE A == {n \in Known \ GitIgnored : IsSafePath(t, root, Append(path, n))}
<1>1. A \subseteq Known /\ \A n \in A : IsSafePath(t, root, Append(path, n))
  OBVIOUS
<1>2. Searching(t, root, path) = Kept(Entered(t, path), A) /\ Entered(t, path) \in Seq(Known)
  BY EnteredAre DEF Searching
<1> HIDE DEF A
<1> QED BY <1>1, <1>2, KeptIs

LEMMA FilesStepSame ==
    ASSUME NEW t, IsTree(t), NEW m, Deep(t, m), NEW root, NEW include, NEW path \in Paths,
           NEW f1 \in [Paths -> Seq(Paths)], NEW f2 \in [Paths -> Seq(Paths)],
           AgreeBelow(t, m, path, f1, f2)
    PROVE  /\ FilesStep(f1, t, root, include, path) = FilesStep(f2, t, root, include, path)
           /\ FilesStep(f1, t, root, include, path) \in Seq(Paths)
<1> DEFINE names == Searching(t, root, path)
<1>1. <<path>> \in Seq(Paths) /\ <<>> \in Seq(Paths)
  BY EmptySeq
<1>2. ASSUME Metadata(t, path).kind = "dir"
      PROVE  /\ Below(f1, path, names) = Below(f2, path, names)
             /\ FlattenSeq(Below(f1, path, names)) \in Seq(Paths)
  <2>1. \A n \in ToSet(names) : /\ Append(path, n) \in Paths
                                /\ Height(t, m, Append(path, n)) < Height(t, m, path)
    BY <1>2, SearchingAre, EnteredBelow
  <2>2. names \in Seq(Known) /\ \A i \in DOMAIN names : names[i] \in ToSet(names)
    BY SearchingAre DEF ToSet
  <2> HIDE DEF names
  <2>3. Below(f1, path, names) = Below(f2, path, names)
    BY <2>1, <2>2 DEF AgreeBelow, Below
  <2>4. \A n \in ToSet(names) : f1[Append(path, n)] \in Seq(Paths)
    BY <2>1
  <2>5. Below(f1, path, names) \in Seq(Seq(Paths))
    BY <2>2, <2>4, BelowIs
  <2> QED BY <2>3, <2>5, FlattenType
<1> QED BY <1>1, <1>2 DEF FilesStep

LEMMA FilesExist ==
    ASSUME NEW t, IsTree(t), NEW root, NEW include
    PROVE  \E f \in [Paths -> Seq(Paths)] : FilesRec(f, t, root, include)
<1>1. PICK m : Deep(t, m)
  BY TreesAreDeep
<1> DEFINE V == Seq(Paths)
           step(d, f) == FilesStep(f, t, root, include, d)
           g == [d \in Paths |-> [f \in [Paths -> V] |-> step(d, f)]]
           height == [d \in Paths |-> Height(t, m, d)]
           v == <<>>
           k == m + 1
<1>2. v \in V /\ k \in Nat
  BY <1>1, EmptySeq DEF Deep
<1>3. height \in [Paths -> 0..k]
  BY <1>1, HeightIs
<1>4. ASSUME NEW d \in Paths, NEW f1 \in [Paths -> V], NEW f2 \in [Paths -> V],
             AgreeBelow(t, m, d, f1, f2)
      PROVE  step(d, f1) = step(d, f2) /\ step(d, f1) \in V
  BY <1>1, <1>4, FilesStepSame
<1> HIDE DEF V
<1>5. \A d \in Paths, f \in [Paths -> V] : AgreeBelow(t, m, d, f, f)
  BY DEF AgreeBelow
<1>6. g \in [Paths -> [[Paths -> V] -> V]]
  <2>1. \A d \in Paths : \A f \in [Paths -> V] : step(d, f) \in V
    BY <1>4, <1>5
  <2> HIDE DEF step
  <2> QED BY <2>1
<1>7. \A d \in Paths : \A f1, f2 \in [Paths -> V] :
         (\A e \in Paths : height[e] < height[d] => f1[e] = f2[e]) => g[d][f1] = g[d][f2]
  <2>1. ASSUME NEW d \in Paths, NEW f1 \in [Paths -> V], NEW f2 \in [Paths -> V],
               \A e \in Paths : height[e] < height[d] => f1[e] = f2[e]
        PROVE  g[d][f1] = g[d][f2]
    <3>1. AgreeBelow(t, m, d, f1, f2)
      BY <2>1 DEF AgreeBelow
    <3>2. step(d, f1) = step(d, f2)
      BY <1>4, <3>1
    <3> HIDE DEF step
    <3> QED BY <3>2
  <2> QED BY <2>1
<1>8. PICK f \in [Paths -> V] : f = [d \in Paths |-> g[d][f]]
  <2>1. v \in V /\ Descends(Paths, V, k, height, g)
    <3> HIDE DEF g, height, v, k
    <3> QED BY <1>2, <1>3, <1>6, <1>7, Zenon DEF Descends
  <2> HIDE DEF g, height, v, k
  <2> QED BY <2>1, RecursionExists
<1>9. f = [d \in Paths |-> step(d, f)]
  <2> HIDE DEF step
  <2> QED BY <1>8
<1>10. FilesRec(f, t, root, include)
  BY <1>9, Zenon DEF FilesRec, FilesStep, Below, Searching
<1> QED BY <1>10 DEF V

LEMMA FilesRecIs ==
    ASSUME NEW f, NEW t, NEW root, NEW include, NEW path, FilesRec(f, t, root, include), path \in Paths
    PROVE  f[path] = FilesStep(f, t, root, include, path)
BY Zenon DEF FilesRec, FilesStep, Below, Searching

\* From a safe path, a search goes on to open files only.
FilesAt(f, t, root, path) ==
    /\ f[path] \in Seq(Plain)
    /\ IsSafePath(t, root, path) => ToSet(f[path]) \subseteq Hits(t, root, NoGlob, path)

LEMMA FilesEverywhere ==
    ASSUME NEW t, IsTree(t), NEW root, NEW include, NEW f, FilesRec(f, t, root, include),
           NEW path \in Plain
    PROVE  FilesAt(f, t, root, path)
<1>1. PICK m : Deep(t, m)
  BY TreesAreDeep
<1> DEFINE S == {k \in Nat : \A p \in Plain : Height(t, m, p) < k => FilesAt(f, t, root, p)}
<1>2. m \in Nat /\ \A p \in Plain : p \in Paths /\ Height(t, m, p) \in 0..(m + 1)
  BY <1>1, HeightIs, PlainPaths DEF Deep
<1>3. 0 \in S
  <2>1. \A p \in Plain : ~(Height(t, m, p) < 0)
    BY <1>2
  <2> QED BY <2>1
<1>4. ASSUME NEW k \in Nat, k \in S PROVE k + 1 \in S
  <2>1. ASSUME NEW p \in Plain, Height(t, m, p) < k + 1 PROVE FilesAt(f, t, root, p)
    <3> DEFINE H == Hits(t, root, NoGlob, p)
    <3>0. p \in Paths
      BY <1>2
    <3>1. f[p] = FilesStep(f, t, root, include, p)
      BY <3>0, FilesRecIs
    <3>2. CASE Metadata(t, p).kind = "dir"
      <4> DEFINE names == Searching(t, root, p)
                 b == Below(f, p, names)
      <4>1. /\ names \in Seq(Known) /\ ToSet(names) \subseteq ToSet(Entered(t, p))
            /\ \A n \in ToSet(names) : n \in Known /\ IsSafePath(t, root, Append(p, n))
        BY SearchingAre
      <4>2. ASSUME NEW n \in ToSet(names)
            PROVE  /\ f[Append(p, n)] \in Seq(Plain)
                   /\ ToSet(f[Append(p, n)]) \subseteq Hits(t, root, NoGlob, Append(p, n))
        <5>1. n \in Known /\ Height(t, m, Append(p, n)) < Height(t, m, p)
          BY <1>1, <3>0, <3>2, <4>1, EnteredBelow
        <5>2. Append(p, n) \in Plain
          BY <5>1, PlainTypes
        <5>3. Height(t, m, Append(p, n)) < k
          BY <1>2, <2>1, <5>1, <5>2
        <5>4. FilesAt(f, t, root, Append(p, n))
          BY <1>4, <5>2, <5>3
        <5> QED BY <4>1, <5>4 DEF FilesAt
      <4> HIDE DEF names
      <4>3. /\ b \in Seq(Seq(Plain))
            /\ \A y : y \in ToSet(b) <=> \E n \in ToSet(names) : y = f[Append(p, n)]
        <5>1. \A n \in ToSet(names) : f[Append(p, n)] \in Seq(Plain)
          BY <4>2
        <5>2. names \in Seq(Known)
          BY <4>1
        <5>3. Below(f, p, names) \in Seq(Seq(Plain))
          BY <5>1, <5>2, BelowIs
        <5>4. BelowHas(f, p, names)
          BY <5>1, <5>2, BelowIs
        <5> QED BY <5>3, <5>4 DEF BelowHas
      <4> HIDE DEF b
      <4>4. f[p] = FlattenSeq(b)
        BY <3>1, <3>2 DEF FilesStep, b, names
      <4>5. FlattenSeq(b) \in Seq(Plain) /\ ToSet(FlattenSeq(b)) = UNION {ToSet(s) : s \in ToSet(b)}
        BY <4>3, FlattenType, FlattenElements
      <4>6. ASSUME IsSafePath(t, root, p), NEW y \in ToSet(FlattenSeq(b)) PROVE y \in H
        <5>1. PICK n \in ToSet(names) : y \in ToSet(f[Append(p, n)])
          BY <4>3, <4>5
        <5>2. y \in Hits(t, root, NoGlob, Append(p, n)) /\ n \in ToSet(Entered(t, p))
          BY <4>1, <4>2, <5>1
        <5>3. H = HitsIn(t, root, NoGlob, p, ToSet(Entered(t, p)))
          BY <3>2, <4>6, HitsBelow
        <5> QED BY <5>2, <5>3 DEF HitsIn
      <4> QED BY <4>4, <4>5, <4>6 DEF FilesAt
    <3>3. CASE Metadata(t, p).kind # "dir"
      <4> DEFINE e == <<>>
      <4>1. /\ <<p>> \in Seq(Plain) /\ ToSet(<<p>>) = {p}
            /\ e \in Seq(Plain) /\ ToSet(e) = {}
        BY EmptySeq, ToSetEmpty DEF ToSet
      <4>2. H = IF Metadata(t, p).kind = "file" /\ IsSafePath(t, root, p) THEN {p} ELSE {}
        BY <3>3, HitsHere DEF Matches
      <4> HIDE DEF H
      <4>3. \/ f[p] = <<p>> /\ Metadata(t, p).kind = "file"
            \/ f[p] = e
        BY <3>1, <3>3 DEF FilesStep
      <4> HIDE DEF e
      <4> QED BY <4>1, <4>2, <4>3 DEF FilesAt, H
    <3> QED BY <3>2, <3>3
  <2> QED BY <2>1
<1>5. Nat \subseteq S
  <2> HIDE DEF S
  <2> QED BY <1>3, <1>4, Induction
<1>6. m + 2 \in S /\ Height(t, m, path) < m + 2
  BY <1>2, <1>5
<1> QED BY <1>6

LEMMA CollectFilesAre ==
    ASSUME NEW t, IsTree(t), NEW root, NEW start \in Plain, NEW include
    PROVE  /\ CollectFiles(t, root, start, include) \in Seq(Plain)
           /\ IsSafePath(t, root, start) =>
                 ToSet(CollectFiles(t, root, start, include)) \subseteq Hits(t, root, NoGlob, start)
<1> DEFINE f == CHOOSE f : FilesRec(f, t, root, include)
<1>1. FilesRec(f, t, root, include)
  <2>1. \E g : FilesRec(g, t, root, include)
    BY FilesExist
  <2> QED BY <2>1, Zenon
<1>2. CollectFiles(t, root, start, include) = f[start]
  BY Zenon DEF CollectFiles, FilesRec
<1> HIDE DEF f
<1>3. FilesAt(f, t, root, start)
  BY <1>1, FilesEverywhere
<1> QED BY <1>2, <1>3 DEF FilesAt

\* A call starts at a path that is safe.
LEMMA ResolvedIs ==
    ASSUME ReadsInv, NEW id, NEW input \in Inputs, Resolve(id, input).ok
    PROVE  /\ id \in DOMAIN workspaces /\ workspaces[id] \in Plain
           /\ Resolve(id, input).path \in Plain
           /\ IsSafePath(tree, workspaces[id], Resolve(id, input).path)
<1> DEFINE root == workspaces[id]
           path == Absolute(input, root)
           full == [abs |-> TRUE, names |-> path]
<1>1. id \in DOMAIN workspaces /\ Resolve(id, input) = ResolveIn(tree, root, input)
      /\ ResolveIn(tree, root, input).ok /\ ~IsDenied(root, Resolve(id, input).path)
  BY DEF Resolve, Refused
<1>2. root \in Plain /\ root \in Paths
  BY <1>1, PlainPaths, ElementOfSeq DEF ReadsInv
<1>3. path \in Plain
  BY <1>2, ReadsAssumption, AbsoluteType
<1>4. /\ Resolve(id, input).path = path /\ IsInside(path, root)
      /\ IsInside(Canonical(tree, path), Canonical(tree, root))
  <2> HIDE DEF root, path
  <2> QED BY <1>1 DEF ResolveIn, Path, Refused, path
<1>5. Absolute(full, root) = path
  <2> HIDE DEF path
  <2> QED BY <1>3, NormalizedSame DEF Absolute
<1>6. ResolveIn(tree, root, full) = Path(path)
  <2> HIDE DEF full, path
  <2> QED BY <1>4, <1>5 DEF ResolveIn
<1>7. IsSafePath(tree, root, path)
  <2> HIDE DEF path
  <2> QED BY <1>1, <1>4, <1>6 DEF IsSafePath, Path
<1> QED BY <1>1, <1>2, <1>3, <1>4, <1>7

-----------------------------------------------------------------------------
\* What a walk answered, it answers still: files change while there is no answer

\* A search, as a function of the tree: the files it searches, those it finds something in,
\* and what it shows of them.
Candidate(t, needle, f) ==
    IsCandidate(FileRecord(Metadata(t, f).text, MaxRead), needle.pattern, needle.caseSensitive)
Found(t, needle, f) ==
    FindsIn(needle.pattern, needle.caseSensitive, Take(Metadata(t, f).text, MaxRead + 1))
FoundIn(t, needle, files) == Kept(files, {f \in ToSet(files) : Found(t, needle, f)})
SearchedOf(t, files, needle, useIndex) ==
    IF ~useIndex THEN files ELSE Kept(files, {f \in ToSet(files) : Candidate(t, needle, f)})
FirstShown(root, hits, max) ==
    [i \in 1..(IF Len(hits) < max THEN Len(hits) ELSE max) |-> Relative(root, hits[i])]
SearchOf(t, root, start, needle, max, useIndex) ==
    FirstShown(root, FoundIn(t, needle,
        SearchedOf(t, CollectFiles(t, root, start, NoGlob), needle, useIndex)), max)

Walking == {"find_files", "project_tree", "search_files"}
Answered(t, r) ==
    /\ r.path \in Plain /\ IsSafePath(t, r.root, r.path) /\ r.limit \in Nat \ {0}
    /\ r.call = "find_files" => r.out = WalkFind(t, r.root, r.path, r.what, r.limit)
    /\ r.call = "project_tree" => r.out = WalkTree(t, r.root, r.path, r.limit)
    /\ r.call = "search_files" =>
          /\ r.what \in Needles
          /\ r.out = SearchOf(t, r.root, r.path, r.what, r.limit, IsIndexable(r.what.pattern))
AnswerInv ==
    reply.call \in Walking => reply.root \in ToSet(workspaces) /\ Answered(tree, reply)

LEMMA SearchIs ==
    ASSUME NEW root, NEW start, NEW needle, NEW max, NEW useIndex
    PROVE  SearchResult(root, start, needle, max, useIndex)
              = SearchOf(tree, root, start, needle, max, useIndex)
BY DEF SearchResult, Searched, SearchOf, FirstShown, FoundIn, SearchedOf, Found, Candidate

LEMMA OpenAnswers == ASSUME Open PROVE Fails \/ reply'.call = "open"
<1>1. PICK input \in Opens :
         LET allowed == AssertAllowed(tree, input, Cwd, Roots)
             root    == allowed.path
         IN IF ~allowed.ok \/ Metadata(tree, root).kind # "dir" THEN Fails
            ELSE IF root \in DOMAIN idByRoot
            THEN Answer("open", root, <<>>, <<>>, idByRoot[root], <<>>)
            ELSE /\ Len(workspaces) < MaxWorkspaces
                 /\ workspaces' = Append(workspaces, root)
                 /\ idByRoot' = [r \in DOMAIN idByRoot \cup {root} |->
                                    IF r = root THEN Len(workspaces) + 1 ELSE idByRoot[r]]
                 /\ reply' = [Nothing EXCEPT !.call = "open", !.root = root, !.limit = Len(workspaces) + 1]
                 /\ UNCHANGED tree
  BY DEF Open
<1> DEFINE root == AssertAllowed(tree, input, Cwd, Roots).path
           n == Len(workspaces) + 1
<1>2. \/ Fails \/ Answer("open", root, <<>>, <<>>, idByRoot[root], <<>>)
      \/ reply' = [Nothing EXCEPT !.call = "open", !.root = root, !.limit = n]
  BY <1>1
<1> HIDE DEF root, n
<1>3. Answer("open", root, <<>>, <<>>, idByRoot[root], <<>>) => reply'.call = "open"
  BY DEF Answer
<1>4. reply' = [Nothing EXCEPT !.call = "open", !.root = root, !.limit = n] => reply'.call = "open"
  BY DEF Nothing
<1> QED BY <1>2, <1>3, <1>4

LEMMA AnswerKept ==
    ASSUME NEW call, NEW root, NEW path, NEW what, NEW limit, NEW out,
           Answer(call, root, path, what, limit, out),
           call \in Walking => /\ root \in ToSet(workspaces)
                               /\ Answered(tree, [call |-> call, root |-> root, path |-> path,
                                                  what |-> what, limit |-> limit, out |-> out])
    PROVE  AnswerInv'
<1>1. /\ tree' = tree /\ workspaces' = workspaces
      /\ reply' = [call |-> call, root |-> root, path |-> path, what |-> what, limit |-> limit, out |-> out]
  BY DEF Answer
<1>2. ToSet(workspaces)' = ToSet(workspaces)
  BY <1>1 DEF ToSet
<1>3. Answered(tree, reply)' = Answered(tree, reply')
  BY <1>1 DEF Answered
<1> QED BY <1>1, <1>2, <1>3 DEF AnswerInv

LEMMA WalkAnswers ==
    ASSUME ReadsInv, NEW id, NEW input \in Inputs, Starts(id, input)
    PROVE  /\ \A pattern : \A max \in Limits : FindFiles(id, input, pattern, max) => AnswerInv'
           /\ \A depth \in Limits : ProjectTree(id, input, depth) => AnswerInv'
           /\ \A needle \in Needles, max \in Limits : SearchFiles(id, input, needle, max) => AnswerInv'

<1> DEFINE at == Resolve(id, input)
           root == workspaces[id]
<1>1. /\ id \in DOMAIN workspaces /\ root \in ToSet(workspaces)
      /\ at.path \in Plain /\ IsSafePath(tree, root, at.path)
  <2>1. at.ok
    BY DEF Starts
  <2> QED BY <2>1, ResolvedIs DEF ToSet
<1>2. \A max \in Limits : max \in Nat \ {0}
  BY ReadsAssumption
<1> HIDE DEF at, root
<1>3. ASSUME NEW pattern, NEW max \in Limits, FindFiles(id, input, pattern, max) PROVE AnswerInv'
  <2> DEFINE out == WalkFind(tree, root, at.path, pattern, max)
  <2>1. Answer("find_files", root, at.path, pattern, max, out)
    BY <1>3 DEF FindFiles, at, root
  <2> DEFINE r == [call |-> "find_files", root |-> root, path |-> at.path, what |-> pattern,
                   limit |-> max, out |-> out]
  <2>2. Answered(tree, r)
    BY <1>1, <1>2 DEF Answered
  <2> HIDE DEF out
  <2> QED BY <1>1, <2>1, <2>2, AnswerKept
<1>4. ASSUME NEW depth \in Limits, ProjectTree(id, input, depth) PROVE AnswerInv'
  <2> DEFINE out == WalkTree(tree, root, at.path, depth)
             e == <<>>
  <2>1. Answer("project_tree", root, at.path, e, depth, out)
    BY <1>4 DEF ProjectTree, at, root
  <2> DEFINE r == [call |-> "project_tree", root |-> root, path |-> at.path, what |-> e,
                   limit |-> depth, out |-> out]
  <2> HIDE DEF e
  <2>2. Answered(tree, r)
    BY <1>1, <1>2 DEF Answered
  <2> HIDE DEF out
  <2> QED BY <1>1, <2>1, <2>2, AnswerKept
<1>5. ASSUME NEW needle \in Needles, NEW max \in Limits, SearchFiles(id, input, needle, max)
      PROVE  AnswerInv'
  <2> DEFINE out == SearchOf(tree, root, at.path, needle, max, IsIndexable(needle.pattern))
  <2>1. Answer("search_files", root, at.path, needle, max, out)
    BY <1>5, SearchIs DEF SearchFiles, at, root
  <2> DEFINE r == [call |-> "search_files", root |-> root, path |-> at.path, what |-> needle,
                   limit |-> max, out |-> out]
  <2>2. Answered(tree, r)
    BY <1>1, <1>2 DEF Answered
  <2> HIDE DEF out
  <2> QED BY <1>1, <2>1, <2>2, AnswerKept
<1> QED BY <1>3, <1>4, <1>5

\* The answers that are not of a walk, and the steps that leave an answer as it is.
LEMMA AnswerInductive ==
    /\ Init => AnswerInv
    /\ ReadsInv /\ AnswerInv /\ [Next]_vars => AnswerInv'
<1>1. Init => AnswerInv
  BY DEF Init, Nothing, AnswerInv, Walking
<1>2. ASSUME ReadsInv, AnswerInv, [Next]_vars PROVE AnswerInv'
  <2>1. reply'.call \notin Walking => AnswerInv'
    BY DEF AnswerInv
  <2>2. ASSUME NEW call, NEW root, NEW path, NEW what, NEW limit, NEW out,
               Answer(call, root, path, what, limit, out), call \notin Walking
        PROVE  AnswerInv'
    BY <2>1, <2>2 DEF Answer
  <2>3. Fails => AnswerInv'
    BY <2>2 DEF Fails, Walking
  <2>4. CASE Open
    BY <2>1, <2>3, <2>4, OpenAnswers DEF Walking
  <2>5. CASE Change \/ Taken
    BY <2>1, <2>5 DEF Change, Taken, Nothing, Walking
  <2>6. CASE UNCHANGED vars
    <3>1. tree' = tree /\ workspaces' = workspaces /\ reply' = reply
      BY <2>6 DEF vars
    <3>2. Answered(tree, reply)' = Answered(tree, reply) /\ ToSet(workspaces)' = ToSet(workspaces)
      BY <3>1 DEF Answered, ToSet
    <3> QED BY <1>2, <3>1, <3>2 DEF AnswerInv
  <2>7. CASE Call
    <3>1. PICK id \in 1..(Len(workspaces) + 1), input \in Inputs :
             \/ ReadFile(id, input)
             \/ \E other \in Inputs, perFile \in Limits : ReadFiles(id, <<input, other, input>>, perFile)
             \/ ListDir(id, input)
             \/ \E pattern \in Patterns, max \in Limits : FindFiles(id, input, pattern, max)
             \/ \E depth \in Limits : ProjectTree(id, input, depth)
             \/ \E needle \in Needles, max \in Limits : SearchFiles(id, input, needle, max)
      BY <2>7 DEF Call
    <3>2. ReadFile(id, input) => AnswerInv'
      BY <2>2, <2>3 DEF ReadFile, Walking
    <3>3. ASSUME NEW inputs, NEW perFile, ReadFiles(id, inputs, perFile) PROVE AnswerInv'
      BY <2>2, <2>3, <3>3 DEF ReadFiles, Walking
    <3>4. ListDir(id, input) => AnswerInv'
      BY <2>2, <2>3 DEF ListDir, Walking
    <3>5. ASSUME NEW pattern, NEW max \in Limits, FindFiles(id, input, pattern, max) PROVE AnswerInv'
      <4>1. ~Starts(id, input) => Fails
        BY <3>5 DEF FindFiles
      <4>2. Starts(id, input) => AnswerInv'
        BY <1>2, <3>5, WalkAnswers
      <4> QED BY <2>3, <4>1, <4>2
    <3>6. ASSUME NEW depth \in Limits, ProjectTree(id, input, depth) PROVE AnswerInv'
      <4>1. ~Starts(id, input) => Fails
        BY <3>6 DEF ProjectTree
      <4>2. Starts(id, input) => AnswerInv'
        BY <1>2, <3>6, WalkAnswers
      <4> QED BY <2>3, <4>1, <4>2
    <3>7. ASSUME NEW needle \in Needles, NEW max \in Limits, SearchFiles(id, input, needle, max)
          PROVE  AnswerInv'
      <4>1. ~Starts(id, input) => Fails
        BY <3>7 DEF SearchFiles
      <4>2. Starts(id, input) => AnswerInv'
        BY <1>2, <3>7, WalkAnswers
      <4> QED BY <2>3, <4>1, <4>2
    <3> QED BY <3>1, <3>2, <3>3, <3>4, <3>5, <3>6, <3>7
  <2> QED BY <1>2, <2>4, <2>5, <2>6, <2>7 DEF Next
<1> QED BY <1>1, <1>2

\* What a read shows (handler.rs read_file, project.rs:203-260, files.rs:37-54) is told from
\* what it leaves out, for any trees of UTF-8 files, any inputs, limits and marker.
THEOREM ReadsTellAlways == Spec => []ReadsTell
<1>1. Init => ReadsTell
  BY DEF Init, Nothing, ReadsTell
<1>2. ASSUME ReadsInv, ReadsTell, [Next]_vars PROVE ReadsTell'
  <2>1. reply'.call \notin {"read_file", "read_files"} => ReadsTell'
    BY DEF ReadsTell
  <2>2. ASSUME NEW call, NEW root, NEW path, NEW what, NEW limit, NEW out,
               Answer(call, root, path, what, limit, out), call \notin {"read_file", "read_files"}
        PROVE  ReadsTell'
    BY <2>1, <2>2 DEF Answer
  <2>3. Fails => ReadsTell'
    BY <2>2 DEF Fails
  <2>4. CASE Open
    BY <2>1, <2>3, <2>4, OpenAnswers
  <2>5. CASE Change \/ Taken
    BY <2>1, <2>5 DEF Change, Taken, Nothing
  <2>6. CASE UNCHANGED vars
    BY <1>2, <2>6 DEF vars, ReadsTell
  <2>7. CASE Call
    <3>1. PICK id \in 1..(Len(workspaces) + 1), input \in Inputs :
             \/ ReadFile(id, input)
             \/ \E other \in Inputs, perFile \in Limits : ReadFiles(id, <<input, other, input>>, perFile)
             \/ ListDir(id, input)
             \/ \E pattern \in Patterns, max \in Limits : FindFiles(id, input, pattern, max)
             \/ \E depth \in Limits : ProjectTree(id, input, depth)
             \/ \E needle \in Needles, max \in Limits : SearchFiles(id, input, needle, max)
      BY <2>7 DEF Call
    <3>2. ReadFile(id, input) => ReadsTell'
      BY <1>2, ReadFileTells
    <3>3. ASSUME NEW other \in Inputs, NEW perFile \in Limits, ReadFiles(id, <<input, other, input>>, perFile)
          PROVE  ReadsTell'
      <4>1. <<input, other, input>> \in Seq(Inputs)
        OBVIOUS
      <4> QED BY <1>2, <3>3, <4>1, ReadFilesTells
    <3>4. ListDir(id, input) => ReadsTell'
      BY <2>2, <2>3 DEF ListDir
    <3>5. ASSUME NEW pattern, NEW max, FindFiles(id, input, pattern, max) PROVE ReadsTell'
      BY <2>2, <2>3, <3>5 DEF FindFiles
    <3>6. ASSUME NEW depth, ProjectTree(id, input, depth) PROVE ReadsTell'
      BY <2>2, <2>3, <3>6 DEF ProjectTree
    <3>7. ASSUME NEW needle, NEW max, SearchFiles(id, input, needle, max) PROVE ReadsTell'
      BY <2>2, <2>3, <3>7 DEF SearchFiles
    <3> QED BY <3>1, <3>2, <3>3, <3>4, <3>5, <3>6, <3>7
  <2> QED BY <1>2, <2>4, <2>5, <2>6, <2>7 DEF Next
<1> QED BY <1>1, <1>2, ReadsInductive, PTL DEF Spec

-----------------------------------------------------------------------------
\* What a search shows

LEMMA FirstShownIs ==
    ASSUME NEW root, NEW hits \in Seq(Plain), NEW max \in Nat
    PROVE  /\ \A p \in ToSet(FirstShown(root, hits, max)) :
                 \E i \in 1..Len(hits) : i <= max /\ p = Relative(root, hits[i])
           /\ \A i \in 1..Len(hits) : i <= max =>
                 Relative(root, hits[i]) \in ToSet(FirstShown(root, hits, max))
<1> DEFINE n == IF Len(hits) < max THEN Len(hits) ELSE max
           out == [i \in 1..n |-> Relative(root, hits[i])]
<1>1. n \in Nat /\ \A i : i \in 1..n <=> i \in 1..Len(hits) /\ i <= max
  BY LenProperties
<1>2. FirstShown(root, hits, max) = out
  BY DEF FirstShown
<1> HIDE DEF n
<1>3. ToSet(out) = {Relative(root, hits[i]) : i \in 1..n}
  BY DEF ToSet
<1> QED BY <1>1, <1>2, <1>3

LEMMA FoundAre ==
    ASSUME NEW t, IsTree(t), NEW root, NEW start \in Plain, IsSafePath(t, root, start),
           NEW needle, NEW useIndex
    PROVE  LET searched == SearchedOf(t, CollectFiles(t, root, start, NoGlob), needle, useIndex) IN
           /\ FoundIn(t, needle, searched) \in Seq(Plain)
           /\ ToSet(FoundIn(t, needle, searched)) \subseteq Hits(t, root, NoGlob, start)
<1> DEFINE files == CollectFiles(t, root, start, NoGlob)
           searched == SearchedOf(t, files, needle, useIndex)
           C == {f \in ToSet(files) : Candidate(t, needle, f)}
           F == {f \in ToSet(searched) : Found(t, needle, f)}
<1>1. files \in Seq(Plain) /\ ToSet(files) \subseteq Hits(t, root, NoGlob, start)
  BY CollectFilesAre
<1>2. searched = IF ~useIndex THEN files ELSE Kept(files, C)
  BY DEF SearchedOf
<1>3. FoundIn(t, needle, searched) = Kept(searched, F)
  BY DEF FoundIn
<1> HIDE DEF files, searched, C, F
<1>4. Kept(files, C) \in Seq(Plain) /\ ToSet(Kept(files, C)) = ToSet(files) \cap C
  BY <1>1, KeptIs
<1>5. searched \in Seq(Plain) /\ ToSet(searched) \subseteq ToSet(files)
  <2>1. searched = files \/ searched = Kept(files, C)
    BY <1>2
  <2> QED BY <1>1, <1>4, <2>1
<1>6. Kept(searched, F) \in Seq(Plain) /\ ToSet(Kept(searched, F)) = ToSet(searched) \cap F
  BY <1>5, KeptIs
<1> QED BY <1>1, <1>3, <1>5, <1>6 DEF files, searched

LEMMA SearchShows ==
    ASSUME NEW t, IsTree(t), NEW root, NEW start \in Plain, IsSafePath(t, root, start),
           NEW needle, NEW max \in Nat, NEW useIndex,
           NEW p \in ToSet(SearchOf(t, root, start, needle, max, useIndex))
    PROVE  \E y \in Hits(t, root, NoGlob, start) : p = Relative(root, y)
<1> DEFINE hits == FoundIn(t, needle,
                      SearchedOf(t, CollectFiles(t, root, start, NoGlob), needle, useIndex))
<1>1. hits \in Seq(Plain) /\ ToSet(hits) \subseteq Hits(t, root, NoGlob, start)
  BY FoundAre
<1>2. p \in ToSet(FirstShown(root, hits, max))
  BY DEF SearchOf
<1> HIDE DEF hits
<1>3. PICK i \in 1..Len(hits) : p = Relative(root, hits[i])
  BY <1>1, <1>2, FirstShownIs
<1>4. hits[i] \in ToSet(hits)
  BY <1>1, ToSetIs
<1> QED BY <1>1, <1>3, <1>4

LEMMA SearchAgreesAlways ==
    ASSUME NEW t, IsTree(t), NEW r, r.root \in Plain, r.path \in Plain, r.limit \in Nat,
           IsSafePath(t, r.root, r.path), NEW useIndex,
           r.out = SearchOf(t, r.root, r.path, r.what, r.limit, useIndex)
    PROVE  SearchAgrees(t, r)
<1>1. OpenPaths(t, r) = {Relative(r.root, y) : y \in Hits(t, r.root, NoGlob, r.path)}
  <2>1. {p \in {Relative(r.root, q) : q \in OpenFiles(t, r.root, r.path)} : Matches(NoGlob, Display(r.root, r.root \o p))}
           = {Relative(r.root, y) : y \in Hits(t, r.root, NoGlob, r.path)}
    BY WantedIs
  <2>2. {p \in OpenPaths(t, r) : Matches(NoGlob, Display(r.root, r.root \o p))} = OpenPaths(t, r)
    BY DEF Matches
  <2> QED BY <2>1, <2>2 DEF OpenPaths
<1>2. \A p \in ToSet(r.out) : \E y \in Hits(t, r.root, NoGlob, r.path) : p = Relative(r.root, y)
  BY SearchShows
<1> QED BY <1>1, <1>2 DEF SearchAgrees

\* A path none of whose names is shown otherwise is shown as it is.
Clear == Words \ DOMAIN ShownAs

LEMMA ShownClear == ASSUME NEW path \in Seq(Clear) PROVE Shown(path) = path
<1>1. \A i \in DOMAIN path : path[i] \in Clear
  BY LenProperties, ElementOfSeq
<1>2. [i \in DOMAIN path |-> Parts(path[i])]
         = [i \in DOMAIN path |-> IF path[i] \in Clear THEN <<path[i]>> ELSE <<>>]
  BY <1>1 DEF Parts, Clear
<1>3. Shown(path) = Kept(path, Clear)
  BY <1>2 DEF Shown, Kept
<1> DEFINE S == {q \in Seq(Clear) : Kept(q, Clear) = q}
<1>4. <<>> \in S
  BY KeptEmpty, EmptySeq
<1>5. ASSUME NEW q \in Seq(Clear) \cap S, NEW x \in Clear PROVE Append(q, x) \in S
  <2>1. Append(q, x) \in Seq(Clear) /\ q \in Seq(Clear) /\ Kept(q, Clear) = q
    BY <1>5, AppendProperties
  <2>2. Kept(Append(q, x), Clear) = Append(q, x)
    <3> HIDE DEF S
    <3> QED BY <2>1, KeptNext
  <2> QED BY <2>1, <2>2
<1>6. Seq(Clear) \subseteq S
  <2> HIDE DEF S
  <2> QED BY <1>4, <1>5, SeqInduction
<1> QED BY <1>3, <1>6

\* What is shown of a hit, if none of its names is shown otherwise, resolves to it.
LEMMA HitCanBeRead ==
    ASSUME ReadsInv, NEW id \in DOMAIN workspaces, NEW start \in Plain, NEW pattern,
           NEW y \in Hits(tree, workspaces[id], pattern, start),
           \A i \in DOMAIN Relative(workspaces[id], y) : Relative(workspaces[id], y)[i] \notin DOMAIN ShownAs
    PROVE  /\ Resolve(id, Parse(Display(workspaces[id], y))) = Path(y)
           /\ Metadata(tree, y).kind = "file"
<1> DEFINE root  == workspaces[id]
           names == Relative(root, y)
           rel   == [abs |-> FALSE, names |-> names]
<1>1. root \in Plain /\ IsTree(tree)
  BY ElementOfSeq DEF ReadsInv, TypeOK
<1> HIDE DEF root
<1>2. y \in Plain /\ IsSafePath(tree, root, y) /\ Metadata(tree, y).kind = "file"
  BY <1>1, HitIs DEF root
<1>3. ResolveIn(tree, root, rel) = Path(y) /\ ~IsDenied(root, y) /\ names \in Plain /\ IsInside(y, root)
  BY <1>1, <1>2, SafePathIs
<1>4. names \in Seq(Clear) /\ \A i \in DOMAIN names : names[i] # ""
  <2>1. \A i \in DOMAIN names : names[i] \notin DOMAIN ShownAs
    BY DEF root
  <2>2. names \in Seq(Words)
    BY <1>3 DEF Plain
  <2> HIDE DEF names
  <2>3. DOMAIN names = 1..Len(names) /\ Len(names) \in Nat /\ \A i \in DOMAIN names : names[i] \in Words
    BY <2>2, LenProperties, ElementOfSeq
  <2>4. \A i \in DOMAIN names : names[i] \in Clear
    BY <2>1, <2>3 DEF Clear
  <2>5. names = [i \in 1..Len(names) |-> names[i]]
    BY <2>2
  <2>6. names \in [1..Len(names) -> Clear]
    BY <2>3, <2>4, <2>5
  <2>7. names \in Seq(Clear)
    BY <2>3, <2>6
  <2> QED BY <2>3, <2>7 DEF Words
<1>5. Display(root, y) = names
  BY <1>3, <1>4, ShownClear DEF Display
<1>6. Parse(names) = rel
  <2> DEFINE slash == names # <<>> /\ Head(names) = ""
  <2>1. slash = FALSE
    <3> HIDE DEF names
    <3>1. names # <<>> => 1 \in DOMAIN names /\ Head(names) = names[1]
      <4>1. names \in Seq(Clear)
        BY <1>4
      <4>2. names # <<>> => Len(names) # 0 /\ Len(names) \in Nat /\ DOMAIN names = 1..Len(names)
        BY <4>1, EmptySeq, LenProperties
      <4> QED BY <4>2
    <3> QED BY <1>4, <3>1
  <2>2. Parse(names) = [abs |-> slash, names |-> names]
    BY DEF Parse
  <2> HIDE DEF slash, names
  <2> QED BY <2>1, <2>2
<1> HIDE DEF rel, names
<1>7. Resolve(id, rel) = Path(y)
  BY <1>3 DEF Resolve, Path, root
<1> QED BY <1>2, <1>5, <1>6, <1>7 DEF root

\* The registry knows the root of an answer, and what the answer was.
LEMMA AnswerIs ==
    ASSUME ReadsInv, AnswerInv, reply.call \in Walking
    PROVE  /\ idByRoot[reply.root] \in DOMAIN workspaces
           /\ workspaces[idByRoot[reply.root]] = reply.root
           /\ reply.root \in Plain /\ reply.path \in Plain /\ IsTree(tree) /\ tree \in Trees
           /\ Answered(tree, reply)
<1>1. PICK id \in DOMAIN workspaces : workspaces[id] = reply.root
  BY DEF AnswerInv, ToSet
<1>2. idByRoot[reply.root] = id
  BY <1>1 DEF ReadsInv, TypeOK
<1>3. reply.root \in Plain
  BY <1>1, ElementOfSeq DEF ReadsInv
<1>4. Answered(tree, reply) /\ reply.path \in Plain
  BY DEF AnswerInv, Answered
<1> QED BY <1>1, <1>2, <1>3, <1>4 DEF ReadsInv, TypeOK

\* The text with which find_files or a search shows a file (paths.rs:139-148) resolves to that
\* file (registry.rs:94-108, paths.rs:107-131), whatever links there are, if each name on its
\* path is UTF-8 and has no backslash.
THEOREM ShownPathsCanBeRead == Spec => []ShownCanBeRead
<1>1. ASSUME ReadsInv, AnswerInv PROVE ShownCanBeRead
  <2> SUFFICES ASSUME reply.call \in {"find_files", "search_files"}, NEW shown \in ToSet(reply.out),
                      \A i \in DOMAIN shown : shown[i] \notin DOMAIN ShownAs
               PROVE  LET file == reply.root \o shown IN
                      /\ Resolve(idByRoot[reply.root], Parse(Display(reply.root, file))) = Path(file)
                      /\ Metadata(tree, file).kind = "file"
    BY DEF ShownCanBeRead
  <2> DEFINE id == idByRoot[reply.root]
  <2>1. /\ id \in DOMAIN workspaces /\ workspaces[id] = reply.root
        /\ reply.root \in Plain /\ reply.path \in Plain /\ IsTree(tree)
        /\ Answered(tree, reply)
    BY <1>1, AnswerIs DEF Walking
  <2> HIDE DEF id
  <2>2. \E pattern : \E y \in Hits(tree, reply.root, pattern, reply.path) : shown = Relative(reply.root, y)
    <3>1. CASE reply.call = "find_files"
      <4>1. reply.limit \in Nat \ {0}
            /\ reply.out = WalkFind(tree, reply.root, reply.path, reply.what, reply.limit)
        BY <2>1, <3>1 DEF Answered
      <4>2. FindAgrees(tree, reply)
        BY <2>1, <4>1, FindAgreesAlways
      <4>3. shown \in {p \in OpenPaths(tree, reply) : Matches(reply.what, Display(reply.root, reply.root \o p))}
        BY <4>2 DEF FindAgrees
      <4>4. shown \in {Relative(reply.root, y) : y \in Hits(tree, reply.root, reply.what, reply.path)}
        BY <2>1, <4>3, WantedIs DEF OpenPaths
      <4> QED BY <4>4
    <3>2. CASE reply.call = "search_files"
      <4>1. /\ reply.limit \in Nat /\ IsSafePath(tree, reply.root, reply.path)
            /\ reply.out = SearchOf(tree, reply.root, reply.path, reply.what, reply.limit,
                                    IsIndexable(reply.what.pattern))
        BY <2>1, <3>2 DEF Answered
      <4> QED BY <2>1, <4>1, SearchShows
    <3> QED BY <3>1, <3>2
  <2>3. PICK pattern : \E y \in Hits(tree, reply.root, pattern, reply.path) : shown = Relative(reply.root, y)
    BY <2>2
  <2>4. PICK y \in Hits(tree, workspaces[id], pattern, reply.path) : shown = Relative(workspaces[id], y)
    BY <2>1, <2>3
  <2>5. reply.root \o shown = y
    <3>1. y \in Hits(tree, reply.root, pattern, reply.path)
      BY <2>1, <2>4
    <3>2. reply.root \o Relative(reply.root, y) = y
      <4> DEFINE root == reply.root
                 start == reply.path
      <4>1. IsTree(tree) /\ root \in Plain /\ start \in Plain /\ y \in Hits(tree, root, pattern, start)
        BY <2>1, <3>1
      <4> HIDE DEF root, start
      <4>2. root \o Relative(root, y) = y
        BY <4>1, HitIs
      <4> QED BY <4>2 DEF root
    <3> QED BY <2>1, <2>4, <3>2
  <2>6. /\ Resolve(id, Parse(Display(workspaces[id], y))) = Path(y)
        /\ Metadata(tree, y).kind = "file"
    BY <1>1, <2>1, <2>4, HitCanBeRead
  <2> QED BY <2>1, <2>5, <2>6 DEF id
<1> QED BY <1>1, ReadsInductive, AnswerInductive, PTL DEF Spec

-----------------------------------------------------------------------------
\* The tree of a directory shows the open files below it, as deep as it goes

Line == [kind : {"dir", "file"}, path : Paths]

\* The directories and files of a directory, what the tree shows at a path, and what makes
\* it up.
DirsOf(t, path)  == Kept(Entered(t, path), {n \in Known : Entry(t, path, n).kind = "dir"})
FilesOf(t, path) == Kept(Names(t, path), {n \in Known : Entry(t, path, n).kind = "file"})
DirLine(root, start, path) ==
    IF Len(path) - Len(start) > 0 THEN <<TreeLine("dir", root, path)>> ELSE <<>>
FileLines(root, path, files) == [i \in DOMAIN files |-> TreeLine("file", root, Append(path, files[i]))]
TreeStep(f, t, root, start, max, path) ==
    IF Len(path) - Len(start) > max \/ ~IsSafePath(t, root, path) \/ ~Exists(t, path) THEN <<>>
    ELSE IF Metadata(t, path).kind # "dir" THEN <<TreeLine("file", root, path)>>
    ELSE DirLine(root, start, path) \o FlattenSeq(Below(f, path, DirsOf(t, path)))
         \o FileLines(root, path, FilesOf(t, path))
TreeRec(f, t, root, start, max) ==
    f = [path \in Paths |->
            LET depth == Len(path) - Len(start)
                dirs  == Kept(Entered(t, path), {n \in Known : Entry(t, path, n).kind = "dir"})
                files == Kept(Names(t, path), {n \in Known : Entry(t, path, n).kind = "file"})
            IN  IF depth > max \/ ~IsSafePath(t, root, path) \/ ~Exists(t, path) THEN <<>>
                ELSE IF Metadata(t, path).kind # "dir" THEN <<TreeLine("file", root, path)>>
                ELSE (IF depth > 0 THEN <<TreeLine("dir", root, path)>> ELSE <<>>)
                     \o FlattenSeq([i \in DOMAIN dirs |-> f[Append(path, dirs[i])]])
                     \o [i \in DOMAIN files |-> TreeLine("file", root, Append(path, files[i]))]]

LEMMA TreeRecIs ==
    ASSUME NEW f, NEW t, NEW root, NEW start, NEW max, NEW path,
           TreeRec(f, t, root, start, max), path \in Paths
    PROVE  f[path] = TreeStep(f, t, root, start, max, path)
BY Zenon DEF TreeRec, TreeStep, DirLine, FileLines, Below, DirsOf, FilesOf

LEMMA DirsAndFilesAre ==
    ASSUME NEW t, NEW path
    PROVE  /\ DirsOf(t, path) \in Seq(Known) /\ FilesOf(t, path) \in Seq(Known)
           /\ ToSet(DirsOf(t, path)) = {n \in ToSet(Entered(t, path)) : Entry(t, path, n).kind = "dir"}
           /\ ToSet(FilesOf(t, path)) = {n \in Known : Entry(t, path, n).kind = "file"}
<1> DEFINE D == {n \in Known : Entry(t, path, n).kind = "dir"}
           F == {n \in Known : Entry(t, path, n).kind = "file"}
<1>1. /\ Entered(t, path) \in Seq(Known) /\ ToSet(Entered(t, path)) \subseteq Known
      /\ Names(t, path) \in Seq(Known)
      /\ ToSet(Names(t, path)) = {n \in Known : Entry(t, path, n).kind # "none"}
  BY EnteredAre, NamesAre
<1>2. DirsOf(t, path) = Kept(Entered(t, path), D) /\ FilesOf(t, path) = Kept(Names(t, path), F)
  BY DEF DirsOf, FilesOf
<1> HIDE DEF D, F
<1>3. /\ Kept(Entered(t, path), D) \in Seq(Known)
      /\ ToSet(Kept(Entered(t, path), D)) = ToSet(Entered(t, path)) \cap D
  BY <1>1, KeptIs
<1>4. /\ Kept(Names(t, path), F) \in Seq(Known)
      /\ ToSet(Kept(Names(t, path), F)) = ToSet(Names(t, path)) \cap F
  BY <1>1, KeptIs
<1> QED BY <1>1, <1>2, <1>3, <1>4 DEF D, F

LEMMA LineType ==
    ASSUME NEW root \in Plain, NEW path \in Paths, NEW kind \in {"dir", "file"}
    PROVE  TreeLine(kind, root, path) \in Line /\ TreeLine(kind, root, path).path = Relative(root, path)
BY RelativeType DEF TreeLine, Line

LEMMA FileLinesAre ==
    ASSUME NEW root \in Plain, NEW path \in Paths, NEW files \in Seq(Known)
    PROVE  /\ FileLines(root, path, files) \in Seq(Line)
           /\ \A n \in ToSet(files) : TreeLine("file", root, Append(path, n)) \in ToSet(FileLines(root, path, files))
<1> DEFINE out == FileLines(root, path, files)
<1>1. /\ DOMAIN files = 1..Len(files) /\ Len(files) \in Nat
      /\ ToSet(files) = {files[i] : i \in 1..Len(files)} /\ \A i \in 1..Len(files) : files[i] \in Known
  BY ToSetIs, LenProperties, ElementOfSeq
<1>2. \A n \in Known : n \in STRING /\ Append(path, n) \in Paths
  BY KnownWords, PathTypes DEF Words
<1>3. \A i \in 1..Len(files) : /\ out[i] = TreeLine("file", root, Append(path, files[i]))
                               /\ out[i] \in Line
  <2>1. \A n \in Known : TreeLine("file", root, Append(path, n)) \in Line
    BY <1>2, LineType
  <2> QED BY <1>1, <2>1 DEF FileLines
<1>4. DOMAIN out = 1..Len(files) /\ out \in [1..Len(files) -> Line]
  BY <1>1, <1>3 DEF FileLines
<1>5. out \in Seq(Line)
  BY <1>1, <1>4, SeqDef
<1>6. ToSet(out) = {out[i] : i \in 1..Len(files)}
  BY <1>4 DEF ToSet
<1> HIDE DEF out
<1> QED BY <1>1, <1>3, <1>5, <1>6 DEF out

LEMMA DirLineType ==
    ASSUME NEW root \in Plain, NEW start, NEW path \in Paths PROVE DirLine(root, start, path) \in Seq(Line)
<1>1. TreeLine("dir", root, path) \in Line
  BY LineType
<1> QED BY <1>1, EmptySeq DEF DirLine

LEMMA TreeStepType ==
    ASSUME NEW root \in Plain, NEW start, NEW path \in Paths, NEW t,
           NEW below \in Seq(Seq(Line))
    PROVE  DirLine(root, start, path) \o FlattenSeq(below) \o FileLines(root, path, FilesOf(t, path))
              \in Seq(Line)
<1> DEFINE a == DirLine(root, start, path)
           b == FlattenSeq(below)
           c == FileLines(root, path, FilesOf(t, path))
<1>1. a \in Seq(Line) /\ b \in Seq(Line) /\ c \in Seq(Line)
  <2>1. FilesOf(t, path) \in Seq(Known)
    BY DirsAndFilesAre
  <2> QED BY <2>1, DirLineType, FlattenType, FileLinesAre
<1> HIDE DEF a, b, c
<1> QED BY <1>1, ConcatProperties DEF a, b, c

LEMMA TreeStepSame ==
    ASSUME NEW t, IsTree(t), NEW m, Deep(t, m), NEW root \in Plain, NEW start, NEW max, NEW path \in Paths,
           NEW f1 \in [Paths -> Seq(Line)], NEW f2 \in [Paths -> Seq(Line)],
           AgreeBelow(t, m, path, f1, f2)
    PROVE  /\ TreeStep(f1, t, root, start, max, path) = TreeStep(f2, t, root, start, max, path)
           /\ TreeStep(f1, t, root, start, max, path) \in Seq(Line)
<1> DEFINE names == DirsOf(t, path)
           made(f) == DirLine(root, start, path) \o FlattenSeq(Below(f, path, names))
                      \o FileLines(root, path, FilesOf(t, path))
<1>1. <<TreeLine("file", root, path)>> \in Seq(Line) /\ <<>> \in Seq(Line)
  <2>1. TreeLine("file", root, path) \in Line
    BY LineType
  <2> QED BY <2>1, EmptySeq
<1>2. ASSUME Metadata(t, path).kind = "dir"
      PROVE  Below(f1, path, names) = Below(f2, path, names) /\ made(f1) \in Seq(Line)
  <2>1. \A n \in ToSet(names) : /\ Append(path, n) \in Paths
                                /\ Height(t, m, Append(path, n)) < Height(t, m, path)
    <3>1. ToSet(names) \subseteq ToSet(Entered(t, path))
      BY DirsAndFilesAre
    <3> QED BY <1>2, <3>1, EnteredBelow
  <2>2. names \in Seq(Known) /\ \A i \in DOMAIN names : names[i] \in ToSet(names)
    BY DirsAndFilesAre DEF ToSet
  <2> HIDE DEF names
  <2>3. Below(f1, path, names) = Below(f2, path, names)
    BY <2>1, <2>2 DEF AgreeBelow, Below
  <2>4. \A n \in ToSet(names) : f1[Append(path, n)] \in Seq(Line)
    BY <2>1
  <2>5. Below(f1, path, names) \in Seq(Seq(Line))
    BY <2>2, <2>4, BelowIs
  <2>6. made(f1) \in Seq(Line)
    BY <2>5, TreeStepType
  <2> QED BY <2>3, <2>6
<1>3. ASSUME NEW f
      PROVE  TreeStep(f, t, root, start, max, path) =
                IF Len(path) - Len(start) > max \/ ~IsSafePath(t, root, path) \/ ~Exists(t, path) THEN <<>>
                ELSE IF Metadata(t, path).kind # "dir" THEN <<TreeLine("file", root, path)>> ELSE made(f)
  BY DEF TreeStep
<1>4. Metadata(t, path).kind = "dir" => made(f1) = made(f2) /\ made(f1) \in Seq(Line)
  BY <1>2
<1> HIDE DEF made
<1> QED BY <1>1, <1>3, <1>4

LEMMA TreeExists ==
    ASSUME NEW t, IsTree(t), NEW root \in Plain, NEW start, NEW max
    PROVE  \E f \in [Paths -> Seq(Line)] : TreeRec(f, t, root, start, max)
<1>1. PICK m : Deep(t, m)
  BY TreesAreDeep
<1> DEFINE V == Seq(Line)
           step(d, f) == TreeStep(f, t, root, start, max, d)
           g == [d \in Paths |-> [f \in [Paths -> V] |-> step(d, f)]]
           height == [d \in Paths |-> Height(t, m, d)]
           v == <<>>
           k == m + 1
<1>2. v \in V /\ k \in Nat
  BY <1>1, EmptySeq DEF Deep
<1>3. height \in [Paths -> 0..k]
  BY <1>1, HeightIs
<1>4. ASSUME NEW d \in Paths, NEW f1 \in [Paths -> V], NEW f2 \in [Paths -> V],
             AgreeBelow(t, m, d, f1, f2)
      PROVE  step(d, f1) = step(d, f2) /\ step(d, f1) \in V
  BY <1>1, <1>4, TreeStepSame
<1> HIDE DEF V
<1>5. \A d \in Paths, f \in [Paths -> V] : AgreeBelow(t, m, d, f, f)
  BY DEF AgreeBelow
<1>6. g \in [Paths -> [[Paths -> V] -> V]]
  <2>1. \A d \in Paths : \A f \in [Paths -> V] : step(d, f) \in V
    BY <1>4, <1>5
  <2> HIDE DEF step
  <2> QED BY <2>1
<1>7. \A d \in Paths : \A f1, f2 \in [Paths -> V] :
         (\A e \in Paths : height[e] < height[d] => f1[e] = f2[e]) => g[d][f1] = g[d][f2]
  <2>1. ASSUME NEW d \in Paths, NEW f1 \in [Paths -> V], NEW f2 \in [Paths -> V],
               \A e \in Paths : height[e] < height[d] => f1[e] = f2[e]
        PROVE  g[d][f1] = g[d][f2]
    <3>1. AgreeBelow(t, m, d, f1, f2)
      BY <2>1 DEF AgreeBelow
    <3>2. step(d, f1) = step(d, f2)
      BY <1>4, <3>1
    <3> HIDE DEF step
    <3> QED BY <3>2
  <2> QED BY <2>1
<1>8. PICK f \in [Paths -> V] : f = [d \in Paths |-> g[d][f]]
  <2>1. v \in V /\ Descends(Paths, V, k, height, g)
    <3> HIDE DEF g, height, v, k
    <3> QED BY <1>2, <1>3, <1>6, <1>7, Zenon DEF Descends
  <2> HIDE DEF g, height, v, k
  <2> QED BY <2>1, RecursionExists
<1>9. f = [d \in Paths |-> step(d, f)]
  <2> HIDE DEF step
  <2> QED BY <1>8
<1>10. TreeRec(f, t, root, start, max)
  BY <1>9, Zenon DEF TreeRec, TreeStep, DirLine, FileLines, Below, DirsOf, FilesOf
<1> QED BY <1>10 DEF V

\* What is within the depth of the tree, and shown by its lines.
InDepth(start, path, s, max) ==
    IF s = <<>> THEN Len(path) - Len(start) <= max
    ELSE Len(path) + Len(s) - Len(start) <= max + 1
ShownBy(lines, path) == \E line \in ToSet(lines) : line.path = path
LinesAt(f, t, root, start, max, path) ==
    /\ f[path] \in Seq(Line)
    /\ \A s \in Seq(Known) : Reached(t, root, path, s) /\ InDepth(start, path, s, max)
                                => ShownBy(f[path], Relative(root, path \o s))

LEMMA ConsAppends ==
    ASSUME NEW path \in Plain, NEW n \in Known, NEW s \in Seq(Known)
    PROVE  path \o (<<n>> \o s) = Append(path, n) \o s /\ Len(<<n>> \o s) = Len(s) + 1
<1>1. path \in Seq(Words) /\ n \in Words /\ s \in Seq(Words)
  BY KnownWords, PlainPaths DEF Plain
<1> QED BY <1>1, AppendConcat, ConsIs

\* The lines of a directory show what the lines below its directories show, and its files.
LEMMA ShownByParts ==
    ASSUME NEW a \in Seq(Line), NEW below \in Seq(Seq(Line)), NEW c \in Seq(Line), NEW path,
           \/ \E s \in ToSet(below) : ShownBy(s, path)
           \/ ShownBy(c, path)
    PROVE  ShownBy(a \o FlattenSeq(below) \o c, path)
<1> DEFINE b == FlattenSeq(below)
<1>1. b \in Seq(Line) /\ ToSet(b) = UNION {ToSet(s) : s \in ToSet(below)}
  BY FlattenType, FlattenElements
<1> HIDE DEF b
<1>2. a \o b \in Seq(Line) /\ ToSet(a \o b) = ToSet(a) \cup ToSet(b)
  BY <1>1, ToSetConcat, ConcatProperties
<1>3. ToSet((a \o b) \o c) = ToSet(a \o b) \cup ToSet(c)
  <2> DEFINE ab == a \o b
  <2>1. ab \in Seq(Line)
    BY <1>2
  <2> HIDE DEF ab
  <2>2. ToSet(ab \o c) = ToSet(ab) \cup ToSet(c)
    BY <2>1, ToSetConcat
  <2> QED BY <2>2 DEF ab
<1>4. ToSet(b) \subseteq ToSet((a \o b) \o c) /\ ToSet(c) \subseteq ToSet((a \o b) \o c)
  BY <1>2, <1>3
<1>5. ASSUME NEW s \in ToSet(below), ShownBy(s, path) PROVE ShownBy((a \o b) \o c, path)
  <2>1. ToSet(s) \subseteq ToSet(b)
    BY <1>1
  <2> QED BY <1>4, <1>5, <2>1 DEF ShownBy
<1>6. ShownBy(c, path) => ShownBy((a \o b) \o c, path)
  BY <1>4 DEF ShownBy
<1> QED BY <1>5, <1>6 DEF b

\* Below a directory: a file in it, or a file below a directory in it.
LEMMA InDirectory ==
    ASSUME NEW t, IsTree(t), NEW root \in Plain, NEW start, NEW max \in Nat, Len(start) \in Nat,
           NEW path \in Plain, NEW n \in Known, NEW s \in Seq(Known),
           Reached(t, root, path, <<n>> \o s), InDepth(start, path, <<n>> \o s, max)
    PROVE  /\ Metadata(t, path).kind = "dir" /\ IsSafePath(t, root, path)
           /\ Len(path) - Len(start) <= max
           /\ \/ s = <<>> /\ n \in ToSet(FilesOf(t, path))
              \/ /\ n \in ToSet(DirsOf(t, path)) /\ Reached(t, root, Append(path, n), s)
                 /\ InDepth(start, Append(path, n), s, max)
<1> DEFINE u == <<n>> \o s
           to == Append(path, n)
           e == <<>>
<1>1. u # <<>> /\ Len(u) = Len(s) + 1 /\ Len(s) \in Nat /\ Len(path) \in Nat /\ Len(to) = Len(path) + 1
      /\ to \in Plain
  <2>1. path \in Seq(Words) /\ n \in Words
    BY KnownWords DEF Plain
  <2>2. Len(to) = Len(path) + 1 /\ Len(path) \in Nat
    BY <2>1, AppendProperties, LenProperties
  <2> QED BY <2>2, ConsIs, LenProperties, PlainTypes
<1>2. Metadata(t, path).kind = "dir" /\ IsSafePath(t, root, path)
  BY <1>1, ReachedInDir
<1>3. n \in ToSet(Entered(t, path)) /\ Reached(t, root, to, s)
  BY ReachedBelow
<1>4. Len(path) + Len(u) - Len(start) <= max + 1
  BY <1>1 DEF InDepth
<1> HIDE DEF u
<1>5. Len(path) - Len(start) <= max
  BY <1>1, <1>4
<1>6. Metadata(t, to) = Entry(t, path, n)
  <2>0. n \in Known /\ Entry(t, path, n).kind # "link"
    BY <1>3, EnteredAre
  <2>1. path \in Paths /\ n \in STRING /\ Entry(t, path, n).kind # "link"
    BY <2>0, PlainTypes, KnownWords DEF Words
  <2> QED BY <2>1, ChildIs
<1>7. Reached(t, root, to, e) => Metadata(t, to).kind = "file"
  BY <1>1, ReachedHere
<1>8. s # e => Metadata(t, to).kind = "dir"
  BY <1>1, <1>3, ReachedInDir
<1>9. /\ n \in ToSet(FilesOf(t, path)) <=> Entry(t, path, n).kind = "file"
      /\ n \in ToSet(DirsOf(t, path)) <=> Entry(t, path, n).kind = "dir"
  BY <1>3, DirsAndFilesAre
<1>10. s # e => InDepth(start, to, s, max)
  <2>1. Len(to) + Len(s) - Len(start) = Len(path) + Len(u) - Len(start)
    BY <1>1
  <2> HIDE DEF to
  <2> QED BY <1>4, <2>1 DEF InDepth
<1> HIDE DEF to, e
<1>11. CASE s = e
  BY <1>2, <1>3, <1>5, <1>6, <1>7, <1>9, <1>11 DEF e
<1>12. CASE s # e
  BY <1>2, <1>3, <1>5, <1>6, <1>8, <1>9, <1>10, <1>12 DEF to
<1> QED BY <1>11, <1>12

LEMMA TreeShows ==
    ASSUME NEW t, IsTree(t), NEW root \in Plain, NEW start, Len(start) \in Nat, NEW max \in Nat,
           NEW f, TreeRec(f, t, root, start, max), NEW path \in Plain
    PROVE  LinesAt(f, t, root, start, max, path)
<1>1. PICK m : Deep(t, m)
  BY TreesAreDeep
<1> DEFINE S == {k \in Nat : \A p \in Plain : Height(t, m, p) < k => LinesAt(f, t, root, start, max, p)}
<1>2. m \in Nat /\ \A p \in Plain : p \in Paths /\ Height(t, m, p) \in 0..(m + 1)
  BY <1>1, HeightIs, PlainPaths DEF Deep
<1>3. 0 \in S
  <2>1. \A p \in Plain : ~(Height(t, m, p) < 0)
    BY <1>2
  <2> QED BY <2>1
<1>4. ASSUME NEW k \in Nat, k \in S PROVE k + 1 \in S
  <2>1. ASSUME NEW p \in Plain, Height(t, m, p) < k + 1 PROVE LinesAt(f, t, root, start, max, p)
    <3> DEFINE cut == Len(p) - Len(start) > max \/ ~IsSafePath(t, root, p) \/ ~Exists(t, p)
               e == <<>>
    <3>0. p \in Paths /\ Len(p) \in Nat /\ e \in Seq(Line)
      BY <1>2, PathTypes, EmptySeq
    <3>1. f[p] = TreeStep(f, t, root, start, max, p)
      BY <3>0, TreeRecIs
    <3>2. CASE Metadata(t, p).kind = "dir"
      <4> DEFINE names == DirsOf(t, p)
                 files == FilesOf(t, p)
                 b == Below(f, p, names)
                 a == DirLine(root, start, p)
                 c == FileLines(root, p, files)
      <4>1. /\ names \in Seq(Known) /\ files \in Seq(Known)
            /\ ToSet(names) \subseteq ToSet(Entered(t, p)) /\ ToSet(files) \subseteq Known
        BY DirsAndFilesAre
      <4>2. ASSUME NEW n \in ToSet(names)
            PROVE  n \in Known /\ LinesAt(f, t, root, start, max, Append(p, n))
        <5>1. n \in Known /\ Height(t, m, Append(p, n)) < Height(t, m, p)
          BY <1>1, <3>0, <3>2, <4>1, EnteredBelow
        <5>2. Append(p, n) \in Plain
          BY <5>1, PlainTypes
        <5>3. Height(t, m, Append(p, n)) < k
          BY <1>2, <2>1, <5>1, <5>2
        <5> QED BY <1>4, <5>1, <5>2, <5>3
      <4> HIDE DEF names, files
      <4>3. b \in Seq(Seq(Line)) /\ BelowHas(f, p, names)
        <5>1. \A n \in ToSet(names) : f[Append(p, n)] \in Seq(Line)
          BY <4>2 DEF LinesAt
        <5>2. names \in Seq(Known)
          BY <4>1
        <5>3. Below(f, p, names) \in Seq(Seq(Line))
          BY <5>1, <5>2, BelowIs
        <5>4. BelowHas(f, p, names)
          BY <5>1, <5>2, BelowIs
        <5> QED BY <5>3, <5>4
      <4>4. a \in Seq(Line) /\ c \in Seq(Line)
            /\ \A n \in ToSet(files) : TreeLine("file", root, Append(p, n)) \in ToSet(c)
        <5>1. a \in Seq(Line)
          BY <3>0, DirLineType
        <5>2. files \in Seq(Known)
          BY <4>1
        <5> QED BY <3>0, <5>1, <5>2, FileLinesAre
      <4>5. \A n \in ToSet(names) : f[Append(p, n)] \in ToSet(b)
        BY <4>3 DEF BelowHas
      <4>6. f[p] = IF cut THEN e ELSE a \o FlattenSeq(b) \o c
        BY <3>1, <3>2 DEF TreeStep, names, files
      <4> HIDE DEF a, b, c, e
      <4>7. a \o FlattenSeq(b) \o c \in Seq(Line)
        <5>1. FlattenSeq(b) \in Seq(Line)
          BY <4>3, FlattenType
        <5> QED BY <4>4, <5>1, ConcatProperties
      <4>8. ASSUME NEW s \in Seq(Known), Reached(t, root, p, s), InDepth(start, p, s, max)
            PROVE  ShownBy(f[p], Relative(root, p \o s))
        <5>1. s # <<>>
          <6>1. s = <<>> => Reached(t, root, p, <<>>)
            BY <4>8
          <6> QED BY <3>2, <6>1, ReachedHere
        <5>2. PICK n \in Known, r \in Seq(Known) : s = <<n>> \o r
          BY <5>1, ConsOf
        <5>3. /\ IsSafePath(t, root, p) /\ Len(p) - Len(start) <= max
              /\ \/ r = <<>> /\ n \in ToSet(files)
                 \/ /\ n \in ToSet(names) /\ Reached(t, root, Append(p, n), r)
                    /\ InDepth(start, Append(p, n), r, max)
          <6>1. Reached(t, root, p, <<n>> \o r) /\ InDepth(start, p, <<n>> \o r, max)
            BY <4>8, <5>2
          <6> QED BY <6>1, InDirectory DEF files, names
        <5>4. ~cut
          BY <3>0, <3>2, <5>3 DEF Exists
        <5>5. p \o s = Append(p, n) \o r /\ Append(p, n) \in Plain
          BY <5>2, ConsAppends, PlainTypes
        <5>6. \/ \E q \in ToSet(b) : ShownBy(q, Relative(root, p \o s))
              \/ ShownBy(c, Relative(root, p \o s))
          <6>1. CASE r = <<>> /\ n \in ToSet(files)
            <7>1. Append(p, n) \o r = Append(p, n)
              BY <5>5, <6>1, PlainTypes
            <7>2. TreeLine("file", root, Append(p, n)) \in ToSet(c)
              BY <4>4, <6>1
            <7>3. TreeLine("file", root, Append(p, n)).path = Relative(root, p \o s)
              BY <5>5, <7>1 DEF TreeLine
            <7> QED BY <7>2, <7>3 DEF ShownBy
          <6>2. CASE /\ n \in ToSet(names) /\ Reached(t, root, Append(p, n), r)
                     /\ InDepth(start, Append(p, n), r, max)
            <7>1. ShownBy(f[Append(p, n)], Relative(root, Append(p, n) \o r))
              BY <4>2, <6>2 DEF LinesAt
            <7> QED BY <4>5, <5>5, <6>2, <7>1
          <6> QED BY <5>3, <6>1, <6>2
        <5>7. ShownBy(a \o FlattenSeq(b) \o c, Relative(root, p \o s))
          BY <4>3, <4>4, <5>6, ShownByParts
        <5> QED BY <4>6, <5>4, <5>7
      <4> QED BY <3>0, <4>6, <4>7, <4>8 DEF LinesAt, e
    <3>3. CASE Metadata(t, p).kind # "dir"
      <4> DEFINE line == TreeLine("file", root, p)
      <4>1. line \in Line /\ line.path = Relative(root, p)
        BY <3>0, LineType
      <4>2. <<line>> \in Seq(Line) /\ ToSet(<<line>>) = {line}
        BY <4>1 DEF ToSet
      <4>3. f[p] = IF cut THEN e ELSE <<line>>
        BY <3>1, <3>3 DEF TreeStep
      <4> HIDE DEF line
      <4>4. ASSUME NEW s \in Seq(Known), Reached(t, root, p, s), InDepth(start, p, s, max)
            PROVE  ShownBy(f[p], Relative(root, p \o s))
        <5>1. s = <<>>
          BY <3>3, <4>4, ReachedInDir
        <5>2. p \o s = p
          BY <5>1, PlainTypes
        <5>3. Metadata(t, p).kind = "file" /\ IsSafePath(t, root, p)
          <6>1. Reached(t, root, p, <<>>)
            BY <4>4, <5>1
          <6> QED BY <6>1, ReachedHere
        <5>4. ~cut
          BY <3>0, <4>4, <5>1, <5>3 DEF InDepth, Exists
        <5> QED BY <4>1, <4>2, <4>3, <5>2, <5>4 DEF ShownBy
      <4> QED BY <3>0, <4>2, <4>3, <4>4 DEF LinesAt
    <3> QED BY <3>2, <3>3
  <2> QED BY <2>1
<1>5. Nat \subseteq S
  <2> HIDE DEF S
  <2> QED BY <1>3, <1>4, Induction
<1>6. m + 2 \in S /\ Height(t, m, path) < m + 2
  BY <1>2, <1>5
<1> QED BY <1>6

LEMMA PlainLength ==
    ASSUME NEW a \in Plain, NEW b \in Plain
    PROVE  Len(a \o b) = Len(a) + Len(b) /\ Len(a) \in Nat /\ Len(b) \in Nat
BY ConcatProperties, LenProperties DEF Plain

LEMMA TreeAgreesAlways ==
    ASSUME NEW t, IsTree(t), NEW r, r.root \in Plain, r.path \in Plain, r.limit \in Nat,
           IsSafePath(t, r.root, r.path), r.out = WalkTree(t, r.root, r.path, r.limit)
    PROVE  TreeAgrees(t, r)
<1> DEFINE root  == r.root
           start == r.path
           max   == r.limit
           f     == CHOOSE f : TreeRec(f, t, root, start, max)
<1>1. TreeRec(f, t, root, start, max)
  <2>1. \E g : TreeRec(g, t, root, start, max)
    BY TreeExists
  <2> QED BY <2>1, Zenon
<1>2. r.out = f[start]
  <2>1. WalkTree(t, root, start, max) = f[start]
    BY Zenon DEF WalkTree, TreeRec
  <2> QED BY <2>1
<1> HIDE DEF f
<1>3. root \in Plain /\ start \in Plain /\ max \in Nat /\ IsSafePath(t, root, start) /\ Len(start) \in Nat
  BY LenProperties DEF Plain
<1>4. LinesAt(f, t, root, start, max, start)
  BY <1>1, <1>3, TreeShows
<1>5. OpenFiles(t, root, start) = {start \o s : s \in {s \in Seq(Known) : Reached(t, root, start, s)}}
  BY <1>3, OpenFilesAre
<1> HIDE DEF root, start, max
<1>6. ASSUME NEW q \in OpenFiles(t, root, start),
             Len(Relative(root, q)) <= Len(Relative(root, start)) + max + 1
      PROVE  ShownBy(f[start], Relative(root, q))
  <2>1. PICK s \in Seq(Known) : q = start \o s /\ Reached(t, root, start, s)
    BY <1>5
  <2>2. q \in Plain /\ IsSafePath(t, root, q) /\ s \in Plain
    BY <1>3, <2>1, ReachedIs, PlainPaths
  <2>3. /\ root \o Relative(root, q) = q /\ Relative(root, q) \in Plain
        /\ root \o Relative(root, start) = start /\ Relative(root, start) \in Plain
    BY <1>3, <2>2, SafePathIs
  <2>4. /\ Len(q) = Len(start) + Len(s) /\ Len(s) \in Nat
        /\ Len(q) = Len(root) + Len(Relative(root, q))
        /\ Len(start) = Len(root) + Len(Relative(root, start))
        /\ Len(root) \in Nat /\ Len(Relative(root, q)) \in Nat /\ Len(Relative(root, start)) \in Nat
    <3>1. Len(q) = Len(start) + Len(s) /\ Len(s) \in Nat
      BY <1>3, <2>1, <2>2, PlainLength
    <3>2. Len(q) = Len(root) + Len(Relative(root, q)) /\ Len(root) \in Nat /\ Len(Relative(root, q)) \in Nat
      BY <1>3, <2>3, PlainLength
    <3>3. Len(start) = Len(root) + Len(Relative(root, start)) /\ Len(Relative(root, start)) \in Nat
      BY <1>3, <2>3, PlainLength
    <3> QED BY <3>1, <3>2, <3>3
  <2>5. Len(s) <= max + 1
    BY <1>3, <1>6, <2>4
  <2>6. InDepth(start, start, s, max)
    BY <1>3, <2>4, <2>5 DEF InDepth
  <2> QED BY <1>4, <2>1, <2>6 DEF LinesAt
<1>7. OpenPaths(t, r) = {Relative(root, q) : q \in OpenFiles(t, root, start)}
  BY DEF OpenPaths, root, start
<1>8. ASSUME NEW p \in OpenPaths(t, r), Len(p) <= Len(Relative(root, start)) + max + 1
      PROVE  p \in {line.path : line \in ToSet(r.out)}
  <2>1. PICK q \in OpenFiles(t, root, start) : p = Relative(root, q)
    BY <1>7
  <2>2. ShownBy(f[start], p)
    BY <1>6, <1>8, <2>1
  <2> QED BY <1>2, <2>2 DEF ShownBy, start
<1> QED BY <1>8 DEF TreeAgrees, root, start, max

\* find_files, project_tree and search (search.rs:109-232, walker.rs:8-45) agree on the open
\* files below a start, for any trees, inputs and limits.
THEOREM WalksAlwaysAgree == Spec => []WalksAgree
<1>1. ASSUME ReadsInv, AnswerInv PROVE WalksAgree
  <2>1. CASE reply.call \notin Walking
    BY <2>1 DEF WalksAgree, Walking
  <2>2. CASE reply.call \in Walking
    <3>1. /\ reply.root \in Plain /\ reply.path \in Plain /\ IsTree(tree) /\ Answered(tree, reply)
      BY <1>1, <2>2, AnswerIs
    <3>2. reply.limit \in Nat \ {0} /\ reply.limit \in Nat /\ IsSafePath(tree, reply.root, reply.path)
      BY <3>1 DEF Answered
    <3>3. ASSUME reply.call = "find_files" PROVE FindAgrees(tree, reply)
      <4>1. reply.out = WalkFind(tree, reply.root, reply.path, reply.what, reply.limit)
        BY <3>1, <3>3 DEF Answered
      <4> QED BY <3>1, <3>2, <4>1, FindAgreesAlways
    <3>4. ASSUME reply.call = "project_tree" PROVE TreeAgrees(tree, reply)
      <4>1. reply.out = WalkTree(tree, reply.root, reply.path, reply.limit)
        BY <3>1, <3>4 DEF Answered
      <4> QED BY <3>1, <3>2, <4>1, TreeAgreesAlways
    <3>5. ASSUME reply.call = "search_files" PROVE SearchAgrees(tree, reply)
      <4>1. reply.out = SearchOf(tree, reply.root, reply.path, reply.what, reply.limit,
                                 IsIndexable(reply.what.pattern))
        BY <3>1, <3>5 DEF Answered
      <4> QED BY <3>1, <3>2, <4>1, SearchAgreesAlways
    <3> QED BY <3>3, <3>4, <3>5 DEF WalksAgree
  <2> QED BY <2>1, <2>2
<1> QED BY <1>1, ReadsInductive, AnswerInductive, PTL DEF Spec

-----------------------------------------------------------------------------
\* The trigrams: what the index may leave out is no file that the matcher finds
\* something in.

\* The windows of a part of a text are windows of the text.
LEMMA PartTrigrams ==
    ASSUME NEW part \in Seq(Bytes), NEW bytes \in Seq(Bytes), Occurs(part, bytes)
    PROVE  TrigramsOf(part) \subseteq TrigramsOf(bytes)
<1>1. PICK k \in 0..Len(bytes) : OccursAt(part, bytes, k)
  BY DEF Occurs
<1>2. ASSUME NEW i \in 1..(Len(part) - 2)
      PROVE  <<part[i], part[i + 1], part[i + 2]>> \in TrigramsOf(bytes)
  <2>1. k \in Nat /\ i \in Nat /\ Len(part) \in Nat /\ Len(bytes) \in Nat
    OBVIOUS
  <2>2. {i, i + 1, i + 2} \subseteq 1..Len(part)
    BY <2>1
  <2>3. /\ bytes[k + i] = part[i]
        /\ bytes[k + (i + 1)] = part[i + 1]
        /\ bytes[k + (i + 2)] = part[i + 2]
        /\ k + Len(part) <= Len(bytes)
    BY <1>1, <2>2 DEF OccursAt
  <2>4. /\ k + (i + 1) = (k + i) + 1 /\ k + (i + 2) = (k + i) + 2
        /\ k + i \in 1..(Len(bytes) - 2)
    BY <2>1, <2>3
  <2>5. <<part[i], part[i + 1], part[i + 2]>>
            = <<bytes[k + i], bytes[(k + i) + 1], bytes[(k + i) + 2]>>
    BY <2>3, <2>4
  <2> QED BY <2>4, <2>5 DEF TrigramsOf
<1> QED BY <1>2 DEF TrigramsOf

\* A text in lower case is a text of the same length.
LEMMA FoldLength ==
    ASSUME NEW bytes \in Seq(Bytes)
    PROVE  /\ Fold(bytes) \in Seq(Bytes) /\ Len(Fold(bytes)) = Len(bytes)
           /\ DOMAIN Fold(bytes) = 1..Len(bytes)
           /\ \A i \in 1..Len(bytes) : Fold(bytes)[i] = Lower[bytes[i]]
<1>1. DOMAIN bytes = 1..Len(bytes) /\ \A i \in 1..Len(bytes) : bytes[i] \in Bytes
  OBVIOUS
<1>2. \A i \in 1..Len(bytes) : Lower[bytes[i]] \in Bytes
  BY <1>1, BytesAssumption
<1> QED BY <1>1, <1>2 DEF Fold

\* What occurs in a text occurs in it in lower case.
LEMMA FoldOccurs ==
    ASSUME NEW part \in Seq(Bytes), NEW bytes \in Seq(Bytes), Occurs(part, bytes)
    PROVE  Occurs(Fold(part), Fold(bytes))
<1>1. PICK k \in 0..Len(bytes) : OccursAt(part, bytes, k)
  BY DEF Occurs
<1>2. Len(part) \in Nat /\ Len(bytes) \in Nat /\ k \in Nat
  OBVIOUS
<1>3. k + Len(Fold(part)) <= Len(Fold(bytes))
  BY <1>1, FoldLength DEF OccursAt
<1>4. ASSUME NEW i \in 1..Len(Fold(part))
      PROVE  Fold(bytes)[k + i] = Fold(part)[i]
  <2>1. i \in 1..Len(part) /\ k + i \in 1..Len(bytes)
    BY <1>1, <1>2, FoldLength DEF OccursAt
  <2>2. bytes[k + i] = part[i]
    BY <1>1, <2>1 DEF OccursAt
  <2> QED BY <2>1, <2>2, FoldLength
<1>5. k \in 0..Len(Fold(bytes))
  BY FoldLength
<1> QED BY <1>3, <1>4, <1>5 DEF Occurs, OccursAt

\* A byte of a part is a byte of the text.
LEMMA PartNonAscii ==
    ASSUME NEW part \in Seq(Bytes), NEW bytes \in Seq(Bytes), Occurs(part, bytes),
           HasNonAscii(part)
    PROVE  HasNonAscii(bytes)
<1>1. PICK k \in 0..Len(bytes) : OccursAt(part, bytes, k)
  BY DEF Occurs
<1>2. PICK i \in 1..Len(part) : part[i] \notin Ascii
  BY DEF HasNonAscii
<1>3. Len(part) \in Nat /\ Len(bytes) \in Nat /\ k \in Nat
  OBVIOUS
<1>4. bytes[k + i] = part[i] /\ k + i \in 1..Len(bytes)
  BY <1>1, <1>2, <1>3 DEF OccursAt
<1> QED BY <1>2, <1>4 DEF HasNonAscii

\* A text cut short is a text.
LEMMA TakeIsText ==
    ASSUME NEW bytes \in Seq(Bytes), NEW limit \in Nat
    PROVE  Take(bytes, limit) \in Seq(Bytes)
BY DEF Take

\* index.rs:65-237: a file whose indexed bytes the matcher finds the pattern in, in whatever
\* spelling, is a candidate, so that the index leaves out no match (README.md:288-289).
THEOREM IndexMissesNothing ==
    ASSUME NEW bytes \in Seq(Bytes), NEW limit \in Nat, NEW pattern \in Seq(Bytes),
           NEW part \in Seq(Bytes), NEW caseSensitive \in BOOLEAN,
           Occurs(part, Take(bytes, limit)),
           IF caseSensitive THEN part = pattern ELSE Spells(part, pattern)
    PROVE  IsCandidate(FileRecord(bytes, limit), pattern, caseSensitive)
<1> DEFINE kept == Take(bytes, limit)
           rec == FileRecord(bytes, limit)
<1>1. kept \in Seq(Bytes)
  BY TakeIsText
<1>2. /\ rec.original = TrigramsOf(kept)
      /\ rec.folded = TrigramsOf(Fold(kept))
      /\ rec.nonAscii = HasNonAscii(kept)
  BY DEF FileRecord
<1>3. CASE caseSensitive
  BY <1>1, <1>2, <1>3, PartTrigrams DEF IsCandidate
<1>4. CASE ~caseSensitive /\ HasNonAscii(part)
  BY <1>1, <1>2, <1>4, PartNonAscii DEF IsCandidate
<1>5. CASE ~caseSensitive /\ Fold(part) = Fold(pattern)
  <2>1. Occurs(Fold(part), Fold(kept))
    BY <1>1, FoldOccurs
  <2>2. Fold(part) \in Seq(Bytes) /\ Fold(kept) \in Seq(Bytes)
    BY <1>1, FoldLength
  <2>3. TrigramsOf(Fold(pattern)) \subseteq TrigramsOf(Fold(kept))
    BY <2>1, <2>2, <1>5, PartTrigrams
  <2> QED BY <1>2, <1>5, <2>3 DEF IsCandidate
<1> QED BY <1>3, <1>4, <1>5 DEF Spells

\* One text after another, in lower case.
LEMMA FoldConcat ==
    ASSUME NEW a \in Seq(Bytes), NEW b \in Seq(Bytes)
    PROVE  Fold(a \o b) = Fold(a) \o Fold(b) /\ a \o b \in Seq(Bytes)
<1>1. /\ a \o b \in Seq(Bytes) /\ Len(a \o b) = Len(a) + Len(b) /\ Len(a) \in Nat /\ Len(b) \in Nat
      /\ \A i \in 1..(Len(a) + Len(b)) : (a \o b)[i] = IF i <= Len(a) THEN a[i] ELSE b[i - Len(a)]
  BY ConcatProperties, LenProperties
<1> DEFINE u == Fold(a \o b)
           v == Fold(a) \o Fold(b)
<1>2. /\ Fold(a) \in Seq(Bytes) /\ Len(Fold(a)) = Len(a) /\ \A i \in 1..Len(a) : Fold(a)[i] = Lower[a[i]]
      /\ Fold(b) \in Seq(Bytes) /\ Len(Fold(b)) = Len(b) /\ \A i \in 1..Len(b) : Fold(b)[i] = Lower[b[i]]
  BY FoldLength
<1>3. /\ u \in Seq(Bytes) /\ Len(u) = Len(a \o b)
      /\ \A i \in 1..Len(a \o b) : u[i] = Lower[(a \o b)[i]]
  <2> DEFINE ab == a \o b
  <2>1. ab \in Seq(Bytes)
    BY <1>1
  <2> HIDE DEF ab
  <2>2. Fold(ab) \in Seq(Bytes) /\ Len(Fold(ab)) = Len(ab) /\ \A i \in 1..Len(ab) : Fold(ab)[i] = Lower[ab[i]]
    BY <2>1, FoldLength
  <2> QED BY <2>2 DEF ab
<1>4. /\ v \in Seq(Bytes) /\ Len(v) = Len(a) + Len(b)
      /\ \A i \in 1..(Len(a) + Len(b)) : v[i] = IF i <= Len(a) THEN Fold(a)[i] ELSE Fold(b)[i - Len(a)]
  <2> DEFINE fa == Fold(a)
             fb == Fold(b)
  <2>1. fa \in Seq(Bytes) /\ fb \in Seq(Bytes) /\ Len(fa) = Len(a) /\ Len(fb) = Len(b)
    BY <1>2
  <2> HIDE DEF fa, fb
  <2>2. /\ fa \o fb \in Seq(Bytes) /\ Len(fa \o fb) = Len(fa) + Len(fb)
        /\ \A i \in 1..(Len(fa) + Len(fb)) : (fa \o fb)[i] = IF i <= Len(fa) THEN fa[i] ELSE fb[i - Len(fa)]
    BY <2>1, ConcatProperties
  <2> QED BY <2>1, <2>2 DEF fa, fb
<1> HIDE DEF u, v
<1>5. ASSUME NEW i \in 1..(Len(a) + Len(b)) PROVE u[i] = v[i]
  <2>0. u[i] = Lower[(a \o b)[i]]
    BY <1>1, <1>3
  <2>1. CASE i <= Len(a)
    <3>1. i \in 1..Len(a)
      BY <1>1, <2>1
    <3>2. (a \o b)[i] = a[i] /\ v[i] = Fold(a)[i]
      BY <1>1, <1>4, <2>1
    <3>3. Fold(a)[i] = Lower[a[i]]
      BY <1>2, <3>1
    <3> QED BY <2>0, <3>2, <3>3
  <2>2. CASE ~(i <= Len(a))
    <3>1. i - Len(a) \in 1..Len(b)
      BY <1>1, <2>2
    <3>2. (a \o b)[i] = b[i - Len(a)] /\ v[i] = Fold(b)[i - Len(a)]
      BY <1>1, <1>4, <2>2
    <3>3. Fold(b)[i - Len(a)] = Lower[b[i - Len(a)]]
      BY <1>2, <3>1
    <3> QED BY <2>0, <3>2, <3>3
  <2> QED BY <2>1, <2>2
<1>6. u = v
  BY <1>1, <1>3, <1>4, <1>5, SeqEqual
<1> QED BY <1>1, <1>6 DEF u, v

\* One spelling after another.
LEMMA SpellsConcat ==
    ASSUME NEW a \in Seq(Bytes), NEW b \in Seq(Bytes), NEW p \in Seq(Bytes), NEW q \in Seq(Bytes),
           Spells(a, p), Spells(b, q)
    PROVE  Spells(a \o b, p \o q) /\ a \o b \in Seq(Bytes)
<1>1. /\ a \o b \in Seq(Bytes) /\ DOMAIN a = 1..Len(a) /\ DOMAIN b = 1..Len(b)
      /\ DOMAIN (a \o b) = 1..(Len(a) + Len(b)) /\ Len(a) \in Nat /\ Len(b) \in Nat
      /\ \A i \in 1..(Len(a) + Len(b)) : (a \o b)[i] = IF i <= Len(a) THEN a[i] ELSE b[i - Len(a)]
  BY ConcatProperties, LenProperties
<1>2. HasNonAscii(a) => HasNonAscii(a \o b)
  <2>1. \A i \in 1..Len(a) : i \in 1..(Len(a) + Len(b)) /\ i <= Len(a)
    BY <1>1
  <2> QED BY <1>1, <2>1 DEF HasNonAscii
<1>3. ASSUME HasNonAscii(b) PROVE HasNonAscii(a \o b)
  <2>1. PICK i \in 1..Len(b) : b[i] \notin Ascii
    BY <1>1, <1>3 DEF HasNonAscii
  <2>2. /\ Len(a) + i \in 1..(Len(a) + Len(b)) /\ ~(Len(a) + i <= Len(a)) /\ (Len(a) + i) - Len(a) = i
    BY <1>1
  <2>3. (a \o b)[Len(a) + i] = b[i]
    BY <1>1, <2>2
  <2> QED BY <1>1, <2>1, <2>2, <2>3 DEF HasNonAscii
<1>4. ASSUME Fold(a) = Fold(p), Fold(b) = Fold(q) PROVE Fold(a \o b) = Fold(p \o q)
  <2>1. Fold(a \o b) = Fold(a) \o Fold(b)
    BY FoldConcat
  <2>2. Fold(p \o q) = Fold(p) \o Fold(q)
    BY FoldConcat
  <2> QED BY <1>4, <2>1, <2>2
<1> QED BY <1>1, <1>2, <1>3, <1>4 DEF Spells

\* The spellings of an ASCII pattern are texts that spell it.
Spelled(bytes, parts) == \A part \in parts : part \in Seq(Bytes) /\ Spells(part, bytes)
SpellingsFrom(h, pattern) ==
    h = [i \in 0..Len(pattern) |->
            IF i = 0 THEN {<<>>} ELSE Joined(h[i - 1], Forms[pattern[i]])]

LEMMA JoinedIs ==
    ASSUME NEW parts, NEW forms, NEW x \in Joined(parts, forms)
    PROVE  \E part \in parts, form \in forms : x = part \o form
BY DEF Joined

LEMMA SpelledNext ==
    ASSUME NEW bytes \in Seq(Bytes), NEW byte \in Ascii, NEW parts, Spelled(bytes, parts)
    PROVE  Spelled(Append(bytes, byte), Joined(parts, Forms[byte]))
<1>1. Append(bytes, byte) = bytes \o <<byte>> /\ <<byte>> \in Seq(Bytes)
  BY AppendIsConcat, BytesAssumption
<1>2. ASSUME NEW part \in parts, NEW form \in Forms[byte]
      PROVE  part \o form \in Seq(Bytes) /\ Spells(part \o form, bytes \o <<byte>>)
  <2>1. form \in Seq(Bytes) /\ Spells(form, <<byte>>)
    BY FormsAssumption
  <2>2. part \in Seq(Bytes) /\ Spells(part, bytes)
    BY DEF Spelled
  <2> QED BY <1>1, <2>1, <2>2, SpellsConcat
<1>3. ASSUME NEW x \in Joined(parts, Forms[byte])
      PROVE  x \in Seq(Bytes) /\ Spells(x, bytes \o <<byte>>)
  <2>1. PICK part \in parts, form \in Forms[byte] : x = part \o form
    BY JoinedIs
  <2> QED BY <1>2, <2>1
<1> QED BY <1>1, <1>3 DEF Spelled

LEMMA SpellingsAre ==
    ASSUME NEW pattern \in Seq(Bytes), ~HasNonAscii(pattern)
    PROVE  Spelled(pattern, Spellings(pattern))
<1> DEFINE n == Len(pattern)
           V == SUBSET Seq(Bytes)
<1>1. n \in Nat /\ \A i \in 1..n : pattern[i] \in Ascii /\ i - 1 \in 0..n /\ i # 0
  BY LenProperties DEF HasNonAscii
<1>2. \E h : SpellingsFrom(h, pattern)
  <2> DEFINE g == [i \in 1..n |-> [v \in V |-> Joined(v, Forms[pattern[i]])]]
             e == {<<>>}
  <2>1. \A i \in 1..n : \A v \in V : Joined(v, Forms[pattern[i]]) \in V
    <3>1. ASSUME NEW i \in 1..n, NEW v \in V, NEW x \in Joined(v, Forms[pattern[i]])
          PROVE  x \in Seq(Bytes)
      <4>1. PICK part \in v, form \in Forms[pattern[i]] : x = part \o form
        BY JoinedIs
      <4>2. part \in Seq(Bytes) /\ form \in Seq(Bytes)
        BY <1>1, FormsAssumption
      <4> QED BY <4>1, <4>2, ConcatProperties
    <3> QED BY <3>1
  <2>2. g \in [1..n -> [V -> V]] /\ e \in V
    <3>1. <<>> \in Seq(Bytes)
      BY EmptySeq
    <3> HIDE DEF n
    <3> QED BY <2>1, <3>1
  <2>3. \E h \in [0..n -> V] : MadeInSteps(h, e, g, n)
    <3> HIDE DEF g, n, e, V
    <3> QED BY <1>1, <2>2, StepsExist
  <2>4. PICK h \in [0..n -> V] : MadeInSteps(h, e, g, n)
    BY <2>3
  <2>5. h = [i \in 0..n |-> IF i = 0 THEN e ELSE g[i][h[i - 1]]]
    BY <2>4 DEF MadeInSteps
  <2>6. \A i \in 1..n : h[i - 1] \in V
    BY <1>1, <2>4
  <2>7. \A i \in 1..n : g[i][h[i - 1]] = Joined(h[i - 1], Forms[pattern[i]])
    <3> HIDE DEF V
    <3> QED BY <2>6
  <2>8. \A i \in 0..n : i = 0 \/ i \in 1..n
    BY <1>1
  <2> HIDE DEF g, n, V
  <2>9. h = [i \in 0..n |-> IF i = 0 THEN e ELSE Joined(h[i - 1], Forms[pattern[i]])]
    BY <2>5, <2>7, <2>8
  <2> QED BY <2>9, Zenon DEF SpellingsFrom, n
<1> DEFINE h == CHOOSE h : SpellingsFrom(h, pattern)
<1>3. SpellingsFrom(h, pattern)
  BY <1>2, Zenon
<1>4. Spellings(pattern) = h[n]
  BY Zenon DEF Spellings, SpellingsFrom
<1> HIDE DEF h
<1>5. \A i \in 0..n : h[i] = IF i = 0 THEN {<<>>} ELSE Joined(h[i - 1], Forms[pattern[i]])
  BY <1>3, Zenon DEF SpellingsFrom
<1> DEFINE S == {i \in Nat : i <= n => Spelled(Prefix(pattern, i), h[i])}
<1>6. 0 \in S
  <2> DEFINE e == <<>>
  <2>1. e \in Seq(Bytes) /\ Prefix(pattern, 0) = e
    BY EmptySeq, SubSeqEmpty DEF Prefix
  <2>2. h[0] = {e}
    <3>1. 0 \in 0..n
      BY <1>1
    <3> QED BY <1>5, <3>1
  <2> HIDE DEF e
  <2>3. Spelled(e, {e})
    BY <2>1 DEF Spelled, Spells
  <2> QED BY <2>1, <2>2, <2>3
<1>7. ASSUME NEW i \in Nat, i \in S PROVE i + 1 \in S
  <2> SUFFICES ASSUME i + 1 <= n PROVE Spelled(Prefix(pattern, i + 1), h[i + 1])
    OBVIOUS
  <2>1. i \in 0..n /\ i + 1 \in 1..n /\ i + 1 \in 0..n /\ i + 1 # 0 /\ (i + 1) - 1 = i
    BY <1>1
  <2>2. h[i + 1] = Joined(h[i], Forms[pattern[i + 1]]) /\ Spelled(Prefix(pattern, i), h[i])
    BY <1>5, <1>7, <2>1
  <2>3. Prefix(pattern, i + 1) = Append(Prefix(pattern, i), pattern[i + 1]) /\ Prefix(pattern, i) \in Seq(Bytes)
    BY <2>1, PrefixNext
  <2>4. pattern[i + 1] \in Ascii
    BY <1>1, <2>1
  <2> QED BY <2>2, <2>3, <2>4, SpelledNext
<1>8. n \in S
  <2> HIDE DEF S
  <2> QED BY <1>1, <1>6, <1>7, Induction
<1>9. Prefix(pattern, n) = pattern
  BY SubSeqFull DEF Prefix
<1> QED BY <1>1, <1>4, <1>8, <1>9

-----------------------------------------------------------------------------
\* A search with the index

\* What is kept of a sequence begins with its beginning, if that is kept.
LEMMA KeptBegins ==
    ASSUME NEW X, NEW w \in Seq(X), NEW A, NEW n \in 0..Len(w), \A i \in 1..n : w[i] \in A
    PROVE  /\ Kept(w, A) \in Seq(X) /\ n <= Len(Kept(w, A))
           /\ \A i \in 1..n : Kept(w, A)[i] = w[i]
           /\ n = Len(w) => Kept(w, A) = w
<1> DEFINE a == Prefix(w, n)
           b == SubSeq(w, Len(a) + 1, Len(w))
           k == Kept(b, A)
<1>1. a \in Seq(X) /\ Len(a) = n /\ \A i \in 1..n : a[i] = w[i]
  BY PrefixOf
<1>2. IsPrefix(a, w)
  <2>1. SubSeq(a, 1, Len(a)) = a
    BY <1>1, SubSeqFull
  <2>2. Len(a) <= Len(w) /\ SubSeq(w, 1, Len(a)) = a
    BY <1>1, LenProperties DEF Prefix
  <2> HIDE DEF a
  <2> QED BY <2>1, <2>2 DEF IsPrefix
<1> HIDE DEF a
<1>3. b \in Seq(X) /\ w = a \o b
  BY <1>1, <1>2, PrefixIsConcat
<1> HIDE DEF b
<1>4. Kept(w, A) = Kept(a, A) \o k
  BY <1>1, <1>3, KeptConcat
<1>5. Kept(a, A) = a
  <2>1. ToSet(a) = {a[i] : i \in 1..n}
    BY <1>1, ToSetIs
  <2>2. ToSet(a) \subseteq A
    BY <1>1, <2>1
  <2> QED BY <1>1, <2>2, KeptIs
<1>6. k \in Seq(X)
  BY <1>3, KeptIs
<1> HIDE DEF k
<1>7. /\ a \o k \in Seq(X) /\ Len(a \o k) = n + Len(k) /\ Len(k) \in Nat /\ n \in Nat
      /\ \A i \in 1..(n + Len(k)) : (a \o k)[i] = IF i <= n THEN a[i] ELSE k[i - n]
  BY <1>1, <1>6, ConcatProperties, LenProperties
<1>8. \A i \in 1..n : i \in 1..(n + Len(k)) /\ i <= n
  BY <1>7
<1>9. n = Len(w) => Kept(w, A) = w
  <2> SUFFICES ASSUME n = Len(w) PROVE Kept(w, A) = w
    OBVIOUS
  <2>1. \A i \in 1..Len(w) : w[i] \in A
    OBVIOUS
  <2>2. ToSet(w) = {w[i] : i \in 1..Len(w)}
    BY ToSetIs
  <2>3. ToSet(w) \subseteq A
    BY <2>1, <2>2
  <2> QED BY <2>3, KeptIs
<1> QED BY <1>1, <1>4, <1>5, <1>7, <1>8, <1>9

\* If the first of what is shown are kept, they are what is shown of the rest.
LEMMA FirstShownKept ==
    ASSUME NEW root, NEW w \in Seq(Plain), NEW A, NEW max \in Nat,
           \A i \in 1..Len(w) : i <= max => w[i] \in A
    PROVE  FirstShown(root, Kept(w, A), max) = FirstShown(root, w, max)
<1> DEFINE n == IF Len(w) < max THEN Len(w) ELSE max
           k == Kept(w, A)
           l == IF Len(k) < max THEN Len(k) ELSE max
<1>1. n \in 0..Len(w) /\ \A i \in 1..n : w[i] \in A
  BY LenProperties
<1>2. /\ k \in Seq(Plain) /\ n <= Len(k) /\ \A i \in 1..n : k[i] = w[i]
      /\ n = Len(w) => k = w
  <2> HIDE DEF n
  <2> QED BY <1>1, KeptBegins
<1> HIDE DEF k
<1>3. l = n
  <2>1. Len(k) \in Nat /\ Len(w) \in Nat
    BY <1>2, LenProperties
  <2>2. CASE Len(w) < max
    BY <1>2, <2>1, <2>2
  <2>3. CASE ~(Len(w) < max)
    BY <1>2, <2>1, <2>3
  <2> QED BY <2>2, <2>3
<1>4. FirstShown(root, k, max) = [i \in 1..l |-> Relative(root, k[i])]
  BY DEF FirstShown
<1>5. FirstShown(root, w, max) = [i \in 1..n |-> Relative(root, w[i])]
  BY DEF FirstShown
<1> HIDE DEF l, n
<1> QED BY <1>2, <1>3, <1>4, <1>5 DEF k

\* With the index, what is found is what is found without it and is a candidate.
LEMMA FoundInIndex ==
    ASSUME NEW t, NEW needle, NEW files \in Seq(Plain)
    PROVE  FoundIn(t, needle, SearchedOf(t, files, needle, TRUE))
              = Kept(FoundIn(t, needle, files), {f \in ToSet(files) : Candidate(t, needle, f)})
<1> DEFINE C == {f \in ToSet(files) : Candidate(t, needle, f)}
           F == {f \in ToSet(files) : Found(t, needle, f)}
           k == Kept(files, C)
           G == {f \in ToSet(k) : Found(t, needle, f)}
<1>1. SearchedOf(t, files, needle, TRUE) = k
  BY DEF SearchedOf
<1>2. FoundIn(t, needle, k) = Kept(k, G) /\ FoundIn(t, needle, files) = Kept(files, F)
  BY DEF FoundIn
<1>3. ToSet(k) = ToSet(files) \cap C
  BY KeptIs
<1>4. C \cap G = F \cap C
  BY <1>3
<1> HIDE DEF C, F, G
<1>5. Kept(k, G) = Kept(files, C \cap G) /\ Kept(Kept(files, F), C) = Kept(files, F \cap C)
  BY KeptKept
<1> QED BY <1>1, <1>2, <1>4, <1>5 DEF C

\* A file that is found within what the index read of it is a candidate.
LEMMA FoundIsCandidate ==
    ASSUME NEW t, NEW needle \in Needles, IsIndexable(needle.pattern), NEW f,
           Metadata(t, f).text \in Seq(Bytes),
           FindsIn(needle.pattern, needle.caseSensitive, Take(Metadata(t, f).text, MaxRead))
    PROVE  Candidate(t, needle, f)
<1> DEFINE text == Metadata(t, f).text
           pattern == needle.pattern
           case == needle.caseSensitive
<1>1. pattern \in Seq(Bytes) /\ case \in BOOLEAN /\ MaxRead \in Nat
  BY ReadsAssumption
<1>2. ~HasNonAscii(pattern)
  BY DEF IsIndexable
<1> HIDE DEF pattern, case, text
<1>3. PICK part \in (IF case THEN {pattern} ELSE Spellings(pattern)) : Occurs(part, Take(text, MaxRead))
  BY DEF FindsIn, text, pattern, case
<1>4. part \in Seq(Bytes) /\ IF case THEN part = pattern ELSE Spells(part, pattern)
  <2>1. CASE case
    BY <1>1, <1>3, <2>1
  <2>2. CASE ~case
    <3>1. Spelled(pattern, Spellings(pattern))
      BY <1>1, <1>2, SpellingsAre
    <3> QED BY <1>3, <2>2, <3>1 DEF Spelled
  <2> QED BY <2>1, <2>2
<1>5. text \in Seq(Bytes)
  BY DEF text
<1>6. IsCandidate(FileRecord(text, MaxRead), pattern, case)
  BY <1>1, <1>3, <1>4, <1>5, IndexMissesNothing
<1> QED BY <1>6 DEF Candidate, text, pattern, case

\* A search with the index (search/in_process.rs, index.rs) answers what one without it
\* does, or leaves out a file whose only matches end beyond what the index read (README.md:
\* 288-289), for any trees, needles and limits.
THEOREM IndexOnlyAccelerates == Spec => []IndexAccelerates
<1>1. ASSUME ReadsInv, AnswerInv PROVE IndexAccelerates
  <2> SUFFICES ASSUME reply.call = "search_files" PROVE IndexAccelerates
    BY DEF IndexAccelerates
  <2> DEFINE root == reply.root
             start == reply.path
             needle == reply.what
             max == reply.limit
             files == CollectFiles(tree, root, start, NoGlob)
             C == {f \in ToSet(files) : Candidate(tree, needle, f)}
             w == FoundIn(tree, needle, files)
             walk == SearchResult(root, start, needle, max, FALSE)
             out == reply.out
             beyond(p) == ~FindsIn(needle.pattern, needle.caseSensitive,
                                   Take(Metadata(tree, root \o p).text, MaxRead))
  <2>1. /\ root \in Plain /\ start \in Plain /\ IsTree(tree) /\ tree \in Trees
        /\ Answered(tree, reply)
    BY <1>1, AnswerIs DEF Walking
  <2>2. /\ max \in Nat \ {0} /\ max \in Nat /\ IsSafePath(tree, root, start) /\ needle \in Needles
        /\ out = SearchOf(tree, root, start, needle, max, IsIndexable(needle.pattern))
    BY <2>1 DEF Answered
  <2>3. walk = SearchOf(tree, root, start, needle, max, FALSE)
    BY SearchIs
  <2> HIDE DEF walk, root, start, needle, max, out
  <2>4. files \in Seq(Plain) /\ ToSet(files) \subseteq Hits(tree, root, NoGlob, start)
    BY <2>1, <2>2, CollectFilesAre
  <2>5. SearchedOf(tree, files, needle, FALSE) = files
    BY DEF SearchedOf
  <2>6. walk = FirstShown(root, w, max)
    BY <2>3, <2>5 DEF SearchOf
  <2>7. CASE ~IsIndexable(needle.pattern)
    <3>0. IsIndexable(needle.pattern) = FALSE
      BY <2>7 DEF IsIndexable
    <3>1. out = SearchOf(tree, root, start, needle, max, FALSE)
      BY <2>2, <3>0
    <3>2. out = walk
      BY <2>3, <3>1
    <3> QED BY <3>2 DEF IndexAccelerates, MissesOnlyBeyond, walk, out, root, start, needle, max
  <2>8. CASE IsIndexable(needle.pattern)
    <3> DEFINE k == Kept(w, C)
    <3>1. out = FirstShown(root, k, max)
      <4>1. out = SearchOf(tree, root, start, needle, max, TRUE)
        BY <2>2, <2>8
      <4>2. FoundIn(tree, needle, SearchedOf(tree, files, needle, TRUE)) = k
        <5> HIDE DEF files
        <5> QED BY <2>4, FoundInIndex
      <4> QED BY <4>1, <4>2 DEF SearchOf
    <3>2. w \in Seq(Plain) /\ ToSet(w) \subseteq ToSet(files)
      <4> DEFINE F == {f \in ToSet(files) : Found(tree, needle, f)}
      <4>1. w = Kept(files, F)
        BY DEF FoundIn
      <4> HIDE DEF F, w, files
      <4> QED BY <2>4, <4>1, KeptIs
    <3> HIDE DEF w
    <3>3. k \in Seq(Plain) /\ ToSet(k) = ToSet(w) \cap C
      <4> HIDE DEF C
      <4> QED BY <3>2, KeptIs
    <3> HIDE DEF k
    <3>4. CASE \A i \in 1..Len(w) : i <= max => w[i] \in C
      <4>1. out = walk
        <5> HIDE DEF C
        <5> QED BY <2>2, <2>6, <3>1, <3>2, <3>4, FirstShownKept DEF k
      <4> QED BY <4>1 DEF IndexAccelerates, MissesOnlyBeyond, walk, out, root, start, needle, max
    <3>5. CASE \E i \in 1..Len(w) : i <= max /\ w[i] \notin C
      <4>1. PICK i \in 1..Len(w) : i <= max /\ w[i] \notin C
        BY <3>5
      <4> DEFINE y == w[i]
                 p == Relative(root, y)
      <4>2. p \in ToSet(walk)
        BY <2>2, <2>6, <3>2, <4>1, FirstShownIs
      <4>3. y \in ToSet(files) /\ y \in Hits(tree, root, NoGlob, start)
        <5>1. y \in ToSet(w)
          BY <3>2, ToSetIs
        <5> QED BY <2>4, <3>2, <5>1
      <4>4. y \notin C
        BY <4>1
      <4> HIDE DEF y
      <4>5. root \o p = y /\ Metadata(tree, y).kind = "file"
        BY <2>1, <4>3, HitIs
      <4>6. p \notin ToSet(out)
        <5> SUFFICES ASSUME p \in ToSet(out) PROVE FALSE
          OBVIOUS
        <5>1. PICK j \in 1..Len(k) : p = Relative(root, k[j])
          BY <2>2, <3>1, <3>3, FirstShownIs
        <5>2. k[j] \in ToSet(k)
          BY <3>3, ToSetIs
        <5>3. k[j] \in C /\ k[j] \in Hits(tree, root, NoGlob, start)
          BY <2>4, <3>2, <3>3, <5>2
        <5>4. root \o Relative(root, k[j]) = k[j]
          BY <2>1, <5>3, HitIs
        <5> QED BY <4>4, <4>5, <5>1, <5>3, <5>4
      <4>7. beyond(p)
        <5> SUFFICES ASSUME FindsIn(needle.pattern, needle.caseSensitive, Take(Metadata(tree, y).text, MaxRead))
                     PROVE  FALSE
          BY <4>5
        <5>1. Metadata(tree, y).text \in Seq(Bytes)
          BY <2>1, <4>5, FileText
        <5>2. Candidate(tree, needle, y)
          BY <2>2, <2>8, <5>1, FoundIsCandidate
        <5> QED BY <4>3, <4>4, <5>2
      <4>8. \E q \in ToSet(walk) \ ToSet(out) : beyond(q)
        BY <4>2, <4>6, <4>7
      <4> QED BY <4>8 DEF IndexAccelerates, MissesOnlyBeyond, walk, out, root, start, needle, max
    <3> QED BY <3>4, <3>5
  <2> QED BY <2>7, <2>8
<1> QED BY <1>1, ReadsInductive, AnswerInductive, PTL DEF Spec
=============================================================================
