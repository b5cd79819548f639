----------------------------- MODULE PlanProofs -----------------------------
(***************************************************************************)
(* Proofs about Plan, for any manifests: what the graph is made of, which  *)
(* manifests are refused, and what a build id is made of.                  *)
(***************************************************************************)
EXTENDS Plan, Integers, FiniteSetTheorems, SequenceTheorems, WellFoundedInduction, TLAPS

(***************************************************************************)
(* Sequences, and what they have of a set.                                 *)
(***************************************************************************)

Injective(s) == \A i, j \in DOMAIN s : s[i] = s[j] => i = j

\* What induction over the numbers comes down to.
LEMMA LeastElement ==
  ASSUME NEW T \in SUBSET Nat, T # {}
  PROVE  \E m \in T : \A n \in T : m <= n
<1>1. PICK m \in T : \A n \in T : <<n, m>> \notin OpToRel(<, Nat)
  BY WFMin, NatLessThanWellFounded, Zenon
<1>2. ASSUME NEW n \in T PROVE m <= n
  <2>1. <<n, m>> \notin OpToRel(<, Nat)
    BY <1>1
  <2>2. m \in Nat /\ n \in Nat
    OBVIOUS
  <2>3. ~(n < m)
    BY <2>1, <2>2 DEF OpToRel
  <2> QED BY <2>2, <2>3
<1> QED BY <1>2

\* The recursion of Filter defines something.
FilterOf(s, S, n, f) ==
  f = [i \in 0 .. n |-> IF i = 0 THEN <<>>
                        ELSE IF s[i] \in S THEN Append(f[i - 1], s[i])
                        ELSE f[i - 1]]

LEMMA FilterExists ==
  ASSUME NEW s, NEW S, NEW n \in Nat
  PROVE  \E f : FilterOf(s, S, n, f)
<1> DEFINE Bad == {m \in Nat : ~ \E f : FilterOf(s, S, m, f)}
<1>1. CASE Bad = {}
  BY <1>1
<1>2. CASE Bad # {}
  <2>1. PICK m \in Bad : \A k \in Bad : m <= k
    BY <1>2, LeastElement
  <2>2. m # 0
    <3>1. FilterOf(s, S, 0, [i \in 0 .. 0 |-> <<>>])
      BY DEF FilterOf
    <3> QED BY <2>1, <3>1
  <2>3. m - 1 \in Nat /\ m - 1 \notin Bad
    BY <2>1, <2>2
  <2>4. PICK f : FilterOf(s, S, m - 1, f)
    BY <2>3
  <2> DEFINE g == [i \in 0 .. m |->
                     IF i < m THEN f[i]
                     ELSE IF s[m] \in S THEN Append(f[m - 1], s[m]) ELSE f[m - 1]]
  <2>5. FilterOf(s, S, m, g)
    <3>1. ASSUME NEW i \in 0 .. m
          PROVE  g[i] = IF i = 0 THEN <<>>
                        ELSE IF s[i] \in S THEN Append(g[i - 1], s[i])
                        ELSE g[i - 1]
      <4>1. CASE i = m
        BY <4>1, <2>1, <2>2
      <4>2. CASE i # m
        <5>1. i \in 0 .. m - 1 /\ i < m
          BY <2>1, <4>2
        <5>2. i # 0 => i - 1 < m /\ i - 1 \in 0 .. m
          BY <2>1, <5>1
        <5>3. f[i] = IF i = 0 THEN <<>>
                     ELSE IF s[i] \in S THEN Append(f[i - 1], s[i])
                     ELSE f[i - 1]
          BY <2>4, <5>1 DEF FilterOf
        <5> QED BY <5>1, <5>2, <5>3
      <4> QED BY <4>1, <4>2
    <3> HIDE DEF g
    <3>2. g = [i \in 0 .. m |-> g[i]]
      BY DEF g
    <3> QED BY <3>1, <3>2 DEF FilterOf
  <2> QED BY <2>1, <2>5
<1> QED BY <1>1, <1>2

\* Filter keeps the elements of the set, in their order, and nothing else.
LEMMA FilterProperties ==
  ASSUME NEW X, NEW s \in Seq(X), NEW S
  PROVE  /\ Filter(s, S) \in Seq(X)
         /\ NamesIn(Filter(s, S)) = NamesIn(s) \cap S
         /\ Injective(s) => Injective(Filter(s, S))
         /\ NamesIn(s) \subseteq S => Filter(s, S) = s
<1> DEFINE kept == CHOOSE f : FilterOf(s, S, Len(s), f)
           P(n) == /\ kept[n] \in Seq(X)
                   /\ NamesIn(kept[n]) = {s[i] : i \in 1 .. n} \cap S
                   /\ Injective(s) => Injective(kept[n])
                   /\ NamesIn(s) \subseteq S => kept[n] = SubSeq(s, 1, n)
<1>1. FilterOf(s, S, Len(s), kept)
  BY FilterExists
<1>2. Filter(s, S) = kept[Len(s)]
  BY DEF Filter, FilterOf
<1> HIDE DEF kept
<1>3. \A n \in 0 .. Len(s) : P(n)
  <2> DEFINE Bad == {n \in 0 .. Len(s) : ~P(n)}
  <2> HIDE DEF P
  <2> SUFFICES ASSUME Bad # {} PROVE FALSE
    OBVIOUS
  <2>0. Len(s) \in Nat /\ Bad \subseteq Nat
    OBVIOUS
  <2>1. PICK m \in Bad : \A k \in Bad : m <= k
    BY <2>0, LeastElement
  <2>2. kept[m] = IF m = 0 THEN <<>>
                  ELSE IF s[m] \in S THEN Append(kept[m - 1], s[m])
                  ELSE kept[m - 1]
    BY <1>1 DEF FilterOf
  <2>3. CASE m = 0
    <3>1. kept[0] = <<>> /\ SubSeq(s, 1, 0) = <<>> /\ {s[i] : i \in 1 .. 0} = {}
      BY <2>2, <2>3
    <3>2. P(0)
      BY <3>1 DEF P, NamesIn, Injective
    <3> QED BY <2>1, <2>3, <3>2
  <2>4. CASE m # 0
    <3>1. m - 1 \in 0 .. Len(s) /\ m \in 1 .. Len(s) /\ m - 1 < m
      BY <2>0, <2>4
    <3>2. P(m - 1)
      BY <2>1, <3>1
    <3>3. {s[i] : i \in 1 .. m} = {s[i] : i \in 1 .. m - 1} \cup {s[m]}
      BY <3>1
    <3>4. s[m] \in X
      BY <3>1
    <3> USE DEF P
    <3> DEFINE t == kept[m - 1]
    <3>5. t \in Seq(X)
      BY <3>2
    <3> HIDE DEF t
    <3>6. CASE s[m] \in S
      <4>1. kept[m] = Append(t, s[m])
        BY <2>2, <2>4, <3>6 DEF t
      <4>2. /\ Len(kept[m]) = Len(t) + 1 /\ DOMAIN kept[m] = 1 .. Len(t) + 1
            /\ \A i \in 1 .. Len(t) : kept[m][i] = t[i]
            /\ kept[m][Len(t) + 1] = s[m]
            /\ kept[m] \in Seq(X)
        BY <4>1, <3>4, <3>5
      <4>3. NamesIn(kept[m]) = NamesIn(t) \cup {s[m]}
        <5>1. DOMAIN t = 1 .. Len(t) /\ Len(t) \in Nat
          BY <3>5
        <5> QED BY <4>2, <5>1 DEF NamesIn
      <4>4. NamesIn(kept[m]) = {s[i] : i \in 1 .. m} \cap S
        BY <3>2, <3>3, <3>6, <4>3 DEF t
      <4>5. ASSUME Injective(s) PROVE Injective(kept[m])
        <5>1. Injective(t)
          BY <3>2, <4>5 DEF t
        <5>2. s[m] \notin NamesIn(t)
          BY <3>2, <4>5, <3>1 DEF t, Injective
        <5>3. DOMAIN t = 1 .. Len(t) /\ Len(t) \in Nat
          BY <3>5
        <5> QED BY <4>2, <5>1, <5>2, <5>3 DEF Injective, NamesIn
      <4>6. ASSUME NamesIn(s) \subseteq S PROVE kept[m] = SubSeq(s, 1, m)
        <5>1. t = SubSeq(s, 1, m - 1)
          BY <3>2, <4>6 DEF t
        <5> QED BY <4>1, <5>1, <3>1
      <4> QED BY <4>2, <4>4, <4>5, <4>6, <2>1
    <3>7. CASE s[m] \notin S
      <4>1. kept[m] = t
        BY <2>2, <2>4, <3>7 DEF t
      <4>2. NamesIn(kept[m]) = {s[i] : i \in 1 .. m} \cap S
        BY <4>1, <3>2, <3>3, <3>7 DEF t
      <4>3. ~(NamesIn(s) \subseteq S)
        BY <3>1, <3>7 DEF NamesIn
      <4> QED BY <4>1, <4>2, <4>3, <3>2, <2>1 DEF t
    <3> QED BY <3>6, <3>7
  <2> QED BY <2>3, <2>4
<1> HIDE DEF P
<1>4. P(Len(s))
  BY <1>3
<1>5. /\ {s[i] : i \in 1 .. Len(s)} = NamesIn(s)
      /\ SubSeq(s, 1, Len(s)) = s
  BY DEF NamesIn
<1> QED BY <1>2, <1>4, <1>5 DEF P

(***************************************************************************)
(* Conditions: what the recursion of eval_condition computes.              *)
(***************************************************************************)

\* Tokens i to j of c are a conjunction that holds.
IsConjunctionTrue(c, i, j) ==
  \A k \in i .. j + 1, l \in i - 1 .. j : IsPart(c, And, i, j, k, l) => IsLiteralTrue(c, k, l)

\* A part of a sequence, by indices.
LEMMA PartOfSequence ==
  ASSUME NEW X, NEW c \in Seq(X), NEW i \in 1 .. Len(c) + 1, NEW j \in 0 .. Len(c), i <= j + 1
  PROVE  /\ SubSeq(c, i, j) \in Seq(X) /\ Len(SubSeq(c, i, j)) = j - i + 1
         /\ \A k \in 1 .. j - i + 1 : SubSeq(c, i, j)[k] = c[k + i - 1]
<1>1. \A k \in i .. j : c[k] \in X
  OBVIOUS
<1>2. i \in Int /\ j \in Int /\ j - i + 1 >= 0
  OBVIOUS
<1>3. /\ SubSeq(c, i, j) \in Seq(X)
      /\ Len(SubSeq(c, i, j)) = IF i <= j THEN j - i + 1 ELSE 0
      /\ \A k \in 1 .. j - i + 1 : SubSeq(c, i, j)[k] = c[i + k - 1]
  BY <1>1, <1>2, SubSeqProperties
<1>4. \A k \in 1 .. j - i + 1 : k + i - 1 = i + k - 1
  BY <1>2
<1> QED BY <1>2, <1>3, <1>4

\* A part of a condition is one.
LEMMA PartIsCondition ==
  ASSUME NEW c \in Condition, NEW i \in 1 .. Len(c) + 1, NEW j \in 0 .. Len(c), i <= j + 1,
         j = Len(c) \/ c[j + 1] \in {Or, And}
  PROVE  /\ SubSeq(c, i, j) \in Condition /\ Len(SubSeq(c, i, j)) = j - i + 1
         /\ \A k \in 1 .. j - i + 1 : SubSeq(c, i, j)[k] = c[k + i - 1]
<1>1. c \in Seq(Seq(STRING)) /\ i \in Nat /\ j \in Nat /\ Len(c) \in Nat
  BY DEF Condition
<1> PICK s : s = SubSeq(c, i, j)
  OBVIOUS
<1>2. /\ s \in Seq(Seq(STRING)) /\ Len(s) = j - i + 1
      /\ \A k \in 1 .. j - i + 1 : s[k] = c[k + i - 1]
  BY <1>1, PartOfSequence
<1>3. ASSUME NEW k \in 1 .. j - i + 1
      PROVE  s[k] \in {Or, And, Not} \/ k = j - i + 1 \/ s[k + 1] \in {Or, And}
  <2>1. k + i - 1 \in 1 .. Len(c) /\ s[k] = c[k + i - 1]
    BY <1>1, <1>2
  <2>2. CASE k = j - i + 1
    BY <2>2
  <2>3. CASE k # j - i + 1
    <3>1. k + 1 \in 1 .. j - i + 1 /\ (k + 1) + i - 1 = (k + i - 1) + 1 /\ k + i - 1 # Len(c)
      BY <1>1, <2>1, <2>3
    <3>2. s[k + 1] = c[(k + 1) + i - 1]
      BY <1>2, <3>1
    <3>3. c[k + i - 1] \in {Or, And, Not} \/ c[(k + i - 1) + 1] \in {Or, And}
      <4>1. \A n \in DOMAIN c : c[n] \in {Or, And, Not} \/ n = Len(c) \/ c[n + 1] \in {Or, And}
        BY Zenon DEF Condition
      <4>2. DOMAIN c = 1 .. Len(c)
        BY <1>1
      <4> QED BY <4>1, <4>2, <2>1, <3>1, Zenon
    <3> QED BY <2>1, <3>1, <3>2, <3>3
  <2> QED BY <2>2, <2>3
<1>4. DOMAIN s = 1 .. j - i + 1
  BY <1>2
<1> QED BY <1>2, <1>3, <1>4 DEF Condition

\* A literal, and a part of a part, read the same by the indices of the part.
LEMMA Shifted ==
  ASSUME NEW c, NEW q, NEW i \in Int, NEW j \in Int, i <= j + 1,
         \A k \in 1 .. j - i + 1 : q[k] = c[k + i - 1],
         NEW k \in Int, NEW l \in Int, i <= k, k <= l + 1, l <= j
  PROVE  /\ IsLiteralTrue(q, k - i + 1, l - i + 1) <=> IsLiteralTrue(c, k, l)
         /\ IsPart(q, And, 1, j - i + 1, k - i + 1, l - i + 1) <=> IsPart(c, And, i, j, k, l)
<1>1. \A n \in i .. j : q[n - i + 1] = c[n]
  <2> TAKE n \in i .. j
  <2>1. n - i + 1 \in 1 .. j - i + 1 /\ (n - i + 1) + i - 1 = n
    OBVIOUS
  <2>2. q[n - i + 1] = c[(n - i + 1) + i - 1]
    BY <2>1
  <2> QED BY <2>1, <2>2
<1>2. IsLiteralTrue(q, k - i + 1, l - i + 1) <=> IsLiteralTrue(c, k, l)
  <2>1. k - i + 1 <= l - i + 1 <=> k <= l
    OBVIOUS
  <2>2. (l - i + 1) - (k - i + 1) = l - k
    OBVIOUS
  <2>3. CASE k <= l
    <3>1. q[l - i + 1] = c[l]
      BY <1>1, <2>3
    <3> QED BY <2>1, <2>2, <2>3, <3>1 DEF IsLiteralTrue
  <2>4. CASE ~(k <= l)
    BY <2>1, <2>2, <2>4 DEF IsLiteralTrue
  <2> QED BY <2>3, <2>4
<1>3. IsPart(q, And, 1, j - i + 1, k - i + 1, l - i + 1) <=> IsPart(c, And, i, j, k, l)
  <2>1. /\ 1 <= k - i + 1 /\ k - i + 1 <= (l - i + 1) + 1 /\ l - i + 1 <= j - i + 1
        /\ k - i + 1 = 1 <=> k = i
        /\ l - i + 1 = j - i + 1 <=> l = j
    OBVIOUS
  <2>2. k # i => q[k - i + 1 - 1] = c[k - 1]
    <3> HAVE k # i
    <3>1. k - 1 \in i .. j /\ (k - 1) - i + 1 = k - i + 1 - 1
      OBVIOUS
    <3> QED BY <1>1, <3>1
  <2>3. l # j => q[l - i + 1 + 1] = c[l + 1]
    <3> HAVE l # j
    <3>1. l + 1 \in i .. j /\ (l + 1) - i + 1 = l - i + 1 + 1
      OBVIOUS
    <3> QED BY <1>1, <3>1
  <2>4. (\A n \in k - i + 1 .. l - i + 1 : q[n] # And) <=> (\A n \in k .. l : c[n] # And)
    <3>1. ASSUME NEW n \in k - i + 1 .. l - i + 1 PROVE n + i - 1 \in k .. l /\ q[n] = c[n + i - 1]
      <4>1. n + i - 1 \in i .. j /\ n + i - 1 \in k .. l /\ (n + i - 1) - i + 1 = n
        OBVIOUS
      <4> QED BY <1>1, <4>1
    <3>2. ASSUME NEW n \in k .. l PROVE n - i + 1 \in k - i + 1 .. l - i + 1 /\ q[n - i + 1] = c[n]
      BY <1>1
    <3> QED BY <3>1, <3>2
  <2> QED BY <2>1, <2>2, <2>3, <2>4 DEF IsPart
<1> QED BY <1>2, <1>3

\* Without the operator there is one part.
LEMMA OnePart ==
  ASSUME NEW c, NEW t, NEW first \in Int, NEW last \in Int, first <= last + 1,
         NEW i \in Int, NEW j \in Int, \A k \in first .. last : c[k] # t
  PROVE  IsPart(c, t, first, last, i, j) <=> i = first /\ j = last
<1>1. ASSUME IsPart(c, t, first, last, i, j) PROVE i = first /\ j = last
  <2>1. first <= i /\ i <= j + 1 /\ j <= last
    BY <1>1 DEF IsPart
  <2>2. i # first => i - 1 \in first .. last
    BY <2>1
  <2>3. j # last => j + 1 \in first .. last
    BY <2>1
  <2> QED BY <1>1, <2>2, <2>3 DEF IsPart
<1>2. ASSUME i = first, j = last PROVE IsPart(c, t, first, last, i, j)
  BY <1>2 DEF IsPart
<1> QED BY <1>1, <1>2


\* A part and a whole, by what each is made of.
LEMMA SplitParts ==
  ASSUME NEW s \in Condition, NEW t \in {Or, And}
  PROVE  /\ \A part \in Split(s, t) :
              \E i \in 1 .. Len(s) + 1, j \in 0 .. Len(s) :
                IsPart(s, t, 1, Len(s), i, j) /\ part = SubSeq(s, i, j)
         /\ \A i \in 1 .. Len(s) + 1, j \in 0 .. Len(s) :
              IsPart(s, t, 1, Len(s), i, j) =>
                /\ SubSeq(s, i, j) \in Split(s, t) /\ SubSeq(s, i, j) \in Condition
                /\ Len(SubSeq(s, i, j)) = j - i + 1
                /\ \A k \in 1 .. j - i + 1 : SubSeq(s, i, j)[k] = s[k + i - 1]
                /\ ~HasToken(t, SubSeq(s, i, j))
                /\ ~HasToken(Or, s) => ~HasToken(Or, SubSeq(s, i, j))
                /\ HasToken(t, s) => j - i + 1 < Len(s)
<1>1. s \in Seq(Seq(STRING)) /\ Len(s) \in Nat /\ DOMAIN s = 1 .. Len(s)
  BY DEF Condition
<1>2. ASSUME NEW i \in 1 .. Len(s) + 1, NEW j \in 0 .. Len(s), i <= j + 1,
             NEW u
      PROVE  HasToken(u, SubSeq(s, i, j)) <=> \E k \in i .. j : s[k] = u
  <2> PICK q : q = SubSeq(s, i, j)
    OBVIOUS
  <2>1. /\ q \in Seq(Seq(STRING)) /\ Len(q) = j - i + 1
        /\ \A k \in 1 .. j - i + 1 : q[k] = s[k + i - 1]
    BY <1>1, <1>2, PartOfSequence
  <2>2. DOMAIN q = 1 .. j - i + 1
    BY <2>1
  <2>3. ASSUME NEW k \in DOMAIN q, q[k] = u PROVE \E n \in i .. j : s[n] = u
    <3>1. k + i - 1 \in i .. j
      BY <2>2
    <3> QED BY <3>1, <2>1, <2>2, <2>3
  <2>4. ASSUME NEW n \in i .. j, s[n] = u PROVE \E k \in DOMAIN q : q[k] = u
    <3>1. n - i + 1 \in 1 .. j - i + 1 /\ (n - i + 1) + i - 1 = n
      OBVIOUS
    <3> QED BY <3>1, <2>1, <2>2, <2>4
  <2> QED BY <2>3, <2>4 DEF HasToken
<1>3. ASSUME NEW part \in Split(s, t)
      PROVE  \E i \in 1 .. Len(s) + 1, j \in 0 .. Len(s) :
                IsPart(s, t, 1, Len(s), i, j) /\ part = SubSeq(s, i, j)
  <2>1. PICK b \in (1 .. Len(s) + 1) \X (0 .. Len(s)) :
          /\ b[1] = 1 \/ s[b[1] - 1] = t
          /\ b[2] = Len(s) \/ s[b[2] + 1] = t
          /\ b[1] <= b[2] + 1 /\ ~HasToken(t, SubSeq(s, b[1], b[2]))
          /\ part = SubSeq(s, b[1], b[2])
    BY DEF Split
  <2>2. b[1] \in 1 .. Len(s) + 1 /\ b[2] \in 0 .. Len(s)
    OBVIOUS
  <2>3. \A k \in b[1] .. b[2] : s[k] # t
    BY <1>2, <2>1, <2>2
  <2>4. IsPart(s, t, 1, Len(s), b[1], b[2])
    BY <1>1, <2>1, <2>2, <2>3 DEF IsPart
  <2> QED BY <2>1, <2>2, <2>4
<1>4. ASSUME NEW i \in 1 .. Len(s) + 1, NEW j \in 0 .. Len(s), IsPart(s, t, 1, Len(s), i, j)
      PROVE  /\ SubSeq(s, i, j) \in Split(s, t) /\ SubSeq(s, i, j) \in Condition
             /\ Len(SubSeq(s, i, j)) = j - i + 1
             /\ \A k \in 1 .. j - i + 1 : SubSeq(s, i, j)[k] = s[k + i - 1]
             /\ ~HasToken(t, SubSeq(s, i, j))
             /\ ~HasToken(Or, s) => ~HasToken(Or, SubSeq(s, i, j))
             /\ HasToken(t, s) => j - i + 1 < Len(s)
  <2>1. /\ i <= j + 1
        /\ i = 1 \/ s[i - 1] = t
        /\ j = Len(s) \/ s[j + 1] = t
        /\ \A k \in i .. j : s[k] # t
    BY <1>4 DEF IsPart
  <2>2. ~HasToken(t, SubSeq(s, i, j))
    BY <1>2, <2>1
  <2>3. SubSeq(s, i, j) \in Split(s, t)
    <3> DEFINE b == <<i, j>>
    <3>1. b \in (1 .. Len(s) + 1) \X (0 .. Len(s)) /\ b[1] = i /\ b[2] = j
      OBVIOUS
    <3> QED BY <3>1, <2>1, <2>2 DEF Split
  <2>4. /\ SubSeq(s, i, j) \in Condition /\ Len(SubSeq(s, i, j)) = j - i + 1
        /\ \A k \in 1 .. j - i + 1 : SubSeq(s, i, j)[k] = s[k + i - 1]
    BY <2>1, PartIsCondition
  <2>5. ASSUME ~HasToken(Or, s) PROVE ~HasToken(Or, SubSeq(s, i, j))
    <3>1. \A k \in i .. j : k \in DOMAIN s
      BY <1>1
    <3> QED BY <1>2, <2>1, <2>5, <3>1 DEF HasToken
  <2>6. ASSUME HasToken(t, s) PROVE j - i + 1 < Len(s)
    <3>1. ~(i = 1 /\ j = Len(s))
      BY <1>1, <2>1, <2>6 DEF HasToken
    <3>2. \A a, b, n \in Int : 1 <= a /\ b <= n /\ ~(a = 1 /\ b = n) => b - a + 1 < n
      OBVIOUS
    <3>3. i \in Int /\ j \in Int /\ Len(s) \in Int /\ 1 <= i /\ j <= Len(s)
      BY <1>1
    <3> QED BY <3>1, <3>2, <3>3, Zenon
  <2> QED BY <2>2, <2>3, <2>4, <2>5, <2>6
<1> QED BY <1>3, <1>4

\* What a condition without ||, and one without any operator but !, comes down to.
LEMMA WithoutOperators ==
  ASSUME NEW s \in Condition, ~HasToken(Or, s)
  PROVE  /\ IsSatisfied(s) <=> IsConjunctionTrue(s, 1, Len(s))
         /\ ~HasToken(And, s) => (IsSatisfied(s) <=> IsLiteralTrue(s, 1, Len(s)))
<1>1. Len(s) \in Nat /\ DOMAIN s = 1 .. Len(s)
  BY DEF Condition
<1>2. \A k \in 1 .. Len(s) : s[k] # Or
  BY <1>1 DEF HasToken
<1>3. \A i \in 1 .. Len(s) + 1, j \in 0 .. Len(s) :
        IsPart(s, Or, 1, Len(s), i, j) <=> i = 1 /\ j = Len(s)
  <2> TAKE i \in 1 .. Len(s) + 1, j \in 0 .. Len(s)
  <2>1. 1 \in Int /\ Len(s) \in Int /\ 1 <= Len(s) + 1 /\ i \in Int /\ j \in Int
    BY <1>1
  <2> QED BY <2>1, <1>2, OnePart
<1>4. IsSatisfied(s) <=> IsConjunctionTrue(s, 1, Len(s))
  <2>1. 1 \in 1 .. Len(s) + 1 /\ Len(s) \in 0 .. Len(s)
    BY <1>1
  <2> QED BY <1>3, <2>1 DEF IsSatisfied, IsConjunctionTrue
<1>5. ASSUME ~HasToken(And, s)
      PROVE  IsConjunctionTrue(s, 1, Len(s)) <=> IsLiteralTrue(s, 1, Len(s))
  <2>1. \A k \in 1 .. Len(s) : s[k] # And
    BY <1>1, <1>5 DEF HasToken
  <2>2. \A k \in 1 .. Len(s) + 1, l \in 1 - 1 .. Len(s) :
          IsPart(s, And, 1, Len(s), k, l) <=> k = 1 /\ l = Len(s)
    <3> TAKE k \in 1 .. Len(s) + 1, l \in 1 - 1 .. Len(s)
    <3>1. 1 \in Int /\ Len(s) \in Int /\ 1 <= Len(s) + 1 /\ k \in Int /\ l \in Int
      BY <1>1
    <3> QED BY <3>1, <2>1, OnePart
  <2>3. 1 \in 1 .. Len(s) + 1 /\ Len(s) \in 1 - 1 .. Len(s)
    BY <1>1
  <2> QED BY <2>2, <2>3 DEF IsConjunctionTrue
<1> QED BY <1>4, <1>5


LEMMA HoldsIsBoolean ==
  ASSUME NEW atom
  PROVE  Holds(atom) \in BOOLEAN
<1>1. IsTrue(Options[atom[1]]) \in BOOLEAN
  BY DEF IsTrue
<1>2. CASE atom[1] \in DOMAIN Options /\ Len(atom) = 2
  BY <1>2 DEF Holds
<1>3. CASE atom[1] \in DOMAIN Options /\ Len(atom) # 2
  <2>1. Holds(atom) = IsTrue(Options[atom[1]])
    BY <1>3 DEF Holds
  <2> QED BY <1>1, <2>1, Zenon
<1>4. CASE atom[1] \notin DOMAIN Options
  <2>1. Holds(atom) = (Len(atom) = 2 /\ atom[2] \in {"off", "false", "0"})
    BY <1>4, Zenon DEF Holds
  <2> QED BY <2>1
<1> QED BY <1>2, <1>3, <1>4

\* What IsSatisfied says is what eval_condition computes, step by step.
LEMMA SatisfiedStep ==
  ASSUME NEW s \in Condition
  PROVE  IsSatisfied(s) =
           IF s = <<>> THEN TRUE
           ELSE IF HasToken(Or, s) THEN \E part \in Split(s, Or) : IsSatisfied(part)
           ELSE IF HasToken(And, s) THEN \A part \in Split(s, And) : IsSatisfied(part)
           ELSE IF Head(s) = Not THEN ~IsSatisfied(Tail(s))
           ELSE Holds(Head(s))
<1>1. s \in Seq(Seq(STRING)) /\ Len(s) \in Nat /\ DOMAIN s = 1 .. Len(s)
  BY DEF Condition
<1>2. CASE s = <<>>
  <2>1. Len(s) = 0 /\ ~HasToken(Or, s) /\ ~HasToken(And, s)
    BY <1>2 DEF HasToken
  <2>2. IsSatisfied(s) <=> IsLiteralTrue(s, 1, 0)
    BY <2>1, WithoutOperators
  <2>3. IsLiteralTrue(s, 1, 0)
    BY DEF IsLiteralTrue
  <2>4. IsSatisfied(s) = TRUE
    BY <2>2, <2>3 DEF IsSatisfied
  <2> QED BY <1>2, <2>4
<1>3. CASE s # <<>> /\ HasToken(Or, s)
  <2>1. ASSUME NEW i \in 1 .. Len(s) + 1, NEW j \in 0 .. Len(s), IsPart(s, Or, 1, Len(s), i, j)
        PROVE  IsSatisfied(SubSeq(s, i, j)) <=> IsConjunctionTrue(s, i, j)
    <3> PICK q : q = SubSeq(s, i, j)
      OBVIOUS
    <3>1. /\ q \in Condition /\ Len(q) = j - i + 1 /\ ~HasToken(Or, q)
          /\ \A k \in 1 .. j - i + 1 : q[k] = s[k + i - 1]
      BY <2>1, SplitParts
    <3>2. IsSatisfied(q) <=> IsConjunctionTrue(q, 1, j - i + 1)
      <4>1. IsSatisfied(q) <=> IsConjunctionTrue(q, 1, Len(q))
        BY <3>1, WithoutOperators
      <4> QED BY <3>1, <4>1, Zenon
    <3>3. i \in Int /\ j \in Int /\ i <= j + 1
      <4>1. i \in Int /\ j \in Int
        BY <1>1
      <4> QED BY <2>1, <4>1, Zenon DEF IsPart
    <3>4. ASSUME NEW k \in i .. j + 1, NEW l \in i - 1 .. j, k <= l + 1
          PROVE  (IsPart(q, And, 1, j - i + 1, k - i + 1, l - i + 1) => IsLiteralTrue(q, k - i + 1, l - i + 1))
                 <=> (IsPart(s, And, i, j, k, l) => IsLiteralTrue(s, k, l))
      <4>1. k \in Int /\ l \in Int /\ i <= k /\ l <= j
        BY <3>3
      <4> QED BY <3>1, <3>3, <3>4, <4>1, Shifted
    <3>5. ASSUME IsConjunctionTrue(q, 1, j - i + 1), NEW k \in i .. j + 1, NEW l \in i - 1 .. j,
                 IsPart(s, And, i, j, k, l)
          PROVE  IsLiteralTrue(s, k, l)
      <4>1. k <= l + 1
        BY <3>5 DEF IsPart
      <4>2. k - i + 1 \in 1 .. (j - i + 1) + 1 /\ l - i + 1 \in 1 - 1 .. j - i + 1
        BY <3>3
      <4> QED BY <3>4, <3>5, <4>1, <4>2 DEF IsConjunctionTrue
    <3>6. ASSUME IsConjunctionTrue(s, i, j), NEW k \in 1 .. (j - i + 1) + 1,
                 NEW l \in 1 - 1 .. j - i + 1, IsPart(q, And, 1, j - i + 1, k, l)
          PROVE  IsLiteralTrue(q, k, l)
      <4>1. k <= l + 1
        BY <3>6 DEF IsPart
      <4>2. /\ k + i - 1 \in i .. j + 1 /\ l + i - 1 \in i - 1 .. j
            /\ k + i - 1 <= (l + i - 1) + 1
            /\ (k + i - 1) - i + 1 = k /\ (l + i - 1) - i + 1 = l
        BY <3>3, <4>1
      <4>3. (IsPart(q, And, 1, j - i + 1, k, l) => IsLiteralTrue(q, k, l))
                 <=> (IsPart(s, And, i, j, k + i - 1, l + i - 1) => IsLiteralTrue(s, k + i - 1, l + i - 1))
        BY <3>4, <4>2
      <4> QED BY <3>6, <4>2, <4>3 DEF IsConjunctionTrue
    <3> QED BY <3>2, <3>5, <3>6 DEF IsConjunctionTrue
  <2>2. IsSatisfied(s) <=> \E i \in 1 .. Len(s) + 1, j \in 0 .. Len(s) :
                             IsPart(s, Or, 1, Len(s), i, j) /\ IsConjunctionTrue(s, i, j)
    BY DEF IsSatisfied, IsConjunctionTrue
  <2>3. IsSatisfied(s) <=> \E part \in Split(s, Or) : IsSatisfied(part)
    <3>1. ASSUME IsSatisfied(s) PROVE \E part \in Split(s, Or) : IsSatisfied(part)
      BY <2>1, <2>2, <3>1, SplitParts
    <3>2. ASSUME NEW part \in Split(s, Or), IsSatisfied(part) PROVE IsSatisfied(s)
      <4>1. PICK i \in 1 .. Len(s) + 1, j \in 0 .. Len(s) :
              IsPart(s, Or, 1, Len(s), i, j) /\ part = SubSeq(s, i, j)
        BY SplitParts
      <4> QED BY <2>1, <2>2, <3>2, <4>1
    <3> QED BY <3>1, <3>2
  <2>4. IsSatisfied(s) = \E part \in Split(s, Or) : IsSatisfied(part)
    BY <2>3 DEF IsSatisfied
  <2> QED BY <1>3, <2>4
<1>4. CASE s # <<>> /\ ~HasToken(Or, s) /\ HasToken(And, s)
  <2>1. ASSUME NEW i \in 1 .. Len(s) + 1, NEW j \in 0 .. Len(s), IsPart(s, And, 1, Len(s), i, j)
        PROVE  IsSatisfied(SubSeq(s, i, j)) <=> IsLiteralTrue(s, i, j)
    <3> PICK q : q = SubSeq(s, i, j)
      OBVIOUS
    <3>1. /\ q \in Condition /\ Len(q) = j - i + 1 /\ ~HasToken(Or, q) /\ ~HasToken(And, q)
          /\ \A k \in 1 .. j - i + 1 : q[k] = s[k + i - 1]
      BY <1>4, <2>1, SplitParts
    <3>2. IsSatisfied(q) <=> IsLiteralTrue(q, 1, j - i + 1)
      <4>1. IsSatisfied(q) <=> IsLiteralTrue(q, 1, Len(q))
        BY <3>1, WithoutOperators
      <4> QED BY <3>1, <4>1, Zenon
    <3>3. i \in Int /\ j \in Int /\ i <= j + 1 /\ i <= i /\ j <= j /\ i - i + 1 = 1
      <4>1. i \in Int /\ j \in Int /\ i <= i /\ j <= j /\ i - i + 1 = 1
        BY <1>1
      <4> QED BY <2>1, <4>1, Zenon DEF IsPart
    <3>4. IsLiteralTrue(q, i - i + 1, j - i + 1) <=> IsLiteralTrue(s, i, j)
      BY <3>1, <3>3, Shifted
    <3> QED BY <3>2, <3>3, <3>4
  <2>2. IsSatisfied(s) <=> \A i \in 1 .. Len(s) + 1, j \in 0 .. Len(s) :
                             IsPart(s, And, 1, Len(s), i, j) => IsLiteralTrue(s, i, j)
    <3>1. 1 - 1 = 0
      OBVIOUS
    <3> QED BY <1>4, <3>1, WithoutOperators DEF IsConjunctionTrue
  <2>3. IsSatisfied(s) <=> \A part \in Split(s, And) : IsSatisfied(part)
    <3>1. ASSUME IsSatisfied(s), NEW part \in Split(s, And) PROVE IsSatisfied(part)
      <4>1. PICK i \in 1 .. Len(s) + 1, j \in 0 .. Len(s) :
              IsPart(s, And, 1, Len(s), i, j) /\ part = SubSeq(s, i, j)
        BY SplitParts
      <4> QED BY <2>1, <2>2, <3>1, <4>1
    <3>2. ASSUME \A part \in Split(s, And) : IsSatisfied(part) PROVE IsSatisfied(s)
      <4>1. \A i \in 1 .. Len(s) + 1, j \in 0 .. Len(s) :
              IsPart(s, And, 1, Len(s), i, j) => SubSeq(s, i, j) \in Split(s, And)
        BY SplitParts
      <4> QED BY <2>1, <2>2, <3>2, <4>1
    <3> QED BY <3>1, <3>2
  <2>4. IsSatisfied(s) = \A part \in Split(s, And) : IsSatisfied(part)
    BY <2>3 DEF IsSatisfied
  <2> QED BY <1>4, <2>4
<1>5. CASE s # <<>> /\ ~HasToken(Or, s) /\ ~HasToken(And, s)
  <2>1. IsSatisfied(s) <=> IsLiteralTrue(s, 1, Len(s))
    BY <1>5, WithoutOperators
  <2>2. Len(s) >= 1 /\ Head(s) = s[1]
    BY <1>1, <1>5
  <2>3. CASE Head(s) = Not
    <3>1. Tail(s) = SubSeq(s, 2, Len(s))
      BY <1>1, <1>5, TailIsSubSeq
    <3>2. 2 \in 1 .. Len(s) + 1 /\ Len(s) \in 0 .. Len(s) /\ 2 <= Len(s) + 1 /\ Len(s) - 2 + 1 = Len(s) - 1
      BY <1>1, <2>2
    <3>3. /\ Tail(s) \in Condition /\ Len(Tail(s)) = Len(s) - 2 + 1
          /\ \A k \in 1 .. Len(s) - 2 + 1 : Tail(s)[k] = s[k + 2 - 1]
      <4>1. /\ SubSeq(s, 2, Len(s)) \in Condition /\ Len(SubSeq(s, 2, Len(s))) = Len(s) - 2 + 1
            /\ \A k \in 1 .. Len(s) - 2 + 1 : SubSeq(s, 2, Len(s))[k] = s[k + 2 - 1]
        BY <3>2, PartIsCondition
      <4> QED BY <3>1, <4>1, Zenon
    <3>4. ~HasToken(Or, Tail(s)) /\ ~HasToken(And, Tail(s))
      <4>1. DOMAIN Tail(s) = 1 .. Len(s) - 2 + 1
        BY <3>3 DEF Condition
      <4>2. \A k \in 1 .. Len(s) - 2 + 1 : k + 2 - 1 \in DOMAIN s
        BY <1>1, <3>2
      <4> QED BY <3>3, <4>1, <4>2, <1>5 DEF HasToken
    <3>5. IsSatisfied(Tail(s)) <=> IsLiteralTrue(Tail(s), 1, Len(s) - 2 + 1)
      <4>1. IsSatisfied(Tail(s)) <=> IsLiteralTrue(Tail(s), 1, Len(Tail(s)))
        BY <3>3, <3>4, WithoutOperators
      <4> QED BY <3>3, <4>1, Zenon
    <3>6. IsLiteralTrue(Tail(s), 2 - 2 + 1, Len(s) - 2 + 1) <=> IsLiteralTrue(s, 2, Len(s))
      <4>1. 2 \in Int /\ Len(s) \in Int /\ 2 <= 2 /\ Len(s) <= Len(s) /\ 2 <= Len(s) + 1
        BY <1>1, <3>2
      <4> QED BY <3>3, <4>1, Shifted
    <3>7. 2 - 2 + 1 = 1
      OBVIOUS
    <3>8. IsLiteralTrue(s, 1, Len(s)) <=> ~IsLiteralTrue(s, 2, Len(s))
      <4>0. \A m, n \in Nat : m = n + 1 => (m % 2 = 0 <=> ~(n % 2 = 0))
        OBVIOUS
      <4>1. Len(s) # 1 => ((Len(s) - 1) % 2 = 0 <=> ~((Len(s) - 2) % 2 = 0))
        <5> HAVE Len(s) # 1
        <5>1. Len(s) - 1 \in Nat /\ Len(s) - 2 \in Nat /\ Len(s) - 1 = Len(s) - 2 + 1
          BY <1>1, <2>2
        <5> QED BY <4>0, <5>1, Zenon
      <4>2. (Len(s) - 1 + 1) % 2 = 0 <=> ~((Len(s) - 2 + 1) % 2 = 0)
        <5>1. /\ Len(s) - 1 + 1 \in Nat /\ Len(s) - 2 + 1 \in Nat
              /\ Len(s) - 1 + 1 = Len(s) - 2 + 1 + 1
          BY <1>1, <2>2
        <5> QED BY <4>0, <5>1, Zenon
      <4>3. CASE Len(s) = 1
        BY <2>2, <2>3, <4>2, <4>3 DEF IsLiteralTrue
      <4>4. CASE Len(s) # 1
        <5>1. 1 <= Len(s) /\ 2 <= Len(s)
          BY <1>1, <2>2, <4>4
        <5> QED BY <4>1, <4>2, <5>1 DEF IsLiteralTrue
      <4> QED BY <4>3, <4>4
    <3>9. IsSatisfied(s) = ~IsSatisfied(Tail(s))
      BY <2>1, <3>5, <3>6, <3>7, <3>8 DEF IsSatisfied
    <3> QED BY <1>5, <2>3, <3>9
  <2>4. CASE Head(s) # Not
    <3>1. Len(s) = 1
      <4>0. 1 \in DOMAIN s
        BY <1>1, <2>2
      <4>1. 1 \in DOMAIN s /\ s[1] \notin {Or, And, Not}
        <5>1. s[1] # Or /\ s[1] # And
          BY <4>0, <1>5, Zenon DEF HasToken
        <5> QED BY <4>0, <5>1, <2>2, <2>4
      <4>2. Len(s) # 1 => 2 \in DOMAIN s /\ s[2] \notin {Or, And}
        <5> HAVE Len(s) # 1
        <5>1. 2 \in DOMAIN s
          BY <1>1, <2>2
        <5>2. s[2] # Or /\ s[2] # And
          BY <5>1, <1>5, Zenon DEF HasToken
        <5> QED BY <5>1, <5>2
      <4>3. s[1] \in {Or, And, Not} \/ 1 = Len(s) \/ s[1 + 1] \in {Or, And}
        BY <4>1 DEF Condition
      <4> QED BY <4>1, <4>2, <4>3
    <3>2. IsLiteralTrue(s, 1, Len(s)) <=> Holds(Head(s))
      <4>1. (1 - 1) % 2 = 0 /\ 1 <= 1
        OBVIOUS
      <4>2. s[1] # Not
        BY <2>2, <2>4
      <4>3. IsLiteralTrue(s, 1, 1) <=> Holds(s[1])
        BY <4>1, <4>2, Zenon DEF IsLiteralTrue
      <4> QED BY <2>2, <4>3, <3>1, Zenon
    <3>3. IsSatisfied(s) = Holds(Head(s))
      <4>1. IsSatisfied(s) \in BOOLEAN
        BY DEF IsSatisfied
      <4>2. Holds(Head(s)) \in BOOLEAN
        BY HoldsIsBoolean, Zenon
      <4>3. IsSatisfied(s) <=> Holds(Head(s))
        BY <2>1, <3>2, Zenon
      <4>4. \A a, b \in BOOLEAN : (a <=> b) => a = b
        OBVIOUS
      <4> QED BY <4>1, <4>2, <4>3, <4>4, Zenon
    <3> QED BY <1>5, <2>4, <3>3
  <2> QED BY <2>3, <2>4
<1> QED BY <1>2, <1>3, <1>4, <1>5


IsEval(eval) ==
  eval = [s \in Condition |->
            IF s = <<>> THEN TRUE
            ELSE IF HasToken(Or, s) THEN \E part \in Split(s, Or) : eval[part]
            ELSE IF HasToken(And, s) THEN \A part \in Split(s, And) : eval[part]
            ELSE IF Head(s) = Not THEN ~eval[Tail(s)]
            ELSE Holds(Head(s))]

\* The parts that the recursion looks at are conditions, and shorter ones.
LEMMA ShorterParts ==
  ASSUME NEW s \in Condition, s # <<>>
  PROVE  /\ HasToken(Or, s) => \A part \in Split(s, Or) : part \in Condition /\ Len(part) < Len(s)
         /\ HasToken(And, s) => \A part \in Split(s, And) : part \in Condition /\ Len(part) < Len(s)
         /\ Tail(s) \in Condition /\ Len(Tail(s)) < Len(s)
<1>1. s \in Seq(Seq(STRING)) /\ Len(s) \in Nat /\ Len(s) >= 1
  BY DEF Condition
<1>2. ASSUME NEW t \in {Or, And}, HasToken(t, s), NEW part \in Split(s, t)
      PROVE  part \in Condition /\ Len(part) < Len(s)
  <2>1. PICK i \in 1 .. Len(s) + 1, j \in 0 .. Len(s) :
          IsPart(s, t, 1, Len(s), i, j) /\ part = SubSeq(s, i, j)
    BY SplitParts
  <2>2. /\ SubSeq(s, i, j) \in Condition /\ Len(SubSeq(s, i, j)) = j - i + 1
        /\ j - i + 1 < Len(s)
    BY <1>2, <2>1, SplitParts
  <2> QED BY <2>1, <2>2, Zenon
<1>3. Tail(s) \in Condition /\ Len(Tail(s)) < Len(s)
  <2>1. Tail(s) = SubSeq(s, 2, Len(s))
    BY <1>1, TailIsSubSeq
  <2>2. 2 \in 1 .. Len(s) + 1 /\ Len(s) \in 0 .. Len(s) /\ 2 <= Len(s) + 1 /\ Len(s) - 2 + 1 < Len(s)
    BY <1>1
  <2>3. SubSeq(s, 2, Len(s)) \in Condition /\ Len(SubSeq(s, 2, Len(s))) = Len(s) - 2 + 1
    BY <2>2, PartIsCondition
  <2> QED BY <2>1, <2>2, <2>3, Zenon
<1> QED BY <1>2, <1>3

\* Code: eval_condition (graph.rs 353-389) gives a text without parentheses the usual meaning.
THEOREM ConditionTheorem ==
  \A c \in Condition : EvalCondition(c) <=> IsSatisfied(c)
<1>1. \E eval : IsEval(eval)
  <2> DEFINE eval == [s \in Condition |-> IsSatisfied(s)]
  <2> HIDE DEF eval
  <2>1. ASSUME NEW s \in Condition
        PROVE  eval[s] =
                 IF s = <<>> THEN TRUE
                 ELSE IF HasToken(Or, s) THEN \E part \in Split(s, Or) : eval[part]
                 ELSE IF HasToken(And, s) THEN \A part \in Split(s, And) : eval[part]
                 ELSE IF Head(s) = Not THEN ~eval[Tail(s)]
                 ELSE Holds(Head(s))
    <3>1. \A r \in Condition : eval[r] = IsSatisfied(r)
      BY Zenon DEF eval
    <3>2. CASE s = <<>>
      BY <3>1, <3>2, SatisfiedStep, Zenon
    <3>3. CASE s # <<>> /\ HasToken(Or, s)
      <4>1. \A part \in Split(s, Or) : eval[part] = IsSatisfied(part)
        BY <3>1, <3>3, ShorterParts, Zenon
      <4>2. eval[s] = \E part \in Split(s, Or) : IsSatisfied(part)
        BY <3>1, <3>3, SatisfiedStep, Zenon
      <4>3. (\E part \in Split(s, Or) : IsSatisfied(part)) = \E part \in Split(s, Or) : eval[part]
        BY <4>1
      <4> QED BY <3>3, <4>2, <4>3, Zenon
    <3>4. CASE s # <<>> /\ ~HasToken(Or, s) /\ HasToken(And, s)
      <4>1. \A part \in Split(s, And) : eval[part] = IsSatisfied(part)
        BY <3>1, <3>4, ShorterParts, Zenon
      <4>2. eval[s] = \A part \in Split(s, And) : IsSatisfied(part)
        BY <3>1, <3>4, SatisfiedStep, Zenon
      <4>3. (\A part \in Split(s, And) : IsSatisfied(part)) = \A part \in Split(s, And) : eval[part]
        BY <4>1
      <4> QED BY <3>4, <4>2, <4>3, Zenon
    <3>5. CASE s # <<>> /\ ~HasToken(Or, s) /\ ~HasToken(And, s)
      <4>1. eval[Tail(s)] = IsSatisfied(Tail(s))
        BY <3>1, <3>5, ShorterParts, Zenon
      <4>2. eval[s] = IF Head(s) = Not THEN ~IsSatisfied(Tail(s)) ELSE Holds(Head(s))
        BY <3>1, <3>5, SatisfiedStep, Zenon
      <4> QED BY <3>5, <4>1, <4>2, Zenon
    <3> QED BY <3>2, <3>3, <3>4, <3>5
  <2>2. eval = [s \in Condition |-> eval[s]]
    BY Zenon DEF eval
  <2>3. IsEval(eval)
    BY <2>1, <2>2 DEF IsEval
  <2> QED BY <2>3
<1>2. ASSUME NEW eval, IsEval(eval), NEW c \in Condition
      PROVE  eval[c] = IsSatisfied(c)
  <2> DEFINE Bad == {n \in Nat : \E s \in Condition : Len(s) = n /\ eval[s] # IsSatisfied(s)}
  <2>0. \A s \in Condition : Len(s) \in Nat
    BY DEF Condition
  <2> SUFFICES ASSUME Bad # {} PROVE FALSE
    BY <2>0
  <2>1. PICK m \in Bad : \A k \in Bad : m <= k
    BY LeastElement
  <2>2. PICK s \in Condition : Len(s) = m /\ eval[s] # IsSatisfied(s)
    BY <2>1
  <2>3. \A r \in Condition : Len(r) < Len(s) => eval[r] = IsSatisfied(r)
    BY <2>0, <2>1, <2>2
  <2> HIDE DEF Bad
  <2>4. eval[s] = IF s = <<>> THEN TRUE
                  ELSE IF HasToken(Or, s) THEN \E part \in Split(s, Or) : eval[part]
                  ELSE IF HasToken(And, s) THEN \A part \in Split(s, And) : eval[part]
                  ELSE IF Head(s) = Not THEN ~eval[Tail(s)]
                  ELSE Holds(Head(s))
    BY <1>2, Zenon DEF IsEval
  <2>5. CASE s = <<>>
    BY <2>2, <2>4, <2>5, SatisfiedStep, Zenon
  <2>6. CASE s # <<>> /\ HasToken(Or, s)
    <3>1. \A part \in Split(s, Or) : eval[part] = IsSatisfied(part)
      BY <2>3, <2>6, ShorterParts, Zenon
    <3>2. IsSatisfied(s) = \E part \in Split(s, Or) : IsSatisfied(part)
      BY <2>6, SatisfiedStep, Zenon
    <3>3. eval[s] = \E part \in Split(s, Or) : eval[part]
      BY <2>4, <2>6, Zenon
    <3>4. (\E part \in Split(s, Or) : IsSatisfied(part)) = \E part \in Split(s, Or) : eval[part]
      BY <3>1
    <3> QED BY <2>2, <3>2, <3>3, <3>4, Zenon
  <2>7. CASE s # <<>> /\ ~HasToken(Or, s) /\ HasToken(And, s)
    <3>1. \A part \in Split(s, And) : eval[part] = IsSatisfied(part)
      BY <2>3, <2>7, ShorterParts, Zenon
    <3>2. IsSatisfied(s) = \A part \in Split(s, And) : IsSatisfied(part)
      BY <2>7, SatisfiedStep, Zenon
    <3>3. eval[s] = \A part \in Split(s, And) : eval[part]
      BY <2>4, <2>7, Zenon
    <3>4. (\A part \in Split(s, And) : IsSatisfied(part)) = \A part \in Split(s, And) : eval[part]
      BY <3>1
    <3> QED BY <2>2, <3>2, <3>3, <3>4, Zenon
  <2>8. CASE s # <<>> /\ ~HasToken(Or, s) /\ ~HasToken(And, s)
    <3>1. eval[Tail(s)] = IsSatisfied(Tail(s))
      BY <2>3, <2>8, ShorterParts, Zenon
    <3>2. IsSatisfied(s) = IF Head(s) = Not THEN ~IsSatisfied(Tail(s)) ELSE Holds(Head(s))
      BY <2>8, SatisfiedStep, Zenon
    <3>3. eval[s] = IF Head(s) = Not THEN ~eval[Tail(s)] ELSE Holds(Head(s))
      BY <2>4, <2>8, Zenon
    <3> QED BY <2>2, <3>1, <3>2, <3>3, Zenon
  <2> QED BY <2>5, <2>6, <2>7, <2>8
<1>3. ASSUME NEW c \in Condition PROVE EvalCondition(c) = (CHOOSE eval : IsEval(eval))[c]
  BY Zenon DEF EvalCondition, IsEval
<1>4. IsEval(CHOOSE eval : IsEval(eval))
  BY <1>1
<1> QED BY <1>2, <1>3, <1>4


(***************************************************************************)
(* What is enabled is what passes both filters.                            *)
(***************************************************************************)

Filters == Seq([name : STRING, negated : BOOLEAN])

LEMMA FiltersMean ==
  ASSUME NEW filters \in Filters
  PROVE  LET named(negated) == {f.name : f \in {g \in {filters[i] : i \in DOMAIN filters} :
                                                    g.negated = negated}}
         IN MatchesAllFilters(filters) <=>
              /\ named(TRUE) \cap Described = {}
              /\ named(FALSE) = {} \/ named(FALSE) \cap Described # {}
<1> DEFINE named(negated) == {f.name : f \in {g \in {filters[i] : i \in DOMAIN filters} :
                                                  g.negated = negated}}
           positive == {i \in DOMAIN filters : ~filters[i].negated}
<1>0. ASSUME NEW X, NEW s \in Seq(X) PROVE \A i \in DOMAIN s : s[i] \in X
  OBVIOUS
<1>1. \A i \in DOMAIN filters : filters[i] \in [name : STRING, negated : BOOLEAN]
  BY <1>0, Zenon DEF Filters
<1>2. \A i \in DOMAIN filters :
        /\ filters[i].negated => (MatchesFilter(filters[i]) <=> filters[i].name \notin Described)
        /\ ~filters[i].negated => (MatchesFilter(filters[i]) <=> filters[i].name \in Described)
  BY <1>1 DEF MatchesFilter
<1>3. ASSUME NEW b \in BOOLEAN, NEW n
      PROVE  n \in named(b) <=> \E i \in DOMAIN filters : filters[i].negated = b /\ filters[i].name = n
  <2>1. ASSUME NEW i \in DOMAIN filters, filters[i].negated = b, filters[i].name = n PROVE n \in named(b)
    <3>1. filters[i] \in {g \in {filters[j] : j \in DOMAIN filters} : g.negated = b}
      BY <2>1, Zenon
    <3> QED BY <2>1, <3>1, Zenon
  <2>2. ASSUME n \in named(b)
        PROVE  \E i \in DOMAIN filters : filters[i].negated = b /\ filters[i].name = n
    BY <2>2, Zenon
  <2> QED BY <2>1, <2>2, Zenon
<1>4. (\A i \in DOMAIN filters \ positive : MatchesFilter(filters[i]))
        <=> named(TRUE) \cap Described = {}
  <2>1. ASSUME \A i \in DOMAIN filters \ positive : MatchesFilter(filters[i]), NEW n \in named(TRUE)
        PROVE  n \notin Described
    <3>1. PICK i \in DOMAIN filters : filters[i].negated = TRUE /\ filters[i].name = n
      BY <1>3, <2>1
    <3> QED BY <1>2, <2>1, <3>1
  <2>2. ASSUME named(TRUE) \cap Described = {}, NEW i \in DOMAIN filters \ positive
        PROVE  MatchesFilter(filters[i])
    <3>1. filters[i].negated = TRUE
      BY <1>1
    <3>2. filters[i].name \in named(TRUE)
      BY <1>3, <3>1
    <3> QED BY <1>2, <2>2, <3>1, <3>2
  <2> HIDE DEF named
  <2> QED BY <2>1, <2>2
<1>5. positive = {} <=> named(FALSE) = {}
  <2>1. ASSUME NEW i \in positive PROVE named(FALSE) # {}
    <3>1. filters[i].negated = FALSE
      BY <1>1, <2>1
    <3> QED BY <1>3, <3>1
  <2>2. ASSUME NEW n \in named(FALSE) PROVE positive # {}
    <3>1. PICK i \in DOMAIN filters : filters[i].negated = FALSE /\ filters[i].name = n
      BY <1>3, <2>2
    <3> QED BY <3>1
  <2> HIDE DEF named, positive
  <2> QED BY <2>1, <2>2
<1>6. (\E i \in positive : MatchesFilter(filters[i])) <=> named(FALSE) \cap Described # {}
  <2>1. ASSUME NEW i \in positive, MatchesFilter(filters[i]) PROVE named(FALSE) \cap Described # {}
    <3>1. filters[i].negated = FALSE
      BY <1>1, <2>1
    <3>2. filters[i].name \in named(FALSE)
      BY <1>3, <3>1
    <3> QED BY <1>2, <2>1, <3>1, <3>2
  <2>2. ASSUME NEW n \in named(FALSE), n \in Described
        PROVE  \E i \in positive : MatchesFilter(filters[i])
    <3>1. PICK i \in DOMAIN filters : filters[i].negated = FALSE /\ filters[i].name = n
      BY <1>3, <2>2
    <3> QED BY <1>2, <2>2, <3>1
  <2> HIDE DEF named, positive
  <2> QED BY <2>1, <2>2
<1>7. MatchesAllFilters(filters) <=>
        /\ \A i \in DOMAIN filters \ positive : MatchesFilter(filters[i])
        /\ positive # {} => \E i \in positive : MatchesFilter(filters[i])
  BY Zenon DEF MatchesAllFilters
<1> HIDE DEF named, positive
<1>8. MatchesAllFilters(filters) <=>
        /\ named(TRUE) \cap Described = {}
        /\ named(FALSE) = {} \/ named(FALSE) \cap Described # {}
  BY <1>4, <1>5, <1>6, <1>7, Zenon
<1> QED BY <1>8, Zenon DEF named

Nodes == OfKind({"tool", "installed", "subdirectory"})

\* Code: filter_conditions and filter_platforms (graph.rs 127-159) keep what is enabled.
LEMMA EnabledPasses ==
  ASSUME decl \in Manifests
  PROVE  Enabled = {p \in Nodes : Passes("condition", p) /\ Passes("platform", p)}
<1>1. ASSUME NEW p \in Nodes
      PROVE  IsEnabled(p) <=> Passes("condition", p) /\ Passes("platform", p)
  <2>1. /\ p \in Package /\ decl[p] \in Declaration
        /\ decl[p].kind = "tool" => decl[p].enabled_if = <<>> /\ decl[p].platforms = <<>>
    BY PlanAssumption DEF Nodes, OfKind
  <2>2. decl[p].enabled_if \in Condition /\ decl[p].platforms \in Filters
    BY <2>1 DEF Declaration, Filters
  <2>3. IsEnabled(p) <=> IsSatisfied(decl[p].enabled_if) /\ MatchesAllFilters(decl[p].platforms)
    BY <2>2, FiltersMean, Zenon DEF IsEnabled
  <2>4. Passes("condition", p) <=> IsSatisfied(decl[p].enabled_if)
    BY <2>2, ConditionTheorem, Zenon DEF Passes
  <2>5. decl[p].kind = "tool" => MatchesAllFilters(decl[p].platforms)
    BY <2>1 DEF MatchesAllFilters
  <2>6. Passes("platform", p) <=> decl[p].kind = "tool" \/ MatchesAllFilters(decl[p].platforms)
    BY DEF Passes
  <2> QED BY <2>3, <2>4, <2>5, <2>6, Zenon
<1>2. Enabled = {p \in Nodes : IsEnabled(p)}
  BY Zenon DEF Enabled, Nodes
<1> QED BY <1>1, <1>2

(***************************************************************************)
(* The layout: two lists joined, a node removed, and the index of a name.  *)
(***************************************************************************)

LEMMA Joined ==
  ASSUME NEW X, NEW s \in Seq(X), NEW t \in Seq(X)
  PROVE  /\ s \o t \in Seq(X)
         /\ NamesIn(s \o t) = NamesIn(s) \cup NamesIn(t)
         /\ Injective(s) /\ Injective(t) /\ NamesIn(s) \cap NamesIn(t) = {} => Injective(s \o t)
<1>1. PICK u : u = s \o t
  OBVIOUS
<1>2. /\ u \in Seq(X) /\ Len(u) = Len(s) + Len(t)
      /\ \A i \in 1 .. Len(s) : u[i] = s[i]
      /\ \A i \in Len(s) + 1 .. Len(s) + Len(t) : u[i] = t[i - Len(s)]
  BY <1>1
<1>3. /\ Len(s) \in Nat /\ Len(t) \in Nat
      /\ DOMAIN s = 1 .. Len(s) /\ DOMAIN t = 1 .. Len(t) /\ DOMAIN u = 1 .. Len(s) + Len(t)
  BY <1>2
<1>4. ASSUME NEW i \in DOMAIN u
      PROVE  \/ i \in DOMAIN s /\ u[i] = s[i]
             \/ i - Len(s) \in DOMAIN t /\ i \notin DOMAIN s /\ u[i] = t[i - Len(s)]
  BY <1>2, <1>3
<1>5. ASSUME NEW i \in DOMAIN s PROVE i \in DOMAIN u /\ u[i] = s[i]
  BY <1>2, <1>3
<1>6. ASSUME NEW i \in DOMAIN t PROVE i + Len(s) \in DOMAIN u /\ u[i + Len(s)] = t[i]
  <2>1. i + Len(s) \in Len(s) + 1 .. Len(s) + Len(t) /\ i + Len(s) - Len(s) = i
    BY <1>3
  <2> QED BY <1>2, <1>3, <2>1
<1>7. NamesIn(u) = NamesIn(s) \cup NamesIn(t)
  <2>1. NamesIn(u) \subseteq NamesIn(s) \cup NamesIn(t)
    BY <1>4 DEF NamesIn
  <2>2. NamesIn(s) \subseteq NamesIn(u)
    BY <1>5 DEF NamesIn
  <2>3. NamesIn(t) \subseteq NamesIn(u)
    BY <1>6 DEF NamesIn
  <2> QED BY <2>1, <2>2, <2>3
<1>8. ASSUME Injective(s), Injective(t), NamesIn(s) \cap NamesIn(t) = {},
             NEW i \in DOMAIN u, NEW j \in DOMAIN u, u[i] = u[j]
      PROVE  i = j
  <2>1. i \in Int /\ j \in Int /\ Len(s) \in Int
    BY <1>3
  <2>2. CASE i \in DOMAIN s /\ j \in DOMAIN s
    BY <1>5, <1>8, <2>2 DEF Injective
  <2>3. CASE i \in DOMAIN s /\ j \notin DOMAIN s
    BY <1>4, <1>8, <2>3 DEF NamesIn
  <2>4. CASE i \notin DOMAIN s /\ j \in DOMAIN s
    BY <1>4, <1>8, <2>4 DEF NamesIn
  <2>5. CASE i \notin DOMAIN s /\ j \notin DOMAIN s
    <3>1. /\ i - Len(s) \in DOMAIN t /\ j - Len(s) \in DOMAIN t
          /\ t[i - Len(s)] = t[j - Len(s)]
      BY <1>4, <1>8, <2>5
    <3>2. i - Len(s) = j - Len(s)
      BY <1>8, <3>1 DEF Injective
    <3> QED BY <2>1, <3>2
  <2> QED BY <2>2, <2>3, <2>4, <2>5
<1> QED BY <1>1, <1>2, <1>7, <1>8 DEF Injective

\* Code: remove_node takes one node and keeps every other, each once.
LEMMA SwapRemoveProperties ==
  ASSUME NEW X, NEW s \in Seq(X), NEW i \in DOMAIN s, Injective(s)
  PROVE  /\ SwapRemove(s, i) \in Seq(X) /\ Injective(SwapRemove(s, i))
         /\ NamesIn(SwapRemove(s, i)) = NamesIn(s) \ {s[i]}
<1>1. Len(s) \in Nat /\ DOMAIN s = 1 .. Len(s) /\ i \in 1 .. Len(s) /\ Len(s) - 1 \in Nat
  OBVIOUS
<1>2. PICK u : u = SwapRemove(s, i)
  OBVIOUS
<1>3. /\ u = [j \in 1 .. Len(s) - 1 |-> IF j = i THEN s[Len(s)] ELSE s[j]]
      /\ DOMAIN u = 1 .. Len(s) - 1
  BY <1>2 DEF SwapRemove
<1>4. u \in Seq(X)
  <2>1. \A j \in 1 .. Len(s) - 1 : u[j] \in X
    BY <1>1, <1>3
  <2> QED BY <1>1, <1>3, <2>1, SeqDef
<1>5. \A j \in DOMAIN u : /\ j \in 1 .. Len(s) /\ j # Len(s)
                          /\ u[j] = IF j = i THEN s[Len(s)] ELSE s[j]
  <2> TAKE j \in DOMAIN u
  <2>1. j \in 1 .. Len(s) - 1
    BY <1>3
  <2>2. j \in 1 .. Len(s) /\ j # Len(s)
    BY <1>1, <2>1
  <2>3. u[j] = IF j = i THEN s[Len(s)] ELSE s[j]
    BY <1>3, <2>1, Zenon
  <2> QED BY <2>2, <2>3
<1>6. Len(s) \in DOMAIN s
  BY <1>1
<1>7. Injective(u)
  BY <1>1, <1>5, <1>6 DEF Injective
<1>8. NamesIn(u) = NamesIn(s) \ {s[i]}
  <2>1. NamesIn(u) \subseteq NamesIn(s) \ {s[i]}
    BY <1>1, <1>5, <1>6 DEF NamesIn, Injective
  <2>2. ASSUME NEW k \in DOMAIN s, s[k] # s[i] PROVE s[k] \in NamesIn(u)
    <3>1. CASE k = Len(s)
      <4>1. i \in DOMAIN u
        BY <1>1, <1>3, <2>2, <3>1
      <4> QED BY <1>5, <3>1, <4>1 DEF NamesIn
    <3>2. CASE k # Len(s)
      <4>1. k \in DOMAIN u /\ k # i
        BY <1>1, <1>3, <2>2, <3>2
      <4> QED BY <1>5, <4>1 DEF NamesIn
    <3> QED BY <3>1, <3>2
  <2> QED BY <2>1, <2>2 DEF NamesIn
<1> QED BY <1>2, <1>4, <1>7, <1>8

LEMMA IndicesAreInverse ==
  ASSUME NEW s, Injective(s)
  PROVE  /\ DOMAIN IndicesOf(s) = NamesIn(s)
         /\ \A p \in NamesIn(s) : IndicesOf(s)[p] \in DOMAIN s /\ s[IndicesOf(s)[p]] = p
         /\ \A i \in DOMAIN s : s[i] \in NamesIn(s) /\ IndicesOf(s)[s[i]] = i
<1>1. \A p \in NamesIn(s) : \E i \in DOMAIN s : s[i] = p
  BY DEF NamesIn
<1>2. \A p \in NamesIn(s) : IndicesOf(s)[p] \in DOMAIN s /\ s[IndicesOf(s)[p]] = p
  <2> TAKE p \in NamesIn(s)
  <2>1. IndicesOf(s)[p] = CHOOSE i \in DOMAIN s : s[i] = p
    BY DEF IndicesOf
  <2> QED BY <1>1, <2>1
<1> QED BY <1>2 DEF NamesIn, IndicesOf, Injective


(***************************************************************************)
(* Reachability, by index and by name.                                     *)
(***************************************************************************)

\* next gives the successors of every node.
IsGraph(next) == \A k \in DOMAIN layout : next[k] \subseteq DOMAIN layout

LEMMA ReachableIsClosed ==
  ASSUME NEW next, IsGraph(next), NEW i \in DOMAIN layout
  PROVE  /\ Reachable(i, next) \subseteq DOMAIN layout
         /\ \A k \in Reachable(i, next) \cup {i} : next[k] \subseteq Reachable(i, next)
<1>1. Reachable(i, next) \subseteq DOMAIN layout
  BY DEF Reachable
<1>2. ASSUME NEW k \in Reachable(i, next) \cup {i}, NEW m \in next[k]
      PROVE  m \in Reachable(i, next)
  <2>1. m \in DOMAIN layout
    BY <1>1 DEF IsGraph
  <2>2. ASSUME NEW S \in SUBSET DOMAIN layout, \A n \in S \cup {i} : next[n] \subseteq S
        PROVE  m \in S
    <3>1. k \in S \cup {i}
      BY <2>2 DEF Reachable
    <3> QED BY <2>2, <3>1
  <2> QED BY <2>1, <2>2 DEF Reachable
<1> QED BY <1>1, <1>2

\* The least closed set is inside every closed set.
LEMMA ReachableIsLeast ==
  ASSUME NEW next, NEW i \in DOMAIN layout, NEW S \in SUBSET DOMAIN layout,
         \A k \in S \cup {i} : next[k] \subseteq S
  PROVE  Reachable(i, next) \subseteq S
BY DEF Reachable

LEMMA ReachableIsTransitive ==
  ASSUME NEW next, IsGraph(next), NEW i \in DOMAIN layout, NEW k \in Reachable(i, next)
  PROVE  Reachable(k, next) \subseteq Reachable(i, next)
<1>1. k \in DOMAIN layout /\ Reachable(i, next) \in SUBSET DOMAIN layout
  BY ReachableIsClosed
<1>2. \A n \in Reachable(i, next) \cup {k} : next[n] \subseteq Reachable(i, next)
  BY ReachableIsClosed
<1> QED BY <1>1, <1>2, ReachableIsLeast

\* What is reachable is a successor, or reachable from one.
LEMMA FirstStep ==
  ASSUME NEW next, IsGraph(next), NEW i \in DOMAIN layout, NEW j \in Reachable(i, next)
  PROVE  j \in next[i] \/ \E m \in next[i] : j \in Reachable(m, next)
<1> DEFINE T == {k \in DOMAIN layout : k \in next[i] \/ \E m \in next[i] : k \in Reachable(m, next)}
<1>1. ASSUME NEW k \in T \cup {i}, NEW n \in next[k] PROVE n \in T
  <2>1. n \in DOMAIN layout
    BY DEF IsGraph
  <2>2. CASE k = i
    BY <2>1, <2>2
  <2>3. CASE k \in next[i]
    <3>1. k \in DOMAIN layout /\ n \in Reachable(k, next)
      BY <2>3, ReachableIsClosed DEF IsGraph
    <3> QED BY <2>1, <2>3, <3>1
  <2>4. CASE k # i /\ k \notin next[i]
    <3>1. PICK m \in next[i] : k \in Reachable(m, next)
      BY <2>4
    <3>2. m \in DOMAIN layout /\ n \in Reachable(m, next)
      BY <3>1, ReachableIsClosed DEF IsGraph
    <3> QED BY <2>1, <3>2
  <2> QED BY <2>2, <2>3, <2>4
<1>2. T \in SUBSET DOMAIN layout
  OBVIOUS
<1>3. \A k \in T \cup {i} : next[k] \subseteq T
  BY <1>1
<1> HIDE DEF T
<1>4. j \in T
  BY <1>2, <1>3, ReachableIsLeast
<1> QED BY <1>4 DEF T

\* Code: reachable (graph.rs 330-347) gives the same answer in both directions.
LEMMA Converse ==
  ASSUME NEW next, NEW prev, IsGraph(next), IsGraph(prev),
         \A a, b \in DOMAIN layout : b \in next[a] <=> a \in prev[b],
         NEW i \in DOMAIN layout, NEW j \in Reachable(i, prev)
  PROVE  i \in Reachable(j, next)
<1> DEFINE T == {k \in DOMAIN layout : i \in Reachable(k, next)}
<1>1. ASSUME NEW k \in T \cup {i}, NEW m \in prev[k] PROVE m \in T
  <2>1. k \in DOMAIN layout /\ m \in DOMAIN layout /\ k \in next[m]
    BY DEF IsGraph
  <2>2. k \in Reachable(m, next)
    BY <2>1, ReachableIsClosed
  <2>3. CASE k = i
    BY <2>1, <2>2, <2>3
  <2>4. CASE i \in Reachable(k, next)
    BY <2>1, <2>2, <2>4, ReachableIsTransitive
  <2> QED BY <2>3, <2>4
<1>2. T \in SUBSET DOMAIN layout /\ \A k \in T \cup {i} : prev[k] \subseteq T
  BY <1>1
<1> HIDE DEF T
<1>3. j \in T
  BY <1>2, ReachableIsLeast
<1> QED BY <1>3 DEF T

\* The graph that connect_graph builds: a node of every enabled package, an edge per reference.
Graph ==
  /\ layout \in Seq(Package) /\ Injective(layout) /\ NamesIn(layout) = Enabled
  /\ \A i, j \in DOMAIN layout : <<i, j>> \in edges <=> layout[j] \in Refs(layout[i])

LEMMA GraphEdges ==
  ASSUME Graph
  PROVE  /\ IsGraph(Outgoing) /\ IsGraph(Incoming)
         /\ \A i, j \in DOMAIN layout : j \in Outgoing[i] <=> layout[j] \in Refs(layout[i])
         /\ \A i, j \in DOMAIN layout : j \in Incoming[i] <=> layout[i] \in Refs(layout[j])
         /\ \A i \in DOMAIN layout : layout[i] \in Enabled
         /\ \A p \in Enabled : \E i \in DOMAIN layout : layout[i] = p
<1>1. IsGraph(Outgoing) /\ IsGraph(Incoming)
  BY DEF IsGraph, Outgoing, Incoming
<1>2. \A i, j \in DOMAIN layout : j \in Outgoing[i] <=> layout[j] \in Refs(layout[i])
  BY DEF Graph, Outgoing
<1>3. \A i, j \in DOMAIN layout : j \in Incoming[i] <=> layout[i] \in Refs(layout[j])
  BY DEF Graph, Incoming
<1> QED BY <1>1, <1>2, <1>3 DEF Graph, NamesIn

LEMMA BothDirections ==
  ASSUME Graph, NEW i \in DOMAIN layout, NEW j \in DOMAIN layout
  PROVE  j \in Reachable(i, Incoming) <=> i \in Reachable(j, Outgoing)
<1>1. \A a, b \in DOMAIN layout : b \in Outgoing[a] <=> a \in Incoming[b]
  BY GraphEdges
<1>2. \A a, b \in DOMAIN layout : b \in Incoming[a] <=> a \in Outgoing[b]
  BY <1>1
<1> QED BY <1>1, <1>2, GraphEdges, Converse

Needs(p) == Refs(p) \cap Enabled

LEMMA NeedsAllIs ==
  ASSUME NEW p
  PROVE  NeedsAll(p) = {q \in Enabled : \A S \in SUBSET Enabled :
            (Needs(p) \subseteq S /\ \A r \in S : Needs(r) \subseteq S) => q \in S}
BY Zenon DEF NeedsAll, Needs

\* Code: what reachable finds by index is what a package needs by name.
LEMMA ReachableNames ==
  ASSUME Graph, NEW i \in DOMAIN layout
  PROVE  {layout[j] : j \in Reachable(i, Outgoing)} = NeedsAll(layout[i])
<1>1. Reachable(i, Outgoing) \subseteq DOMAIN layout
  BY DEF Reachable
<1>2. ASSUME NEW j \in Reachable(i, Outgoing) PROVE layout[j] \in NeedsAll(layout[i])
  <2>1. ASSUME NEW S \in SUBSET Enabled, Needs(layout[i]) \subseteq S, \A r \in S : Needs(r) \subseteq S
        PROVE  layout[j] \in S
    <3> DEFINE T == {k \in DOMAIN layout : layout[k] \in S}
    <3>1. ASSUME NEW k \in T \cup {i}, NEW m \in Outgoing[k] PROVE m \in T
      <4>1. k \in DOMAIN layout /\ m \in DOMAIN layout
        BY GraphEdges DEF IsGraph
      <4>2. layout[m] \in Needs(layout[k])
        BY <4>1, GraphEdges DEF Needs
      <4> QED BY <2>1, <4>1, <4>2
    <3>2. T \in SUBSET DOMAIN layout /\ \A k \in T \cup {i} : Outgoing[k] \subseteq T
      BY <3>1
    <3> HIDE DEF T
    <3>3. j \in T
      BY <3>2, ReachableIsLeast
    <3> QED BY <3>3 DEF T
  <2>2. layout[j] \in Enabled
    BY <1>1, GraphEdges
  <2> QED BY <2>1, <2>2, NeedsAllIs
<1>3. ASSUME NEW q \in NeedsAll(layout[i]) PROVE q \in {layout[j] : j \in Reachable(i, Outgoing)}
  <2> DEFINE S == {layout[j] : j \in Reachable(i, Outgoing)}
  <2>1. S \in SUBSET Enabled
    BY <1>1, GraphEdges
  <2>2. ASSUME NEW k \in Reachable(i, Outgoing) \cup {i}, NEW r \in Needs(layout[k]) PROVE r \in S
    <3>1. PICK m \in DOMAIN layout : layout[m] = r
      BY GraphEdges DEF Needs
    <3>2. k \in DOMAIN layout
      BY <1>1
    <3>3. m \in Outgoing[k]
      BY <3>1, <3>2, GraphEdges DEF Needs
    <3>4. m \in Reachable(i, Outgoing)
      BY <3>3, GraphEdges, ReachableIsClosed
    <3> QED BY <3>1, <3>4
  <2>3. Needs(layout[i]) \subseteq S /\ \A r \in S : Needs(r) \subseteq S
    BY <2>2
  <2> HIDE DEF S
  <2>4. q \in S
    BY <2>1, <2>3, NeedsAllIs
  <2> QED BY <2>4 DEF S
<1> QED BY <1>2, <1>3


(***************************************************************************)
(* Cycles, and packages built on their own that need one which is not.     *)
(***************************************************************************)

RefsAreGood ==
  \A p \in Enabled : /\ p \notin Refs(p) /\ \A r \in Refs(p) : decl[r].kind # "none"
                     /\ decl[p].tools \cap Enabled \subseteq OfKind({"tool"})
NoneOutside ==
  \A p \in Enabled : decl[p].kind = "installed" => Needs(p) \cap OfKind({"subdirectory"}) = {}
Acyclic == \A S \in SUBSET Enabled : S # {} => \E p \in S : Refs(p) \cap S = {}

LEMMA SoundParts ==
  Sound <=> OfKind({"declared twice"}) = {} /\ RefsAreGood /\ NoneOutside /\ Acyclic
BY Zenon DEF Sound, RefsAreGood, NoneOutside, Acyclic, Needs

LEMMA LayoutIsFinite ==
  ASSUME layout \in Seq(Package)
  PROVE  IsFiniteSet(DOMAIN layout)
<1>1. 1 \in Int /\ Len(layout) \in Int /\ DOMAIN layout = 1 .. Len(layout)
  OBVIOUS
<1>2. IsFiniteSet(1 .. Len(layout))
  BY <1>1, FS_Interval
<1> QED BY <1>1, <1>2

\* Code: toposort (graph.rs 206-238) fails exactly if packages refer to each other in a circle.
LEMMA Cycles ==
  ASSUME Graph
  PROVE  HasCycle <=> ~Acyclic
<1>0. IsGraph(Outgoing)
  BY GraphEdges
<1>1. ASSUME HasCycle PROVE ~Acyclic
  <2>1. PICK i \in DOMAIN layout : i \in Reachable(i, Outgoing)
    BY <1>1 DEF HasCycle
  <2> DEFINE T == {k \in DOMAIN layout : i \in Reachable(k, Outgoing)}
             S == {layout[k] : k \in T}
  <2>2. S \in SUBSET Enabled /\ S # {}
    BY <2>1, GraphEdges
  <2>3. ASSUME NEW k \in T PROVE Refs(layout[k]) \cap S # {}
    <3>1. CASE i \in Outgoing[k]
      <4>1. layout[i] \in Refs(layout[k]) /\ layout[i] \in S
        BY <3>1, <2>1, GraphEdges
      <4> QED BY <4>1
    <3>2. CASE i \notin Outgoing[k]
      <4>1. PICK m \in Outgoing[k] : i \in Reachable(m, Outgoing)
        BY <3>2, <1>0, FirstStep
      <4>2. m \in DOMAIN layout
        BY <1>0 DEF IsGraph
      <4>3. layout[m] \in Refs(layout[k]) /\ layout[m] \in S
        BY <4>1, <4>2, GraphEdges
      <4> QED BY <4>3
    <3> QED BY <3>1, <3>2
  <2>4. \A p \in S : Refs(p) \cap S # {}
    BY <2>3
  <2> HIDE DEF S
  <2> QED BY <2>2, <2>4 DEF Acyclic
<1>2. ASSUME ~Acyclic PROVE HasCycle
  <2>1. PICK S \in SUBSET Enabled : S # {} /\ \A p \in S : Refs(p) \cap S # {}
    BY <1>2 DEF Acyclic
  <2> DEFINE T == {k \in DOMAIN layout : layout[k] \in S}
             Size(k) == Cardinality(Reachable(k, Outgoing))
             Sizes == {Size(k) : k \in T}
  <2>2. T # {}
    BY <2>1, GraphEdges
  <2>3. ASSUME NEW k \in DOMAIN layout
        PROVE  IsFiniteSet(Reachable(k, Outgoing)) /\ Size(k) \in Nat
    <3>1. Reachable(k, Outgoing) \in SUBSET DOMAIN layout
      BY <1>0, ReachableIsClosed
    <3>2. IsFiniteSet(Reachable(k, Outgoing))
      BY <3>1, LayoutIsFinite, FS_Subset DEF Graph
    <3> QED BY <3>2, FS_CardinalityType
  <2>4. ASSUME NEW k \in T PROVE \E m \in T : m \in Outgoing[k]
    <3>1. PICK r \in S : r \in Refs(layout[k])
      BY <2>1
    <3>2. PICK m \in DOMAIN layout : layout[m] = r
      BY GraphEdges
    <3> QED BY <3>1, <3>2, GraphEdges
  <2>5. Sizes \in SUBSET Nat /\ Sizes # {}
    BY <2>2, <2>3
  <2> HIDE DEF Sizes
  <2>6. PICK n \in Sizes : \A s \in Sizes : n <= s
    BY <2>5, LeastElement
  <2>7. PICK k \in T : n = Size(k)
    BY <2>6 DEF Sizes
  <2>8. PICK m \in T : m \in Outgoing[k]
    BY <2>4
  <2>9. k \in DOMAIN layout /\ m \in DOMAIN layout
    OBVIOUS
  <2> HIDE DEF T
  <2>10. m \in Reachable(k, Outgoing) /\ Reachable(m, Outgoing) \subseteq Reachable(k, Outgoing)
    BY <1>0, <2>8, <2>9, ReachableIsClosed, ReachableIsTransitive
  <2>11. Size(m) \in Sizes
    BY <2>8 DEF Sizes
  <2>12. Size(k) <= Size(m)
    BY <2>6, <2>7, <2>11
  <2>13. Size(m) <= Size(k) /\ (Size(k) = Size(m) => Reachable(k, Outgoing) = Reachable(m, Outgoing))
    BY <2>3, <2>9, <2>10, FS_Subset
  <2>14. Reachable(k, Outgoing) = Reachable(m, Outgoing)
    BY <2>3, <2>9, <2>12, <2>13
  <2> QED BY <2>9, <2>10, <2>14 DEF HasCycle
<1> QED BY <1>1, <1>2

\* Code: the preflight (build.rs 245-263) looks for dependents at any distance, and refuses
\* what a direct reference shows.
LEMMA Preflights ==
  ASSUME Graph, decl \in Manifests
  PROVE  (\E i \in DOMAIN layout : IsSub(i) /\ Outside(i) # {}) <=> ~NoneOutside
<1>0. IsGraph(Outgoing) /\ IsGraph(Incoming)
  BY GraphEdges
<1>1. \A i \in DOMAIN layout : IsSub(i) <=> layout[i] \in OfKind({"subdirectory"})
  BY GraphEdges DEF IsSub, OfKind, Enabled
<1>2. ASSUME NoneOutside, NEW i \in DOMAIN layout, IsSub(i) PROVE Outside(i) = {}
  <2>1. ASSUME NEW j \in Outside(i) PROVE FALSE
    <3>1. j \in DOMAIN layout /\ ~IsSub(j) /\ i \in Reachable(j, Outgoing)
      BY BothDirections DEF Outside, Reachable
    <3> DEFINE T == {k \in DOMAIN layout : ~IsSub(k)}
    <3>2. ASSUME NEW k \in T, NEW m \in Outgoing[k] PROVE m \in T
      <4>1. m \in DOMAIN layout /\ layout[m] \in Needs(layout[k]) /\ layout[k] \in Enabled
        BY <1>0, GraphEdges DEF IsGraph, Needs
      <4>2. decl[layout[k]].kind \in {"tool", "installed"}
        <5>1. decl[layout[k]].kind \in {"tool", "installed", "subdirectory"}
          BY <4>1, Zenon DEF Enabled, OfKind
        <5>2. decl[layout[k]].kind # "subdirectory"
          BY <3>1, Zenon DEF IsSub
        <5> QED BY <5>1, <5>2
      <4>3. decl[layout[k]].kind # "tool"
        <5>1. layout[k] \in Package
          BY <4>1 DEF Enabled, OfKind
        <5> QED BY <4>1, <5>1, PlanAssumption DEF Needs, Refs
      <4>4. layout[m] \notin OfKind({"subdirectory"})
        BY <4>1, <4>2, <4>3, <1>2 DEF NoneOutside
      <4> QED BY <4>1, <4>4, <1>1
    <3>3. j \in T /\ T \in SUBSET DOMAIN layout /\ \A k \in T \cup {j} : Outgoing[k] \subseteq T
      BY <3>1, <3>2
    <3> HIDE DEF T
    <3>4. i \in T
      BY <3>1, <3>3, ReachableIsLeast
    <3> QED BY <3>4, <1>2 DEF T
  <2> QED BY <2>1
<1>3. ASSUME NEW p \in Enabled, decl[p].kind = "installed",
             NEW r \in Needs(p), r \in OfKind({"subdirectory"})
      PROVE  \E i \in DOMAIN layout : IsSub(i) /\ Outside(i) # {}
  <2>1. PICK j \in DOMAIN layout : layout[j] = p
    BY GraphEdges
  <2>2. PICK i \in DOMAIN layout : layout[i] = r
    BY GraphEdges DEF Needs
  <2>3. j \in Incoming[i]
    BY <2>1, <2>2, GraphEdges DEF Needs
  <2>4. j \in Reachable(i, Incoming)
    BY <1>0, <2>3, ReachableIsClosed
  <2>5. ~IsSub(j) /\ IsSub(i)
    BY <1>1, <1>3, <2>1, <2>2 DEF IsSub
  <2> QED BY <2>4, <2>5 DEF Outside
<1> QED BY <1>2, <1>3 DEF NoneOutside


(***************************************************************************)
(* What a build id and the rules of a package are made of.                 *)
(***************************************************************************)

LEMMA AllNames == Names \in Seq(Package) /\ NamesIn(Names) = Package /\ Injective(Names)
BY PlanAssumption DEF Package, NamesIn, Injective

LEMMA NameOrder ==
  ASSUME NEW S
  PROVE  /\ InNameOrder(S) \in Seq(Package) /\ NamesIn(InNameOrder(S)) = Package \cap S
         /\ Injective(InNameOrder(S))
BY AllNames, FilterProperties DEF InNameOrder

\* Whatever is closed under needs has all that its packages need.
LEMMA ClosedHasAll ==
  ASSUME NEW S, \A r \in S : Needs(r) \subseteq S, NEW p, Needs(p) \subseteq S
  PROVE  NeedsAll(p) \subseteq S
<1>1. S \cap Enabled \in SUBSET Enabled
  OBVIOUS
<1>2. Needs(p) \subseteq S \cap Enabled /\ \A r \in S \cap Enabled : Needs(r) \subseteq S \cap Enabled
  BY DEF Needs
<1>3. NeedsAll(p) \subseteq S \cap Enabled
  BY <1>1, <1>2, NeedsAllIs
<1> QED BY <1>3

\* Code: build_node (build.rs 601-607): the filter_map leaves nothing out.
LEMMA NothingLeftOut ==
  ASSUME Graph, NEW built, \A r \in built : Needs(r) \subseteq built,
         NEW i \in DOMAIN layout, \A j \in Outgoing[i] : layout[j] \in built
  PROVE  /\ NeedsAll(layout[i]) \subseteq built
         /\ Needs(layout[i]) \subseteq built
         /\ Filter(OrderedDependencies(i), built) = InNameOrder(NeedsAll(layout[i]))
<1>1. Needs(layout[i]) \subseteq built
  <2>1. ASSUME NEW r \in Needs(layout[i]) PROVE r \in built
    <3>1. PICK m \in DOMAIN layout : layout[m] = r
      BY GraphEdges DEF Needs
    <3>2. m \in Outgoing[i]
      BY <3>1, GraphEdges DEF Needs
    <3> QED BY <3>1, <3>2
  <2> QED BY <2>1
<1>2. NeedsAll(layout[i]) \subseteq built
  BY <1>1, ClosedHasAll
<1>3. OrderedDependencies(i) = InNameOrder(NeedsAll(layout[i]))
  BY ReachableNames, Zenon DEF OrderedDependencies
<1>4. InNameOrder(NeedsAll(layout[i])) \in Seq(Package)
      /\ NamesIn(InNameOrder(NeedsAll(layout[i]))) \subseteq built
  BY <1>2, NameOrder
<1>5. Filter(InNameOrder(NeedsAll(layout[i])), built) = InNameOrder(NeedsAll(layout[i]))
  BY <1>4, FilterProperties
<1> QED BY <1>1, <1>2, <1>3, <1>5, Zenon

CascadeRules(rules) == {d \in Cascade : \E k \in DOMAIN rules : rules[k] = <<"cascade", d>>}

\* Code: resolve_for_node (strategy.rs 140-171): which cascade rules there are.
LEMMA RulesOf ==
  ASSUME NEW p \in Package, NEW dependents \in Seq(Package)
  PROVE  CascadeRules(RulesFor(p, dependents)) = {d \in Cascade : d = p \/ d \in NamesIn(dependents)}
<1> DEFINE own == IF p \in Cascade THEN <<p>> ELSE <<>>
           cascading == Filter(dependents, Cascade) \o own
           first == [k \in DOMAIN cascading |-> <<"cascade", cascading[k]>>]
           last == IF p \in Exact THEN <<<<"exact", p>>>> ELSE <<>>
           Rule == {"cascade", "exact"} \X Package
<1>0. <<"exact", p>> \in Rule /\ \A q \in Package : <<"cascade", q>> \in Rule
  OBVIOUS
<1> HIDE DEF Rule
<1>1. own \in Seq(Package) /\ NamesIn(own) = {p} \cap Cascade
  BY DEF NamesIn
<1>2. Filter(dependents, Cascade) \in Seq(Package)
      /\ NamesIn(Filter(dependents, Cascade)) = NamesIn(dependents) \cap Cascade
  BY FilterProperties
<1> HIDE DEF own
<1>3. cascading \in Seq(Package)
      /\ NamesIn(cascading) = (NamesIn(dependents) \cap Cascade) \cup ({p} \cap Cascade)
  BY <1>1, <1>2, Joined
<1> HIDE DEF cascading
<1>4. first \in Seq(Rule) /\ NamesIn(first) = {<<"cascade", d>> : d \in NamesIn(cascading)}
  <2>1. DOMAIN cascading = 1 .. Len(cascading) /\ Len(cascading) \in Nat
    BY <1>3
  <2>2. \A k \in DOMAIN cascading : cascading[k] \in Package
    BY <1>3
  <2>3. first \in [1 .. Len(cascading) -> Rule]
    BY <1>0, <2>1, <2>2
  <2>4. first \in Seq(Rule)
    BY <2>1, <2>3, SeqDef
  <2>5. NamesIn(first) = {<<"cascade", d>> : d \in NamesIn(cascading)}
    BY DEF NamesIn
  <2> QED BY <2>4, <2>5
<1>5. last \in Seq(Rule) /\ NamesIn(last) \subseteq {<<"exact", p>>}
  <2> PICK rule \in Rule : rule = <<"exact", p>>
    BY <1>0
  <2>1. <<rule>> \in Seq(Rule) /\ NamesIn(<<rule>>) = {rule}
    BY DEF NamesIn
  <2>2. <<>> \in Seq(Rule) /\ NamesIn(<<>>) = {}
    BY DEF NamesIn
  <2> QED BY <2>1, <2>2
<1>6. RulesFor(p, dependents) = first \o last
  BY Zenon DEF RulesFor, cascading, own
<1> HIDE DEF first, last
<1>7. NamesIn(first \o last) = {<<"cascade", d>> : d \in NamesIn(cascading)} \cup NamesIn(last)
  BY <1>4, <1>5, Joined
<1>8. \A d : <<"cascade", d>> # <<"exact", p>>
  OBVIOUS
<1>9. \A d \in Cascade : <<"cascade", d>> \in NamesIn(first \o last) <=> d \in NamesIn(cascading)
  <2> TAKE d \in Cascade
  <2>1. \A e : <<"cascade", d>> = <<"cascade", e>> => d = e
    OBVIOUS
  <2>2. <<"cascade", d>> \notin NamesIn(last)
    BY <1>5, <1>8
  <2>3. <<"cascade", d>> \in NamesIn(first \o last)
          <=> <<"cascade", d>> \in {<<"cascade", e>> : e \in NamesIn(cascading)}
    BY <1>7, <2>2
  <2> QED BY <2>1, <2>3
<1>10. CascadeRules(first \o last) = {d \in Cascade : <<"cascade", d>> \in NamesIn(first \o last)}
  <2> PICK all : all = first \o last
    OBVIOUS
  <2>1. CascadeRules(all) = {d \in Cascade : <<"cascade", d>> \in NamesIn(all)}
    BY DEF NamesIn, CascadeRules
  <2> QED BY <2>1
<1>11. CascadeRules(first \o last) = {d \in Cascade : d = p \/ d \in NamesIn(dependents)}
  BY <1>3, <1>9, <1>10
<1> QED BY <1>6, <1>11, Zenon

\* Code: the dependents that strategy.rs 152-157 finds are those that need the package.
LEMMA RulesReach ==
  ASSUME Graph, NEW i \in DOMAIN layout
  PROVE  CascadeRules(RulesFor(layout[i], Dependents(i)))
           = {d \in Enabled \cap Cascade : d = layout[i] \/ layout[i] \in NeedsAll(d)}
<1> PICK S : S = {layout[j] : j \in Reachable(i, Incoming)}
  OBVIOUS
<1>1. layout \in Seq(Package) /\ layout[i] \in Package
  BY DEF Graph
<1>2. S \subseteq NamesIn(layout)
  BY DEF NamesIn, Reachable
<1>3. Dependents(i) \in Seq(Package) /\ NamesIn(Dependents(i)) = S
  <2>1. Dependents(i) = Filter(layout, S)
    BY Zenon DEF Dependents
  <2> QED BY <1>1, <1>2, <2>1, FilterProperties
<1>4. ASSUME NEW d
      PROVE  d \in S <=> d \in Enabled /\ layout[i] \in NeedsAll(d)
  <2>1. ASSUME d \in S PROVE d \in Enabled /\ layout[i] \in NeedsAll(d)
    <3>1. PICK j \in Reachable(i, Incoming) : layout[j] = d
      BY <2>1
    <3>2. j \in DOMAIN layout /\ i \in Reachable(j, Outgoing)
      BY BothDirections DEF Reachable
    <3> QED BY <3>1, <3>2, ReachableNames, GraphEdges
  <2>2. ASSUME d \in Enabled, layout[i] \in NeedsAll(d) PROVE d \in S
    <3>1. PICK j \in DOMAIN layout : layout[j] = d
      BY <2>2, GraphEdges
    <3>2. PICK k \in Reachable(j, Outgoing) : layout[k] = layout[i]
      BY <2>2, <3>1, ReachableNames
    <3>3. k = i
      BY <3>2 DEF Graph, Injective, Reachable
    <3>4. j \in Reachable(i, Incoming)
      BY <3>2, <3>3, BothDirections
    <3> QED BY <3>1, <3>4
  <2> QED BY <2>1, <2>2
<1>5. layout[i] \in Enabled
  BY GraphEdges
<1>6. CascadeRules(RulesFor(layout[i], Dependents(i))) = {d \in Cascade : d = layout[i] \/ d \in S}
  BY <1>1, <1>3, RulesOf
<1> QED BY <1>4, <1>5, <1>6


(***************************************************************************)
(* The inductive invariant: what each stage has settled.                   *)
(***************************************************************************)

Phases == {"declare", "condition", "platform", "connect", "order", "preflight", "build", "done",
           "failed"}

LayoutInv ==
  /\ decl \in Manifests
  /\ phase \in Phases
  /\ layout \in Seq(Package) /\ Injective(layout) /\ indices = IndicesOf(layout)
  /\ edges \subseteq (DOMAIN layout) \X (DOMAIN layout)

\* What the stages that are passed have left of the packages, and of the reasons to refuse.
StageInv ==
  /\ phase = "declare" => layout = <<>>
  /\ phase \notin {"declare", "failed"} =>
       /\ OfKind({"declared twice"}) = {}
       /\ Enabled \subseteq NamesIn(layout) /\ NamesIn(layout) \subseteq Nodes
  /\ phase \in {"platform", "connect"} => \A p \in NamesIn(layout) : Passes("condition", p)
  /\ phase = "connect" => NamesIn(layout) = Enabled
  /\ phase \in {"declare", "condition", "platform", "connect"} => edges = {}
  /\ phase \in {"order", "preflight", "build", "done"} => Graph /\ RefsAreGood
  /\ phase = "preflight" => Acyclic
  /\ phase \in {"build", "done"} => Sound
  /\ phase = "failed" => ~Sound

\* Packages get their ids after what they need, and keep them.
IdsInv ==
  /\ phase \notin {"build", "done"} => ids = <<>> /\ config = <<>>
  /\ DOMAIN config = DOMAIN ids /\ DOMAIN ids \subseteq NamesIn(layout)
  /\ \A p \in DOMAIN ids : Needs(p) \subseteq DOMAIN ids
  /\ IdsNameThePackages

IInv == LayoutInv /\ StageInv /\ IdsInv


\* The manifest stays, and what it means with it.
LEMMA DeclStays ==
  ASSUME decl' = decl
  PROVE  /\ Enabled' = Enabled /\ Nodes' = Nodes
         /\ OfKind({"declared twice"})' = OfKind({"declared twice"})
         /\ Sound' <=> Sound
         /\ RefsAreGood' <=> RefsAreGood
         /\ Acyclic' <=> Acyclic
         /\ \A p : Refs(p)' = Refs(p) /\ Needs(p)' = Needs(p) /\ NeedsAll(p)' = NeedsAll(p)
<1> USE DEF OfKind, Refs
<1>1. Enabled' = Enabled
  BY DEF Enabled, IsEnabled
<1>2. Nodes' = Nodes /\ OfKind({"declared twice"})' = OfKind({"declared twice"})
  BY DEF Nodes
<1>3. \A p : Refs(p)' = Refs(p) /\ Needs(p)' = Needs(p)
  BY <1>1 DEF Needs
<1>4. RefsAreGood' <=> RefsAreGood
  BY <1>1 DEF RefsAreGood
<1>5. Acyclic' <=> Acyclic
  BY <1>1 DEF Acyclic
<1>6. Sound' <=> Sound
  BY <1>1 DEF Sound
<1>7. ASSUME NEW p PROVE NeedsAll(p)' = NeedsAll(p)
  BY <1>1 DEF NeedsAll
<1> QED BY <1>1, <1>2, <1>3, <1>4, <1>5, <1>6, <1>7

LEMMA GraphStays ==
  ASSUME decl' = decl, layout' = layout, edges' = edges
  PROVE  Graph' <=> Graph
<1>1. NamesIn(layout)' = NamesIn(layout) /\ (Injective(layout)' <=> Injective(layout))
  BY DEF NamesIn, Injective
<1>2. Enabled' = Enabled
  BY DeclStays
<1>3. (\A i, j \in DOMAIN layout : <<i, j>> \in edges <=> layout[j] \in Refs(layout[i]))'
        <=> \A i, j \in DOMAIN layout : <<i, j>> \in edges <=> layout[j] \in Refs(layout[i])
  BY DEF Refs
<1> QED BY <1>1, <1>2, <1>3 DEF Graph

\* No ids.
LEMMA IdsStay ==
  ASSUME decl' = decl, ids' = ids, config' = config, ids = <<>>, config = <<>>
  PROVE  IdsInv'
<1>1. DOMAIN <<>> = {}
  OBVIOUS
<1> QED BY <1>1 DEF IdsInv, IdsNameThePackages, IdsNameDependencies, CascadeReachesAll

LEMMA IdsStayInBuild ==
  ASSUME IdsInv, decl' = decl, layout' = layout, ids' = ids, config' = config,
         phase' \in {"build", "done"}
  PROVE  IdsInv'
<1>1. IdsNameDependencies'
  <2>1. IdsNameDependencies
    BY DEF IdsInv, IdsNameThePackages
  <2> SUFFICES ASSUME NEW p \in DOMAIN ids'
               PROVE  (LET needed == InNameOrder(NeedsAll(p))
                       IN ids[p][3] = [k \in DOMAIN needed |-> ids[needed[k]]])'
    BY DEF IdsNameDependencies
  <2>2. NeedsAll(p)' = NeedsAll(p)
    BY DeclStays
  <2>3. InNameOrder(NeedsAll(p))' = InNameOrder(NeedsAll(p))
    BY <2>2 DEF InNameOrder
  <2>4. p \in DOMAIN ids
    OBVIOUS
  <2>5. LET needed == InNameOrder(NeedsAll(p))
        IN ids[p][3] = [k \in DOMAIN needed |-> ids[needed[k]]]
    BY <2>1, <2>4 DEF IdsNameDependencies
  <2> QED BY <2>3, <2>5
<1>2. CascadeReachesAll'
  <2>1. CascadeReachesAll
    BY DEF IdsInv, IdsNameThePackages
  <2> SUFFICES ASSUME NEW p \in DOMAIN config'
               PROVE  ({d \in Cascade : \E k \in DOMAIN config[p] : config[p][k] = <<"cascade", d>>}
                        = {d \in Enabled \cap Cascade : d = p \/ p \in NeedsAll(d)})'
    BY DEF CascadeReachesAll
  <2>2. \A d : NeedsAll(d)' = NeedsAll(d)
    BY DeclStays
  <2>3. Enabled' = Enabled
    BY DeclStays
  <2>4. {d \in Enabled \cap Cascade : d = p \/ p \in NeedsAll(d)}'
          = {d \in Enabled \cap Cascade : d = p \/ p \in NeedsAll(d)}
    BY <2>2, <2>3
  <2>5. {d \in Cascade : \E k \in DOMAIN config[p] : config[p][k] = <<"cascade", d>>}
          = {d \in Enabled \cap Cascade : d = p \/ p \in NeedsAll(d)}
    BY <2>1 DEF CascadeReachesAll
  <2> QED BY <2>4, <2>5
<1> QED BY <1>1, <1>2, DeclStays DEF IdsInv, IdsNameThePackages, NamesIn


LEMMA InitInv == Init => IInv
<1> SUFFICES ASSUME Init PROVE IInv
  OBVIOUS
<1>1. <<>> \in Seq(Package) /\ DOMAIN <<>> = {}
  OBVIOUS
<1>2. LayoutInv
  BY <1>1 DEF Init, LayoutInv, Phases, Injective
<1>3. StageInv
  BY DEF Init, StageInv
<1>4. IdsInv
  BY <1>1 DEF Init, IdsInv, IdsNameThePackages, IdsNameDependencies, CascadeReachesAll
<1> QED BY <1>2, <1>3, <1>4 DEF IInv

LEMMA DeclareStep ==
  ASSUME IInv, Declare
  PROVE  IInv'
<1>1. decl' = decl /\ edges' = edges /\ config' = config /\ ids' = ids /\ phase = "declare"
  BY DEF Declare
<1>2. /\ decl \in Manifests /\ layout = <<>> /\ edges = {} /\ ids = <<>> /\ config = <<>>
      /\ indices = IndicesOf(layout)
  BY <1>1 DEF IInv, LayoutInv, StageInv, IdsInv
<1>3. IdsInv'
  BY <1>1, <1>2, IdsStay
<1>4. CASE OfKind({"declared twice"}) # {}
  <2>1. phase' = "failed" /\ layout' = layout /\ indices' = indices
    BY <1>4 DEF Declare
  <2>2. ~Sound'
    BY <1>1, <1>4, DeclStays, SoundParts
  <2>3. LayoutInv'
    BY <1>1, <2>1 DEF IInv, LayoutInv, Phases, Injective, IndicesOf, NamesIn
  <2>4. StageInv'
    BY <1>1, <1>2, <2>1, <2>2 DEF StageInv
  <2> QED BY <1>3, <2>3, <2>4 DEF IInv
<1>5. CASE OfKind({"declared twice"}) = {}
  <2> DEFINE tools == InNameOrder(OfKind({"tool"}))
             rest == InNameOrder(OfKind({"installed", "subdirectory"}))
  <2>1. phase' = "condition" /\ layout' = tools \o rest /\ indices' = IndicesOf(layout')
    BY <1>5 DEF Declare
  <2>2. /\ tools \in Seq(Package) /\ Injective(tools) /\ NamesIn(tools) = OfKind({"tool"})
        /\ rest \in Seq(Package) /\ Injective(rest)
        /\ NamesIn(rest) = OfKind({"installed", "subdirectory"})
    BY NameOrder DEF OfKind
  <2>3. OfKind({"tool"}) \cap OfKind({"installed", "subdirectory"}) = {}
    BY DEF OfKind
  <2>4. Nodes = OfKind({"tool"}) \cup OfKind({"installed", "subdirectory"})
    BY DEF Nodes, OfKind
  <2> PICK joined : joined = tools \o rest
    OBVIOUS
  <2>5. joined \in Seq(Package) /\ Injective(joined) /\ NamesIn(joined) = Nodes
    <3> HIDE DEF tools, rest
    <3> QED BY <2>2, <2>3, <2>4, Joined
  <2>6. layout' = joined
    BY <2>1
  <2>7. NamesIn(layout)' = Nodes /\ Injective(layout)'
    BY <2>5, <2>6 DEF NamesIn, Injective
  <2>8. Enabled \subseteq Nodes
    BY DEF Enabled, Nodes
  <2>9. LayoutInv'
    <3>1. indices' = IndicesOf(layout)'
      BY <2>1 DEF IndicesOf, NamesIn
    <3> QED BY <1>1, <1>2, <2>1, <2>5, <2>6, <2>7, <3>1 DEF LayoutInv, Phases
  <2>10. StageInv'
    <3>1. Enabled' \subseteq NamesIn(layout)' /\ NamesIn(layout)' \subseteq Nodes'
      BY <1>1, <2>7, <2>8, DeclStays
    <3>2. OfKind({"declared twice"})' = {}
      BY <1>1, <1>5, DeclStays
    <3> QED BY <1>1, <1>2, <2>1, <3>1, <3>2 DEF StageInv
  <2> QED BY <1>3, <2>9, <2>10 DEF IInv
<1> QED BY <1>4, <1>5


LEMMA DropStep ==
  ASSUME IInv, NEW filter \in {"condition", "platform"}, Drop(filter)
  PROVE  IInv'
<1>1. /\ phase = filter /\ phase' = phase /\ decl' = decl /\ edges' = edges
      /\ config' = config /\ ids' = ids
  BY DEF Drop
<1>2. PICK i \in Dropped(filter) : layout' = SwapRemove(layout, i) /\ indices' = Rebuilt(layout', layout[i])
  BY DEF Drop
<1>3. /\ decl \in Manifests /\ layout \in Seq(Package) /\ Injective(layout)
      /\ edges = {} /\ ids = <<>> /\ config = <<>>
      /\ OfKind({"declared twice"}) = {}
      /\ Enabled \subseteq NamesIn(layout) /\ NamesIn(layout) \subseteq Nodes
  BY <1>1 DEF IInv, LayoutInv, StageInv, IdsInv
<1>4. i \in DOMAIN layout /\ ~Passes(filter, layout[i])
  BY DEF Dropped
<1> PICK s : s = SwapRemove(layout, i)
  OBVIOUS
<1>5. s \in Seq(Package) /\ Injective(s) /\ NamesIn(s) = NamesIn(layout) \ {layout[i]}
  BY <1>3, <1>4, SwapRemoveProperties
<1>6. layout' = s
  BY <1>2
<1>7. layout[i] \notin Enabled
  BY <1>3, <1>4, EnabledPasses
<1>8. NamesIn(layout)' = NamesIn(layout) \ {layout[i]} /\ Injective(layout)'
  <2>1. NamesIn(layout)' = NamesIn(s)
    BY <1>6 DEF NamesIn
  <2>2. Injective(layout)'
    BY <1>5, <1>6 DEF Injective
  <2> QED BY <1>5, <2>1, <2>2, Zenon
<1>9. IdsInv'
  BY <1>1, <1>3, IdsStay
<1>10. LayoutInv'
  <2>1. indices' = IndicesOf(layout)'
    BY <1>2 DEF Rebuilt, IndicesOf, NamesIn
  <2> QED BY <1>1, <1>3, <1>5, <1>6, <1>8, <2>1 DEF LayoutInv, Phases
<1>11. StageInv'
  <2>1. Enabled' \subseteq NamesIn(layout)' /\ NamesIn(layout)' \subseteq Nodes'
    BY <1>1, <1>3, <1>7, <1>8, DeclStays
  <2>2. OfKind({"declared twice"})' = {}
    BY <1>1, <1>3, DeclStays
  <2>3. phase = "platform" => \A p \in NamesIn(layout)' : Passes("condition", p)'
    <3> HAVE phase = "platform"
    <3>1. \A p \in NamesIn(layout) : Passes("condition", p)
      BY DEF IInv, StageInv
    <3> QED BY <1>1, <1>8, <3>1 DEF Passes
  <2> QED BY <1>1, <1>3, <2>1, <2>2, <2>3 DEF StageInv
<1> QED BY <1>9, <1>10, <1>11 DEF IInv

LEMMA FilteredStep ==
  ASSUME IInv, Filtered("condition", "platform") \/ Filtered("platform", "connect")
  PROVE  IInv'
<1>1. /\ decl' = decl /\ layout' = layout /\ indices' = indices /\ edges' = edges
      /\ config' = config /\ ids' = ids
      /\ phase \in {"condition", "platform"}
      /\ phase' = IF phase = "condition" THEN "platform" ELSE "connect"
      /\ Dropped(phase) = {}
  BY DEF Filtered
<1>2. /\ decl \in Manifests /\ ids = <<>> /\ config = <<>> /\ edges = {}
      /\ OfKind({"declared twice"}) = {}
      /\ Enabled \subseteq NamesIn(layout) /\ NamesIn(layout) \subseteq Nodes
  BY <1>1 DEF IInv, LayoutInv, StageInv, IdsInv
<1>3. IdsInv'
  BY <1>1, <1>2, IdsStay
<1>4. LayoutInv'
  BY <1>1 DEF IInv, LayoutInv, Phases, Injective, IndicesOf, NamesIn
<1>5. \A p \in NamesIn(layout) : Passes(phase, p)
  BY <1>1 DEF Dropped, NamesIn
<1>6. \A p \in NamesIn(layout) : Passes("condition", p)
  BY <1>1, <1>5 DEF IInv, StageInv
<1>7. phase = "platform" => NamesIn(layout) = Enabled
  BY <1>2, <1>5, <1>6, EnabledPasses
<1>8. NamesIn(layout)' = NamesIn(layout) /\ \A p \in NamesIn(layout) : Passes("condition", p)'
  BY <1>1, <1>6 DEF NamesIn, Passes
<1>9. StageInv'
  <2>1. Enabled' = Enabled /\ Nodes' = Nodes /\ OfKind({"declared twice"})' = {}
    BY <1>1, <1>2, DeclStays
  <2> QED BY <1>1, <1>2, <1>7, <1>8, <2>1 DEF StageInv
<1> QED BY <1>3, <1>4, <1>9 DEF IInv

LEMMA ConnectStep ==
  ASSUME IInv, Connect
  PROVE  IInv'
<1>1. /\ decl' = decl /\ layout' = layout /\ indices' = indices
      /\ config' = config /\ ids' = ids /\ phase = "connect"
  BY DEF Connect
<1>2. /\ decl \in Manifests /\ ids = <<>> /\ config = <<>> /\ edges = {}
      /\ layout \in Seq(Package) /\ Injective(layout) /\ indices = IndicesOf(layout)
      /\ OfKind({"declared twice"}) = {} /\ NamesIn(layout) = Enabled
      /\ NamesIn(layout) \subseteq Nodes
  BY <1>1 DEF IInv, LayoutInv, StageInv, IdsInv
<1>3. /\ DOMAIN indices = Enabled
      /\ \A p \in Enabled : indices[p] \in DOMAIN layout /\ layout[indices[p]] = p
      /\ \A i \in DOMAIN layout : layout[i] \in Enabled /\ indices[layout[i]] = i
  BY <1>2, IndicesAreInverse
<1>4. IdsInv'
  BY <1>1, <1>2, IdsStay
<1>5. ASSUME NEW p \in Enabled
      PROVE  (\A r \in Refs(p) : ~IsBadRef(p, r)) <=>
               /\ p \notin Refs(p) /\ \A r \in Refs(p) : decl[r].kind # "none"
               /\ decl[p].tools \cap Enabled \subseteq OfKind({"tool"})
  <2>1. Enabled \subseteq Package
    BY DEF Enabled, OfKind
  <2>2. decl[p].tools \subseteq Refs(p)
    BY DEF Refs
  <2>3. \A r \in Enabled : r \in OfKind({"tool"}) <=> decl[r].kind = "tool"
    BY <2>1 DEF OfKind
  <2> QED BY <1>3, <2>2, <2>3 DEF IsBadRef
<1>6. RefsAreGood <=> ~ \E p \in NamesIn(layout) : \E r \in Refs(p) : IsBadRef(p, r)
  BY <1>2, <1>5 DEF RefsAreGood
<1>7. CASE ~RefsAreGood
  <2>1. phase' = "failed" /\ edges' = edges
    BY <1>6, <1>7 DEF Connect
  <2>2. LayoutInv'
    BY <1>1, <2>1 DEF IInv, LayoutInv, Phases, Injective, IndicesOf, NamesIn
  <2>3. StageInv'
    BY <1>1, <1>7, <2>1, SoundParts, DeclStays DEF StageInv
  <2> QED BY <1>4, <2>2, <2>3 DEF IInv
<1>8. CASE RefsAreGood
  <2>1. phase' = "order"
        /\ edges' = UNION {{<<i, indices[r]>> : r \in Refs(layout[i]) \cap DOMAIN indices}
                            : i \in DOMAIN layout}
    BY <1>6, <1>8 DEF Connect
  <2>2. ASSUME NEW i \in DOMAIN layout, NEW j \in DOMAIN layout
        PROVE  <<i, j>> \in edges' <=> layout[j] \in Refs(layout[i])
    <3>1. ASSUME <<i, j>> \in edges' PROVE layout[j] \in Refs(layout[i])
      <4>1. PICK k \in DOMAIN layout :
              <<i, j>> \in {<<k, indices[r]>> : r \in Refs(layout[k]) \cap DOMAIN indices}
        BY <2>1, <3>1
      <4>2. PICK r \in Refs(layout[k]) \cap DOMAIN indices : <<i, j>> = <<k, indices[r]>>
        BY <4>1
      <4>3. i = k /\ j = indices[r]
        BY <4>2
      <4> QED BY <1>3, <4>2, <4>3
    <3>2. ASSUME layout[j] \in Refs(layout[i]) PROVE <<i, j>> \in edges'
      <4>1. layout[j] \in Refs(layout[i]) \cap DOMAIN indices /\ indices[layout[j]] = j
        BY <1>3, <3>2
      <4>2. <<i, j>> \in {<<i, indices[r]>> : r \in Refs(layout[i]) \cap DOMAIN indices}
        BY <4>1
      <4> QED BY <2>1, <4>2
    <3> QED BY <3>1, <3>2
  <2>3. edges' \subseteq (DOMAIN layout) \X (DOMAIN layout)
    <3>1. ASSUME NEW e \in edges' PROVE e \in (DOMAIN layout) \X (DOMAIN layout)
      <4>1. PICK k \in DOMAIN layout :
              e \in {<<k, indices[r]>> : r \in Refs(layout[k]) \cap DOMAIN indices}
        BY <2>1
      <4> QED BY <1>3, <4>1
    <3> QED BY <3>1
  <2>4. LayoutInv'
    BY <1>1, <2>1, <2>3 DEF IInv, LayoutInv, Phases, Injective, IndicesOf, NamesIn
  <2>5. Graph'
    <3>1. Enabled' = Enabled
      BY <1>1, DeclStays
    <3> QED BY <1>1, <1>2, <2>2, <3>1 DEF Graph, NamesIn, Injective, Refs
  <2>6. StageInv'
    <3>1. /\ Enabled' = Enabled /\ Nodes' = Nodes /\ OfKind({"declared twice"})' = {}
          /\ RefsAreGood'
      BY <1>1, <1>2, <1>8, DeclStays
    <3>2. NamesIn(layout)' = NamesIn(layout)
      BY <1>1 DEF NamesIn
    <3> QED BY <1>1, <1>2, <2>1, <2>5, <3>1, <3>2 DEF StageInv
  <2> QED BY <1>4, <2>4, <2>6 DEF IInv
<1> QED BY <1>7, <1>8


LEMMA VerdictStep ==
  ASSUME IInv, Order \/ Preflight
  PROVE  IInv'
<1>1. /\ decl' = decl /\ layout' = layout /\ indices' = indices /\ edges' = edges
      /\ config' = config /\ ids' = ids
      /\ phase \in {"order", "preflight"}
      /\ phase = "order" => phase' = IF HasCycle THEN "failed" ELSE "preflight"
      /\ phase = "preflight" =>
           phase' = IF \E i \in DOMAIN layout : IsSub(i) /\ Outside(i) # {} THEN "failed" ELSE "build"
  BY DEF Order, Preflight
<1>2. /\ decl \in Manifests /\ ids = <<>> /\ config = <<>> /\ Graph /\ RefsAreGood
      /\ OfKind({"declared twice"}) = {}
      /\ NamesIn(layout) \subseteq Nodes
      /\ phase = "preflight" => Acyclic
  BY <1>1 DEF IInv, LayoutInv, StageInv, IdsInv
<1>3. IdsInv'
  BY <1>1, <1>2, IdsStay
<1>4. LayoutInv'
  BY <1>1 DEF IInv, LayoutInv, Phases, Injective, IndicesOf, NamesIn
<1>5. phase = "order" => phase' = IF Acyclic THEN "preflight" ELSE "failed"
  BY <1>1, <1>2, Cycles
<1>6. phase = "preflight" => phase' = IF NoneOutside THEN "build" ELSE "failed"
  BY <1>1, <1>2, Preflights
<1>7. /\ phase' = "preflight" => Acyclic
      /\ phase' = "build" => Sound
      /\ phase' = "failed" => ~Sound
      /\ phase' \in {"preflight", "build", "failed"}
  BY <1>1, <1>2, <1>5, <1>6, SoundParts
<1>8. StageInv'
  <2>1. /\ Enabled' = Enabled /\ Nodes' = Nodes /\ OfKind({"declared twice"})' = {}
        /\ RefsAreGood' /\ Graph'
        /\ Acyclic' <=> Acyclic
        /\ Sound' <=> Sound
    BY <1>1, <1>2, DeclStays, GraphStays
  <2>2. NamesIn(layout)' = NamesIn(layout) /\ NamesIn(layout) = Enabled
    BY <1>1, <1>2 DEF NamesIn, Graph
  <2> QED BY <1>2, <1>7, <2>1, <2>2 DEF StageInv
<1> QED BY <1>3, <1>4, <1>8 DEF IInv

LEMMA BuildStep ==
  ASSUME IInv, NEW i \in DOMAIN layout, Build(i)
  PROVE  IInv'
<1> DEFINE p == layout[i]
           rules == RulesFor(p, Dependents(i))
           deps == Filter(OrderedDependencies(i), DOMAIN ids)
           known == DOMAIN ids \cup {p}
           needed == InNameOrder(NeedsAll(p))
<1>1. /\ decl' = decl /\ phase' = phase /\ layout' = layout /\ indices' = indices /\ edges' = edges
      /\ phase = "build" /\ p \notin DOMAIN ids
      /\ \A j \in Outgoing[i] : layout[j] \in DOMAIN ids
  BY DEF Build
<1>2. /\ config' = [q \in known |-> IF q = p THEN rules ELSE config[q]]
      /\ ids' = [q \in known |-> IF q = p THEN <<p, rules, [k \in DOMAIN deps |-> ids[deps[k]]]>>
                                 ELSE ids[q]]
  BY Zenon DEF Build
<1>3. /\ Graph /\ RefsAreGood /\ Sound
      /\ DOMAIN config = DOMAIN ids /\ DOMAIN ids \subseteq NamesIn(layout)
      /\ \A q \in DOMAIN ids : Needs(q) \subseteq DOMAIN ids
      /\ IdsNameDependencies /\ CascadeReachesAll
  BY <1>1 DEF IInv, StageInv, IdsInv, IdsNameThePackages
<1>4. LayoutInv'
  BY <1>1 DEF IInv, LayoutInv, Phases, Injective, IndicesOf, NamesIn
<1>5. StageInv'
  <2>1. /\ Enabled' = Enabled /\ Nodes' = Nodes
        /\ OfKind({"declared twice"})' = OfKind({"declared twice"})
        /\ RefsAreGood' /\ Graph' /\ Sound'
    BY <1>1, <1>3, DeclStays, GraphStays
  <2>2. NamesIn(layout)' = NamesIn(layout)
    BY <1>1 DEF NamesIn
  <2> QED BY <1>1, <2>1, <2>2 DEF StageInv, IInv
<1>6. NeedsAll(p) \subseteq DOMAIN ids /\ Needs(p) \subseteq DOMAIN ids /\ deps = needed
  BY <1>1, <1>3, NothingLeftOut
<1>7. CascadeRules(rules) = {d \in Enabled \cap Cascade : d = p \/ p \in NeedsAll(d)}
  BY <1>3, RulesReach
<1>8. p \in NamesIn(layout)
  BY DEF NamesIn
<1> HIDE DEF p, rules, deps, known, needed
<1>9. DOMAIN config' = known /\ DOMAIN ids' = known
  BY <1>2
<1>10. known \subseteq NamesIn(layout)' /\ \A q \in known : Needs(q)' \subseteq known
  <2>1. \A q : Needs(q)' = Needs(q)
    BY <1>1, DeclStays
  <2>2. NamesIn(layout)' = NamesIn(layout)
    BY <1>1 DEF NamesIn
  <2> QED BY <1>3, <1>6, <1>8, <2>1, <2>2 DEF known
<1>11. ASSUME NEW q \in known
       PROVE  ids'[q][3] = [k \in DOMAIN InNameOrder(NeedsAll(q)) |-> ids'[InNameOrder(NeedsAll(q))[k]]]
  <2> PICK s : s = InNameOrder(NeedsAll(q))
    OBVIOUS
  <2>1. NeedsAll(q) \subseteq DOMAIN ids
    <3>1. CASE q = p
      BY <1>6, <3>1
    <3>2. CASE q # p
      <4>1. q \in DOMAIN ids
        BY <3>2 DEF known
      <4> QED BY <1>3, <4>1, ClosedHasAll
    <3> QED BY <3>1, <3>2
  <2>2. \A k \in DOMAIN s : s[k] \in DOMAIN ids /\ s[k] # p /\ s[k] \in known
    <3>1. NamesIn(s) \subseteq DOMAIN ids
      BY <2>1, NameOrder
    <3> QED BY <1>1, <3>1 DEF NamesIn, p, known
  <2>3. \A k \in DOMAIN s : ids'[s[k]] = ids[s[k]]
    BY <1>2, <2>2
  <2>4. ids'[q][3] = [k \in DOMAIN s |-> ids[s[k]]]
    <3>1. CASE q = p
      <4>1. s = deps
        BY <1>6, <3>1 DEF needed
      <4>2. ids'[q] = <<p, rules, [k \in DOMAIN deps |-> ids[deps[k]]]>>
        BY <1>2, <3>1
      <4> QED BY <4>1, <4>2
    <3>2. CASE q # p
      <4>1. q \in DOMAIN ids /\ ids'[q] = ids[q]
        BY <1>2, <3>2 DEF known
      <4>2. ids[q][3] = [k \in DOMAIN s |-> ids[s[k]]]
        BY <1>3, <4>1 DEF IdsNameDependencies
      <4> QED BY <4>1, <4>2
    <3> QED BY <3>1, <3>2
  <2> QED BY <2>3, <2>4
<1>12. IdsNameDependencies'
  <2> SUFFICES ASSUME NEW q \in DOMAIN ids'
               PROVE  (LET all == InNameOrder(NeedsAll(q))
                       IN ids[q][3] = [k \in DOMAIN all |-> ids[all[k]]])'
    BY DEF IdsNameDependencies
  <2>1. NeedsAll(q)' = NeedsAll(q)
    BY <1>1, DeclStays
  <2>2. InNameOrder(NeedsAll(q))' = InNameOrder(NeedsAll(q))
    BY <2>1 DEF InNameOrder
  <2> QED BY <1>9, <1>11, <2>2
<1>13. CascadeReachesAll'
  <2> SUFFICES ASSUME NEW q \in DOMAIN config'
               PROVE  ({d \in Cascade : \E k \in DOMAIN config[q] : config[q][k] = <<"cascade", d>>}
                        = {d \in Enabled \cap Cascade : d = q \/ q \in NeedsAll(d)})'
    BY DEF CascadeReachesAll
  <2>1. Enabled' = Enabled /\ \A d : NeedsAll(d)' = NeedsAll(d)
    BY <1>1, DeclStays
  <2>2. {d \in Enabled \cap Cascade : d = q \/ q \in NeedsAll(d)}'
          = {d \in Enabled \cap Cascade : d = q \/ q \in NeedsAll(d)}
    BY <2>1
  <2>3. CascadeRules(config'[q]) = {d \in Enabled \cap Cascade : d = q \/ q \in NeedsAll(d)}
    <3>1. CASE q = p
      <4>1. config'[q] = rules
        BY <1>2, <1>9, <3>1
      <4> QED BY <1>7, <3>1, <4>1
    <3>2. CASE q # p
      <4>1. q \in DOMAIN config /\ config'[q] = config[q]
        BY <1>2, <1>3, <1>9, <3>2 DEF known
      <4>2. CascadeRules(config[q]) = {d \in Enabled \cap Cascade : d = q \/ q \in NeedsAll(d)}
        BY <1>3, <4>1 DEF CascadeReachesAll, CascadeRules
      <4> QED BY <4>1, <4>2
    <3> QED BY <3>1, <3>2
  <2> QED BY <2>2, <2>3 DEF CascadeRules
<1>14. IdsInv'
  BY <1>1, <1>9, <1>10, <1>12, <1>13 DEF IdsInv, IdsNameThePackages
<1> QED BY <1>4, <1>5, <1>14 DEF IInv

LEMMA FinishStep ==
  ASSUME IInv, Finish
  PROVE  IInv'
<1>1. /\ decl' = decl /\ layout' = layout /\ indices' = indices /\ edges' = edges
      /\ config' = config /\ ids' = ids /\ phase = "build" /\ phase' = "done"
  BY DEF Finish
<1>2. LayoutInv'
  BY <1>1 DEF IInv, LayoutInv, Phases, Injective, IndicesOf, NamesIn
<1>3. IdsInv'
  BY <1>1, IdsStayInBuild DEF IInv
<1>4. StageInv'
  <2>1. /\ Enabled' = Enabled /\ Nodes' = Nodes
        /\ OfKind({"declared twice"})' = OfKind({"declared twice"})
        /\ RefsAreGood' <=> RefsAreGood
        /\ Graph' <=> Graph
        /\ Sound' <=> Sound
    BY <1>1, DeclStays, GraphStays
  <2>2. NamesIn(layout)' = NamesIn(layout)
    BY <1>1 DEF NamesIn
  <2> QED BY <1>1, <2>1, <2>2 DEF StageInv, IInv
<1> QED BY <1>2, <1>3, <1>4 DEF IInv

LEMMA StutterStep ==
  ASSUME IInv, UNCHANGED vars
  PROVE  IInv'
<1>1. /\ decl' = decl /\ layout' = layout /\ indices' = indices /\ edges' = edges
      /\ config' = config /\ ids' = ids /\ phase' = phase
  BY DEF vars
<1>2. LayoutInv'
  BY <1>1 DEF IInv, LayoutInv, Phases, Injective, IndicesOf, NamesIn
<1>3. IdsInv'
  <2>1. CASE phase \in {"build", "done"}
    BY <1>1, <2>1, IdsStayInBuild DEF IInv
  <2>2. CASE phase \notin {"build", "done"}
    BY <1>1, <2>2, IdsStay DEF IInv, IdsInv
  <2> QED BY <2>1, <2>2
<1>4. StageInv'
  <2>1. /\ Enabled' = Enabled /\ Nodes' = Nodes
        /\ OfKind({"declared twice"})' = OfKind({"declared twice"})
        /\ RefsAreGood' <=> RefsAreGood
        /\ Graph' <=> Graph
        /\ Acyclic' <=> Acyclic
        /\ Sound' <=> Sound
    BY <1>1, DeclStays, GraphStays
  <2>2. NamesIn(layout)' = NamesIn(layout)
    BY <1>1 DEF NamesIn
  <2>3. (\A p \in NamesIn(layout) : Passes("condition", p)) => \A p \in NamesIn(layout) : Passes("condition", p)'
    BY <1>1 DEF Passes
  <2> QED BY <1>1, <2>1, <2>2, <2>3 DEF StageInv, IInv
<1> QED BY <1>2, <1>3, <1>4 DEF IInv

\* Code: the stages of graph.rs, project.rs and build.rs keep what IInv says.
THEOREM PlanInvariant == Spec => []IInv
<1>1. Init => IInv
  BY InitInv
<1>2. IInv /\ [Next]_vars => IInv'
  <2> SUFFICES ASSUME IInv, [Next]_vars PROVE IInv'
    OBVIOUS
  <2>1. CASE Declare
    BY <2>1, DeclareStep
  <2>2. CASE Drop("condition") \/ Drop("platform")
    BY <2>2, DropStep
  <2>3. CASE Filtered("condition", "platform") \/ Filtered("platform", "connect")
    BY <2>3, FilteredStep
  <2>4. CASE Connect
    BY <2>4, ConnectStep
  <2>5. CASE Order \/ Preflight
    BY <2>5, VerdictStep
  <2>6. ASSUME NEW i \in DOMAIN layout, Build(i) PROVE IInv'
    BY <2>6, BuildStep
  <2>7. CASE Finish
    BY <2>7, FinishStep
  <2>8. CASE UNCHANGED vars
    BY <2>8, StutterStep
  <2> QED BY <2>1, <2>2, <2>3, <2>4, <2>5, <2>6, <2>7, <2>8 DEF Next
<1> QED BY <1>1, <1>2, PTL DEF Spec

\* Code: the maps of a graph fit each other at every stage.
THEOREM PlanTypes == Spec => []TypeOK
<1>1. IInv => TypeOK
  <2> SUFFICES ASSUME IInv PROVE TypeOK
    OBVIOUS
  <2>1. DOMAIN decl = Package /\ \A p \in Package : decl[p] \in Declaration
    BY PlanAssumption DEF IInv, LayoutInv
  <2>2. /\ DOMAIN indices = NamesIn(layout)
        /\ \A p \in NamesIn(layout) : indices[p] \in DOMAIN layout /\ layout[indices[p]] = p
    BY IndicesAreInverse DEF IInv, LayoutInv
  <2> QED BY <2>1, <2>2 DEF IInv, LayoutInv, IdsInv, TypeOK, Phases
<1> QED BY <1>1, PlanInvariant, PTL

\* Code: graph.rs 127-185, project.rs 330-368: the edges are what the enabled packages refer to.
THEOREM EdgesTheorem == Spec => []EdgesAreTheReferences
<1>1. IInv => EdgesAreTheReferences
  <2> SUFFICES ASSUME IInv, phase \in {"order", "preflight", "build", "done"}
               PROVE  {<<layout[e[1]], layout[e[2]]>> : e \in edges}
                        = {e \in Enabled \X Enabled : e[2] \in Refs(e[1])}
    BY Zenon DEF EdgesAreTheReferences
  <2>1. Graph /\ edges \subseteq (DOMAIN layout) \X (DOMAIN layout)
    BY DEF IInv, LayoutInv, StageInv
  <2>2. ASSUME NEW e \in edges
        PROVE  <<layout[e[1]], layout[e[2]]>> \in {f \in Enabled \X Enabled : f[2] \in Refs(f[1])}
    <3>1. e[1] \in DOMAIN layout /\ e[2] \in DOMAIN layout /\ e = <<e[1], e[2]>>
      BY <2>1
    <3>2. layout[e[2]] \in Refs(layout[e[1]]) /\ layout[e[1]] \in Enabled /\ layout[e[2]] \in Enabled
      BY <2>1, <3>1, GraphEdges DEF Graph
    <3> QED BY <3>2
  <2>3. ASSUME NEW f \in Enabled \X Enabled, f[2] \in Refs(f[1])
        PROVE  f \in {<<layout[e[1]], layout[e[2]]>> : e \in edges}
    <3>1. PICK i \in DOMAIN layout : layout[i] = f[1]
      BY <2>1, GraphEdges
    <3>2. PICK j \in DOMAIN layout : layout[j] = f[2]
      BY <2>1, GraphEdges
    <3>3. <<i, j>> \in edges
      BY <2>1, <2>3, <3>1, <3>2 DEF Graph
    <3>4. f = <<f[1], f[2]>>
      OBVIOUS
    <3> QED BY <3>1, <3>2, <3>3, <3>4
  <2> QED BY <2>2, <2>3
<1> QED BY <1>1, PlanInvariant, PTL

\* Code: a manifest is refused, at any stage, exactly if it cannot be built.
THEOREM VerdictTheorem == Spec => []VerdictIsSound
<1>1. IInv => VerdictIsSound
  BY DEF IInv, StageInv, VerdictIsSound
<1> QED BY <1>1, PlanInvariant, PTL

\* Code: build.rs 596-628, strategy.rs 140-171: what an id is made of is found by name.
THEOREM IdsTheorem == Spec => []IdsNameThePackages
<1>1. IInv => IdsNameThePackages
  BY DEF IInv, IdsInv
<1> QED BY <1>1, PlanInvariant, PTL
=============================================================================
