---------------------------- MODULE SeqImagesProofs ----------------------------
(***************************************************************************)
(* How Images follows a queue: what is put in at the end is seen at the    *)
(* end, what is taken from the front is missing at the front, and a queue  *)
(* behind a queue is seen behind it.                                       *)
(*                                                                         *)
(* Images is defined by recursion, so that the lemmas need induction over  *)
(* the natural numbers, here as a property of sets.                        *)
(***************************************************************************)
EXTENDS SeqImages, Integers, TLAPS, WellFoundedInduction, SequenceTheorems

(* A set of natural numbers that is not empty has a least element. *)
LEMMA LeastNat ==
  ASSUME NEW T, T \subseteq Nat, T # {}
  PROVE  \E x \in T : \A y \in T : x <= y
<1> DEFINE R == {ss \in Nat \X Nat : ss[1] < ss[2]}
<1>1. IsWellFoundedOn(R, Nat)
  BY NatLessThanWellFounded, Zenon DEF OpToRel
<1>2. ASSUME NEW a \in Nat, NEW b \in Nat, a < b PROVE <<a, b>> \in R
  BY <1>2
<1> HIDE DEF R
<1>3. PICK x \in T : \A y \in T : ~ (<<y, x>> \in R)
  BY <1>1, WFMin
<1>4. ASSUME NEW y \in T PROVE x <= y
  <2>1. x \in Nat /\ y \in Nat
    OBVIOUS
  <2>2. ~(y < x)
    BY <1>2, <1>3, <2>1
  <2> QED
    BY <2>1, <2>2
<1> QED
  BY <1>4

(* A set that has 0, and with each number the next, has them all. *)
LEMMA NatInductionSet ==
  ASSUME NEW S, 0 \in S, \A n \in Nat : n \in S => n + 1 \in S
  PROVE  Nat \subseteq S
<1> SUFFICES ASSUME ~(Nat \subseteq S) PROVE FALSE
  OBVIOUS
<1>1. PICK x \in Nat \ S : \A y \in Nat \ S : x <= y
  BY LeastNat
<1>2. x # 0 /\ x - 1 \in Nat
  BY <1>1
<1>3. x - 1 \in S
  BY <1>1, <1>2
<1> QED
  BY <1>1, <1>2, <1>3

(* What holds of 0, and with each number up to n of the next, holds up to  *)
(* n.                                                                      *)
LEMMA InductionUpTo ==
  ASSUME NEW n \in Nat, NEW S, 0 \in S, \A i \in 1..n : i - 1 \in S => i \in S
  PROVE  \A i \in 0..n : i \in S
<1> DEFINE T == {i \in Nat : i <= n => i \in S}
<1>1. 0 \in T
  OBVIOUS
<1>2. ASSUME NEW i \in Nat, i \in T PROVE i + 1 \in T
  <2>1. i + 1 <= n => i + 1 \in 1..n /\ (i + 1) - 1 = i
    OBVIOUS
  <2> QED
    BY <1>2, <2>1
<1>3. Nat \subseteq T
  <2> HIDE DEF T
  <2> QED
    BY <1>1, <1>2, NatInductionSet
<1> QED
  BY <1>3

(* f starts at base, steps as step says, and its i-th value is in D[i].    *)
Recursion(f, n, base, step, D) ==
  /\ f = [i \in 0..n |-> f[i]]
  /\ f[0] = base
  /\ \A i \in 1..n : f[i] = step[<<i, f[i - 1]>>]
  /\ \A i \in 0..n : f[i] \in D[i]

(* A recursion over 0..n whose i-th step leads from D[i - 1] to D[i]       *)
(* defines a function with values in them.                                 *)
LEMMA RecursionExists ==
  ASSUME NEW n \in Nat, NEW D, NEW base \in D[0], NEW step,
         \A i \in 1..n : \A v \in D[i - 1] : step[<<i, v>>] \in D[i]
  PROVE  \E f : Recursion(f, n, base, step, D)
<1> DEFINE Upto(f, m) == /\ f = [i \in 0..m |-> f[i]] /\ f[0] = base
                         /\ \A i \in 1..m : f[i] = step[<<i, f[i - 1]>>]
                         /\ \A i \in 0..m : f[i] \in D[i]
           M == {m \in 0..n : \E f : Upto(f, m)}
<1>1. 0 \in M
  <2> DEFINE f == [i \in 0..0 |-> base]
  <2>1. f = [i \in 0..0 |-> f[i]] /\ f[0] = base
    OBVIOUS
  <2>2. Upto(f, 0)
    BY <2>1
  <2>3. 0 \in 0..n
    OBVIOUS
  <2> HIDE DEF f, Upto
  <2> QED
    BY <2>2, <2>3
<1>2. ASSUME NEW m \in 1..n, m - 1 \in M PROVE m \in M
  <2>1. PICK f : Upto(f, m - 1)
    BY <1>2
  <2> DEFINE v == step[<<m, f[m - 1]>>]
             g == [i \in 0..m |-> IF i = m THEN v ELSE f[i]]
  <2>2. v \in D[m]
    BY <2>1
  <2>3. g = [i \in 0..m |-> g[i]] /\ g[0] = base
    BY <2>1
  <2>4. ASSUME NEW i \in 1..m PROVE g[i] = step[<<i, g[i - 1]>>]
    <3>1. CASE i = m
      <4>1. g[i] = v /\ g[i - 1] = f[m - 1]
        BY <3>1
      <4> QED
        BY <3>1, <4>1
    <3>2. CASE i \in 1..(m - 1)
      <4>1. g[i] = f[i] /\ g[i - 1] = f[i - 1]
        BY <3>2
      <4> QED
        BY <2>1, <3>2, <4>1
    <3> QED
      BY <3>1, <3>2
  <2>5. ASSUME NEW i \in 0..m PROVE g[i] \in D[i]
    BY <2>1, <2>2
  <2>6. Upto(g, m)
    <3> HIDE DEF g
    <3> QED
      BY <2>3, <2>4, <2>5
  <2>7. m \in 0..n
    OBVIOUS
  <2> HIDE DEF g, Upto
  <2> QED
    BY <2>6, <2>7
<1>3. n \in M
  <2> HIDE DEF M
  <2>1. \A i \in 0..n : i \in M
    BY <1>1, <1>2, InductionUpTo
  <2> QED
    BY <2>1
<1>4. PICK f : Upto(f, n)
  BY <1>3
<1> QED
  BY <1>4 DEF Recursion

StepAlike(f, g, n) ==
  f[0] = g[0] /\ \A i \in 1..n : f[i - 1] = g[i - 1] => f[i] = g[i]
Alike(f, g, n) == \A i \in 0..n : f[i] = g[i]

(* Two functions that start alike and step alike are alike. *)
LEMMA RecursionUnique ==
  ASSUME NEW n \in Nat, NEW f, NEW g, StepAlike(f, g, n)
  PROVE  Alike(f, g, n)
<1> USE DEF StepAlike, Alike
<1> DEFINE S == {i \in 0..n : f[i] = g[i]}
<1>1. 0 \in S /\ \A i \in 1..n : i - 1 \in S => i \in S
  OBVIOUS
<1> HIDE DEF S
<1>2. \A i \in 0..n : i \in S
  BY <1>1, InductionUpTo
<1> QED
  BY <1>2 DEF S

------------------------------------------------------------------------------
(* The prefixes of q have the images that g lists. *)
ImagesOfPrefixes(q, K, f, g) ==
  g = [n \in 0..Len(q) |->
         IF n = 0 THEN <<>>
         ELSE IF q[n] \in K THEN Append(g[n - 1], f[q[n]]) ELSE g[n - 1]]

Steps(q, K, f, g, m) ==
  /\ g[0] = <<>>
  /\ \A n \in 1..m :
       g[n] = IF q[n] \in K THEN Append(g[n - 1], f[q[n]]) ELSE g[n - 1]

(* There is such a list: the recursive definition defines something. *)
LEMMA PrefixesExist ==
  ASSUME NEW S, NEW q \in Seq(S), NEW K, NEW f
  PROVE  \E g : ImagesOfPrefixes(q, K, f, g)
<1> DEFINE Step(n, v) == IF q[n] \in K THEN Append(v, f[q[n]]) ELSE v
           Good(g, m) == /\ g = [n \in 0..m |-> g[n]] /\ g[0] = <<>>
                         /\ \A n \in 1..m : g[n] = Step(n, g[n - 1])
           N == {m \in Nat : \E g : Good(g, m)}
<1>1. 0 \in N
  <2> DEFINE g == [n \in 0..0 |-> <<>>]
  <2>1. g = [n \in 0..0 |-> g[n]] /\ g[0] = <<>>
    OBVIOUS
  <2>2. \A n \in 1..0 : g[n] = Step(n, g[n - 1])
    OBVIOUS
  <2> QED
    BY <2>1, <2>2
<1>2. ASSUME NEW m \in Nat, m \in N PROVE m + 1 \in N
  <2>1. PICK g : Good(g, m)
    BY <1>2
  <2> DEFINE h == [n \in 0..(m + 1) |-> IF n = m + 1 THEN Step(m + 1, g[m]) ELSE g[n]]
  <2>2. h = [n \in 0..(m + 1) |-> h[n]] /\ h[0] = <<>>
    BY <2>1
  <2>3. ASSUME NEW n \in 1..(m + 1) PROVE h[n] = Step(n, h[n - 1])
    <3>1. CASE n = m + 1
      <4>1. h[n] = Step(m + 1, g[m]) /\ h[n - 1] = g[m]
        BY <3>1
      <4> HIDE DEF h
      <4> QED
        BY <3>1, <4>1
    <3>2. CASE n \in 1..m
      <4>1. h[n] = g[n] /\ h[n - 1] = g[n - 1]
        BY <3>2
      <4> HIDE DEF h
      <4> QED
        BY <2>1, <3>2, <4>1
    <3> QED
      BY <3>1, <3>2
  <2> HIDE DEF h, Step
  <2>4. Good(h, m + 1)
    BY <2>2, <2>3, Zenon
  <2>5. m + 1 \in Nat
    OBVIOUS
  <2> HIDE DEF Good
  <2> QED
    BY <2>4, <2>5
<1>3. Len(q) \in N
  <2> HIDE DEF N
  <2> QED
    BY <1>1, <1>2, NatInductionSet
<1>4. PICK g : Good(g, Len(q))
  BY <1>3
<1>5. ASSUME NEW n \in 0..Len(q)
      PROVE  g[n] = IF n = 0 THEN <<>>
                    ELSE IF q[n] \in K THEN Append(g[n - 1], f[q[n]]) ELSE g[n - 1]
  <2>1. n = 0 \/ n \in 1..Len(q)
    OBVIOUS
  <2>2. g[0] = <<>> /\ \A i \in 1..Len(q) : g[i] = Step(i, g[i - 1])
    BY <1>4
  <2> QED
    BY <2>1, <2>2
<1> QED
  BY <1>4, <1>5 DEF ImagesOfPrefixes

(* Images takes q element by element. *)
LEMMA ImagesSteps ==
  ASSUME NEW S, NEW q \in Seq(S), NEW K, NEW f
  PROVE  \E g : Steps(q, K, f, g, Len(q)) /\ Images(q, K, f) = g[Len(q)]
<1> DEFINE G == CHOOSE g : ImagesOfPrefixes(q, K, f, g)
<1>1. ImagesOfPrefixes(q, K, f, G)
  BY PrefixesExist
<1>2. Images(q, K, f) = G[Len(q)]
  BY DEF Images, ImagesOfPrefixes
<1> HIDE DEF G
<1>3. Len(q) \in Nat
  OBVIOUS
<1>4. ASSUME NEW n \in 0..Len(q)
      PROVE  G[n] = IF n = 0 THEN <<>>
                    ELSE IF q[n] \in K THEN Append(G[n - 1], f[q[n]]) ELSE G[n - 1]
  BY <1>1, Zenon DEF ImagesOfPrefixes
<1>5. G[0] = <<>>
  BY <1>3, <1>4
<1>6. ASSUME NEW n \in 1..Len(q)
      PROVE  G[n] = IF q[n] \in K THEN Append(G[n - 1], f[q[n]]) ELSE G[n - 1]
  <2>1. n \in 0..Len(q) /\ n # 0
    BY <1>3
  <2> QED
    BY <1>4, <2>1
<1>7. Steps(q, K, f, G, Len(q))
  BY <1>5, <1>6 DEF Steps
<1> QED
  BY <1>2, <1>7

ValuesOn(K, f) == {f[c] : c \in K}

(* Each prefix's image is a sequence of values of f on K. *)
LEMMA StepsType ==
  ASSUME NEW q, NEW K, NEW f, NEW g, NEW m \in Nat,
         Steps(q, K, f, g, m)
  PROVE  \A n \in 0..m : g[n] \in Seq(ValuesOn(K, f))
<1> DEFINE N == {n \in Nat : n <= m => g[n] \in Seq(ValuesOn(K, f))}
<1>1. 0 \in N
  <2>1. g[0] = <<>> /\ <<>> \in Seq(ValuesOn(K, f))
    BY DEF Steps
  <2> QED
    BY <2>1
<1>2. ASSUME NEW n \in Nat, n \in N PROVE n + 1 \in N
  <2>1. CASE n + 1 <= m
    <3>1. n + 1 \in 1..m /\ (n + 1) - 1 = n /\ g[n] \in Seq(ValuesOn(K, f))
      BY <1>2, <2>1
    <3>2. g[n + 1] = IF q[n + 1] \in K THEN Append(g[n], f[q[n + 1]]) ELSE g[n]
      BY <3>1 DEF Steps
    <3>3. q[n + 1] \in K => f[q[n + 1]] \in ValuesOn(K, f)
      BY DEF ValuesOn
    <3>4. g[n + 1] \in Seq(ValuesOn(K, f))
      BY <3>1, <3>2, <3>3
    <3> QED
      BY <3>4
  <2> QED
    BY <2>1
<1> HIDE DEF N
<1>3. Nat \subseteq N
  BY <1>1, <1>2, NatInductionSet
<1> QED
  BY <1>3 DEF N

------------------------------------------------------------------------------
(* The lemmas to use *)

(* So is the image of q. *)
LEMMA ImagesType ==
  ASSUME NEW S, NEW q \in Seq(S), NEW K, NEW f
  PROVE  Images(q, K, f) \in Seq(ValuesOn(K, f))
<1>1. PICK g : Steps(q, K, f, g, Len(q)) /\ Images(q, K, f) = g[Len(q)]
  BY ImagesSteps
<1>2. Len(q) \in Nat /\ Len(q) \in 0..Len(q)
  OBVIOUS
<1>3. \A n \in 0..Len(q) : g[n] \in Seq(ValuesOn(K, f))
  BY <1>1, <1>2, StepsType, Zenon
<1> QED
  BY <1>1, <1>2, <1>3

(* Nothing is seen of an empty queue. *)
LEMMA ImagesEmpty ==
  ASSUME NEW K, NEW f PROVE Images(<<>>, K, f) = <<>>
<1> DEFINE q == <<>>
<1>1. q \in Seq({}) /\ Len(q) = 0
  OBVIOUS
<1> HIDE DEF q
<1>2. PICK g : Steps(q, K, f, g, Len(q)) /\ Images(q, K, f) = g[Len(q)]
  BY <1>1, ImagesSteps
<1> QED
  BY <1>1, <1>2 DEF Steps, q

(* A queue behind a queue is seen behind it. *)
LEMMA ImagesConcat ==
  ASSUME NEW S, NEW q \in Seq(S), NEW r \in Seq(S),
         NEW K, NEW f
  PROVE  Images(q \o r, K, f) = Images(q, K, f) \o Images(r, K, f)
<1> DEFINE s == q \o r
           a == Len(q)
           b == Len(r)
<1>1. /\ s \in Seq(S) /\ a \in Nat /\ b \in Nat /\ Len(s) = a + b
      /\ \A i \in 1..a : s[i] = q[i]
      /\ \A i \in 1..b : s[a + i] = r[i]
  BY ConcatProperties
<1>2. PICK g : Steps(q, K, f, g, a) /\ Images(q, K, f) = g[a]
  BY ImagesSteps
<1>3. PICK h : Steps(r, K, f, h, b) /\ Images(r, K, f) = h[b]
  BY ImagesSteps
<1> HIDE DEF s, a, b
<1>4. PICK k : Steps(s, K, f, k, a + b) /\ Images(s, K, f) = k[a + b]
  <2>1. \E k : Steps(s, K, f, k, Len(s)) /\ Images(s, K, f) = k[Len(s)]
    BY <1>1, ImagesSteps
  <2> QED
    BY <1>1, <2>1
<1>5. /\ \A n \in 0..a : g[n] \in Seq(ValuesOn(K, f))
      /\ \A n \in 0..b : h[n] \in Seq(ValuesOn(K, f))
  BY <1>1, <1>2, <1>3, StepsType
<1>6. k[a] = g[a]
  <2> DEFINE N == {n \in Nat : n <= a => k[n] = g[n]}
  <2>1. 0 \in N
    BY <1>2, <1>4 DEF Steps
  <2>2. ASSUME NEW n \in Nat, n \in N PROVE n + 1 \in N
    <3>1. CASE n + 1 <= a
      <4>1. n + 1 \in 1..a /\ n + 1 \in 1..(a + b) /\ (n + 1) - 1 = n
            /\ k[n] = g[n] /\ s[n + 1] = q[n + 1]
        BY <1>1, <2>2, <3>1
      <4>2. k[n + 1] = g[n + 1]
        BY <1>2, <1>4, <4>1 DEF Steps
      <4> QED
        BY <4>2
    <3> QED
      BY <3>1
  <2> HIDE DEF N
  <2>3. Nat \subseteq N
    BY <2>1, <2>2, NatInductionSet
  <2> QED
    BY <1>1, <2>3 DEF N
<1>7. k[a + b] = g[a] \o h[b]
  <2> DEFINE N == {n \in Nat : n <= b => k[a + n] = g[a] \o h[n]}
  <2>1. 0 \in N
    <3>1. h[0] = <<>> /\ a + 0 = a /\ g[a] \in Seq(ValuesOn(K, f))
      BY <1>1, <1>3, <1>5 DEF Steps
    <3>2. g[a] \o h[0] = g[a]
      BY <3>1, ConcatEmptySeq
    <3>3. k[a + 0] = g[a] \o h[0]
      BY <1>6, <3>1, <3>2
    <3> QED
      BY <3>3
  <2>2. ASSUME NEW n \in Nat, n \in N PROVE n + 1 \in N
    <3>1. CASE n + 1 <= b
      <4> DEFINE i == a + (n + 1)
                 c == r[n + 1]
      <4>1. n + 1 \in 1..b /\ i \in 1..(a + b) /\ (n + 1) - 1 = n /\ i - 1 = a + n
        BY <1>1, <3>1
      <4>2. k[a + n] = g[a] \o h[n]
        <5>1. n <= b
          BY <1>1, <3>1
        <5> QED
          BY <2>2, <5>1, Zenon
      <4>3. s[i] = c
        BY <1>1, <4>1
      <4>4. k[i] = IF s[i] \in K THEN Append(k[a + n], f[c]) ELSE k[a + n]
        <5> HIDE DEF i
        <5> QED
          BY <1>4, <4>1, <4>3 DEF Steps
      <4>5. h[n + 1] = IF c \in K THEN Append(h[n], f[c]) ELSE h[n]
        BY <1>3, <4>1 DEF Steps
      <4> HIDE DEF i, c
      <4>6. g[a] \in Seq(ValuesOn(K, f)) /\ h[n] \in Seq(ValuesOn(K, f))
        BY <1>1, <1>5, <3>1
      <4>7. c \in K => f[c] \in ValuesOn(K, f)
        BY DEF ValuesOn
      <4>8. c \in K => Append(g[a] \o h[n], f[c]) = g[a] \o Append(h[n], f[c])
        <5> SUFFICES ASSUME c \in K
                     PROVE  Append(g[a] \o h[n], f[c]) = g[a] \o Append(h[n], f[c])
          OBVIOUS
        <5> DEFINE x == g[a]
                   y == h[n]
                   z == f[c]
        <5>1. x \in Seq(ValuesOn(K, f)) /\ y \in Seq(ValuesOn(K, f)) /\ z \in ValuesOn(K, f)
          BY <4>6, <4>7
        <5> HIDE DEF x, y, z
        <5>2. x \o y \in Seq(ValuesOn(K, f)) /\ <<z>> \in Seq(ValuesOn(K, f))
          BY <5>1
        <5>3. Append(x \o y, z) = (x \o y) \o <<z>> /\ Append(y, z) = y \o <<z>>
          BY <5>1, <5>2, AppendIsConcat
        <5>4. (x \o y) \o <<z>> = x \o (y \o <<z>>)
          BY <5>1, <5>2, ConcatAssociative
        <5> QED
          BY <5>3, <5>4 DEF x, y, z
      <4>9. k[i] = g[a] \o h[n + 1]
        BY <4>4, <4>5, <4>8, <4>2, <4>3
      <4>10. n + 1 \in Nat
        OBVIOUS
      <4> QED
        BY <4>9, <4>10, Zenon DEF i
    <3>2. CASE ~(n + 1 <= b)
      <4>1. n + 1 \in Nat
        OBVIOUS
      <4> QED
        BY <3>2, <4>1, Zenon
    <3> QED
      BY <3>1, <3>2
  <2> HIDE DEF N
  <2>3. Nat \subseteq N
    BY <2>1, <2>2, NatInductionSet
  <2>4. b \in N /\ b <= b
    BY <1>1, <2>3
  <2> QED
    BY <2>4, Zenon DEF N
<1> QED
  BY <1>2, <1>3, <1>4, <1>7 DEF s

(* A queue of one element shows it, or nothing. *)
LEMMA ImagesOne ==
  ASSUME NEW S, NEW c \in S, NEW K, NEW f
  PROVE  Images(<<c>>, K, f) = IF c \in K THEN <<f[c]>> ELSE <<>>
<1> DEFINE q == <<c>>
<1>1. q \in Seq(S) /\ Len(q) = 1 /\ q[1] = c
  OBVIOUS
<1> HIDE DEF q
<1>2. PICK g : Steps(q, K, f, g, Len(q)) /\ Images(q, K, f) = g[Len(q)]
  BY <1>1, ImagesSteps
<1>3. Steps(q, K, f, g, 1) /\ Images(q, K, f) = g[1] /\ 1 - 1 = 0 /\ 1 \in 1..1
  BY <1>1, <1>2
<1>4. g[0] = <<>> /\ g[1] = IF c \in K THEN Append(g[1 - 1], f[c]) ELSE g[1 - 1]
  BY <1>1, <1>3 DEF Steps
<1>5. c \in K => Append(<<>>, f[c]) = <<f[c]>>
  OBVIOUS
<1> QED
  BY <1>3, <1>4, <1>5 DEF q

(* What is put in at the end is seen at the end, if it counts. *)
LEMMA ImagesAppend ==
  ASSUME NEW S, NEW q \in Seq(S), NEW c \in S, NEW K, NEW f
  PROVE  Images(Append(q, c), K, f) =
           IF c \in K THEN Append(Images(q, K, f), f[c]) ELSE Images(q, K, f)
<1> DEFINE r == <<c>>
<1>1. Append(q, c) = q \o r /\ r \in Seq(S)
  BY AppendIsConcat
<1>5. Images(r, K, f) = IF c \in K THEN <<f[c]>> ELSE <<>>
  BY ImagesOne
<1> HIDE DEF r
<1>2. Images(q, K, f) \in Seq(ValuesOn(K, f)) /\ (c \in K => f[c] \in ValuesOn(K, f))
  BY ImagesType DEF ValuesOn
<1>3. Images(q \o r, K, f) = Images(q, K, f) \o Images(r, K, f)
  BY <1>1, ImagesConcat
<1> DEFINE x == Images(q, K, f)
<1>4. x \o <<>> = x /\ (c \in K => Append(x, f[c]) = x \o <<f[c]>>)
  <2> HIDE DEF x
  <2> QED
    BY <1>2, ConcatEmptySeq, AppendIsConcat DEF x
<1> QED
  BY <1>1, <1>3, <1>4, <1>5

(* What is taken from the front is missing at the front, if it counts. *)
LEMMA ImagesTail ==
  ASSUME NEW S, NEW q \in Seq(S), q # <<>>, NEW K, NEW f
  PROVE  IF Head(q) \in K
         THEN /\ Images(q, K, f) # <<>>
              /\ Head(Images(q, K, f)) = f[Head(q)]
              /\ Tail(Images(q, K, f)) = Images(Tail(q), K, f)
         ELSE Images(Tail(q), K, f) = Images(q, K, f)
<1> DEFINE c == Head(q)
           r == <<c>>
           t == Tail(q)
           y == Images(t, K, f)
<1>1. q = r \o t /\ c \in S /\ r \in Seq(S) /\ t \in Seq(S)
  BY HeadTailProperties
<1>2. Images(r, K, f) = IF c \in K THEN <<f[c]>> ELSE <<>>
  BY <1>1, ImagesOne
<1> HIDE DEF r, t
<1>3. Images(r \o t, K, f) = Images(r, K, f) \o y
  BY <1>1, ImagesConcat
<1>4. y \in Seq(ValuesOn(K, f))
  BY <1>1, ImagesType
<1> HIDE DEF y
<1>5. CASE c \in K
  <2>1. f[c] \in ValuesOn(K, f)
    BY <1>5 DEF ValuesOn
  <2> DEFINE z == f[c]
             x == <<z>> \o y
  <2>2. x # <<>> /\ Head(x) = z /\ Tail(x) = y
    <3> HIDE DEF z
    <3> QED
      BY <1>4, <2>1 DEF z
  <2> QED
    BY <1>1, <1>2, <1>3, <1>5, <2>2 DEF t, y
<1>6. CASE c \notin K
  BY <1>1, <1>2, <1>3, <1>4, <1>6, ConcatEmptySeq DEF t, y
<1> QED
  BY <1>5, <1>6

(* Nothing is seen of a queue none of whose elements counts. *)
LEMMA ImagesNone ==
  ASSUME NEW S, NEW q \in Seq(S), NEW K, NEW f,
         \A i \in 1..Len(q) : q[i] \notin K
  PROVE  Images(q, K, f) = <<>>
<1>1. PICK g : Steps(q, K, f, g, Len(q)) /\ Images(q, K, f) = g[Len(q)]
  BY ImagesSteps
<1> DEFINE N == {n \in Nat : n <= Len(q) => g[n] = <<>>}
<1>2. 0 \in N
  BY <1>1 DEF Steps
<1>3. ASSUME NEW n \in Nat, n \in N PROVE n + 1 \in N
  <2>1. CASE n + 1 <= Len(q)
    <3>1. n + 1 \in 1..Len(q) /\ (n + 1) - 1 = n /\ g[n] = <<>>
      BY <1>3, <2>1
    <3>2. g[n + 1] = <<>>
      BY <1>1, <3>1 DEF Steps
    <3> QED
      BY <3>2
  <2> QED
    BY <2>1
<1> HIDE DEF N
<1>4. Nat \subseteq N
  BY <1>2, <1>3, NatInductionSet
<1>5. Len(q) \in Nat
  OBVIOUS
<1> QED
  BY <1>1, <1>4, <1>5 DEF N
==============================================================================
