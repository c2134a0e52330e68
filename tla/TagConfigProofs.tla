---------------------------- MODULE TagConfigProofs ----------------------------
(***************************************************************************)
(* Proofs about the emulated tags and the configuration parameters: what a *)
(* host reads from a tag is what the operator set last, and what one       *)
(* CORE_SET_CONFIG_CMD puts into the store of a parameter stays there      *)
(* whatever the other parameters are set to.  First come facts about       *)
(* sequences, FlattenSeq and the memory of a tag.                          *)
(***************************************************************************)
EXTENDS DataPlane, SeqImagesProofs

(* A byte is what it is modulo 256. *)
LEMMA ByteMod ==
  ASSUME NEW x \in 0..255 PROVE x % 256 = x
OBVIOUS

(* A sequence behind another: each keeps its elements, in order. *)
LEMMA ConcatPlaces ==
  ASSUME NEW S, NEW s \in Seq(S), NEW t \in Seq(S)
  PROVE  /\ Len(s) \in Nat /\ Len(t) \in Nat
         /\ s \o t \in Seq(S) /\ Len(s \o t) = Len(s) + Len(t)
         /\ \A j \in 1..Len(s) : (s \o t)[j] = s[j]
         /\ \A j \in 1..Len(t) : (s \o t)[Len(s) + j] = t[j]
<1>1. Len(s) \in Nat /\ Len(t) \in Nat
  BY LenProperties
<1>2. /\ s \o t \in Seq(S) /\ Len(s \o t) = Len(s) + Len(t)
      /\ \A j \in 1..Len(s) + Len(t) :
            (s \o t)[j] = IF j <= Len(s) THEN s[j] ELSE t[j - Len(s)]
  BY ConcatProperties
<1> DEFINE l == Len(s)  m == Len(t)  u == s \o t
<1> HIDE DEF l, m, u
<1>3. l \in Nat /\ m \in Nat
  BY <1>1 DEF l, m
<1>4. \A j \in 1..(l + m) : u[j] = IF j <= l THEN s[j] ELSE t[j - l]
  BY <1>2 DEF l, m, u
<1>5. \A j \in 1..l : u[j] = s[j]
  BY <1>3, <1>4
<1>6. ASSUME NEW j \in 1..m PROVE u[l + j] = t[j]
  <2>1. l + j \in 1..(l + m) /\ ~(l + j <= l) /\ (l + j) - l = j
    BY <1>3
  <2> QED
    BY <1>4, <2>1
<1> QED
  BY <1>1, <1>2, <1>5, <1>6 DEF l, m, u

(* g lists what the first 0, 1, ... elements of q are one behind the other *)
PrefixList(g, q, S) ==
  /\ g \in [0..Len(q) -> Seq(S)]
  /\ g[0] = <<>> /\ g[Len(q)] = FlattenSeq(q)
  /\ \A i \in 1..Len(q) : g[i] = g[i - 1] \o q[i]

(* FlattenSeq puts the elements of q one behind the other. *)
LEMMA FlattenPrefixes ==
  ASSUME NEW S, NEW q \in Seq(Seq(S))
  PROVE  \E g : PrefixList(g, q, S)
<1> SUFFICES \E g \in [0..Len(q) -> Seq(S)] :
               /\ g[0] = <<>> /\ g[Len(q)] = FlattenSeq(q)
               /\ \A i \in 1..Len(q) : g[i] = g[i - 1] \o q[i]
  BY DEF PrefixList
<1> DEFINE n == Len(q)
           D == [i \in 0..n |-> Seq(S)]
           step == [x \in (1..n) \X Seq(S) |-> x[2] \o q[x[1]]]
<1>1. n \in Nat /\ \A i \in 1..n : q[i] \in Seq(S)
  OBVIOUS
<1>2. \A i \in 1..n : \A v \in Seq(S) : step[<<i, v>>] = v \o q[i] /\ v \o q[i] \in Seq(S)
  BY <1>1, ConcatProperties
<1>3. PICK f : Recursion(f, n, <<>>, step, D)
  <2>1. <<>> \in D[0]
    BY <1>1
  <2>2. \A i \in 1..n : \A v \in D[i - 1] : step[<<i, v>>] \in D[i]
    <3> TAKE i \in 1..n
    <3>1. i \in 0..n /\ i - 1 \in 0..n
      BY <1>1
    <3> QED
      BY <1>2, <3>1
  <2> HIDE DEF step, D, n
  <2> QED
    BY <1>1, <2>1, <2>2, RecursionExists
<1> HIDE DEF step
<1>4. f[0] = <<>> /\ \A i \in 0..n : f[i] \in Seq(S)
  BY <1>1, <1>3 DEF Recursion
<1>5. \A i \in 1..n : f[i] = f[i - 1] \o q[i]
  <2> TAKE i \in 1..n
  <2>1. i \in 0..n /\ i # 0 /\ i - 1 \in 0..n
    BY <1>1
  <2>2. f[i] = step[<<i, f[i - 1]>>]
    BY <1>3, <2>1 DEF Recursion
  <2> QED
    BY <1>2, <1>4, <2>1, <2>2
<1>6. f \in [0..n -> Seq(S)]
  BY <1>3, <1>4 DEF Recursion
<1>7. CASE n = 0
  <2>1. FlattenSeq(q) = <<>>
    BY <1>7 DEF FlattenSeq
  <2> QED
    BY <1>4, <1>5, <1>6, <1>7, <2>1
<1>8. CASE n # 0
  <2> DEFINE Is(F) == F = [i \in 1..n |-> IF i = 1 THEN q[i] ELSE F[i - 1] \o q[i]]
             h == [i \in 1..n |-> f[i]]
             G == CHOOSE F : Is(F)
  <2>1. Is(h)
    <3>1. ASSUME NEW i \in 1..n PROVE h[i] = IF i = 1 THEN q[i] ELSE h[i - 1] \o q[i]
      <4>1. CASE i = 1
        <5>1. <<>> \o q[i] = q[i]
          BY <1>1, ConcatEmptySeq
        <5> QED
          BY <1>4, <1>5, <4>1, <5>1, 1 - 1 = 0
      <4>2. CASE i # 1
        <5>1. i - 1 \in 1..n
          BY <1>1, <4>2
        <5> QED
          BY <1>5, <4>2, <5>1
      <4> QED
        BY <4>1, <4>2
    <3>2. h = [i \in 1..n |-> h[i]]
      OBVIOUS
    <3> HIDE DEF h
    <3> QED
      BY <3>1, <3>2
  <2>2. Is(G)
    <3> HIDE DEF Is, h
    <3> QED
      BY <2>1
  <2>3. FlattenSeq(q) = G[n]
    BY <1>8 DEF FlattenSeq
  <2> HIDE DEF G
  <2> DEFINE g == [i \in 0..n |-> IF i = 0 THEN <<>> ELSE G[i]]
  <2>4. ASSUME NEW i \in 1..n, f[i - 1] = g[i - 1] PROVE f[i] = g[i]
    <3>1. G[i] = IF i = 1 THEN q[i] ELSE G[i - 1] \o q[i]
      BY <2>2
    <3>2. CASE i = 1
      <4>1. <<>> \o q[i] = q[i]
        BY <1>1, ConcatEmptySeq
      <4>2. f[i] = q[i]
        <5>1. i - 1 = 0
          BY <3>2
        <5> QED
          BY <1>4, <1>5, <4>1, <5>1
      <4>3. g[i] = G[i]
        BY <1>1, <3>2
      <4> QED
        BY <3>1, <3>2, <4>2, <4>3
    <3>3. CASE i # 1
      <4>1. i - 1 \in 1..n /\ i - 1 \in 0..n /\ i - 1 # 0 /\ i \in 0..n /\ i # 0
        BY <1>1, <3>3
      <4>2. g[i - 1] = G[i - 1] /\ g[i] = G[i]
        BY <4>1
      <4> QED
        BY <1>5, <2>4, <3>1, <3>3, <4>2
    <3> QED
      BY <3>2, <3>3
  <2>5. f[0] = g[0]
    BY <1>4, <1>1
  <2>6. \A i \in 0..n : f[i] = g[i]
    <3> HIDE DEF g, n
    <3>1. StepAlike(f, g, n)
      BY <2>4, <2>5 DEF StepAlike
    <3>2. Alike(f, g, n)
      BY <1>1, <3>1, RecursionUnique
    <3> QED
      BY <3>2 DEF Alike
  <2>7. f[n] = G[n]
    BY <1>1, <1>8, <2>6
  <2> QED
    BY <1>4, <1>5, <1>6, <2>3, <2>7
<1> QED
  BY <1>7, <1>8

(* What is put behind a sequence leaves its elements in place. *)
LEMMA PrefixesExtend ==
  ASSUME NEW S, NEW q \in Seq(Seq(S)), NEW g, PrefixList(g, q, S), NEW a \in 0..Len(q)
  PROVE  /\ Len(g[a]) <= Len(g[Len(q)])
         /\ \A j \in 1..Len(g[a]) : g[Len(q)][j] = g[a][j]
<1> USE DEF PrefixList
<1> DEFINE n == Len(q)
           T == {m \in 0..n : a <= m =>
                   Len(g[a]) <= Len(g[m]) /\ \A j \in 1..Len(g[a]) : g[m][j] = g[a][j]}
<1>1. n \in Nat /\ \A i \in 0..n : g[i] \in Seq(S) /\ Len(g[i]) \in Nat
  <2>1. \A i \in 0..n : g[i] \in Seq(S)
    OBVIOUS
  <2> QED
    BY <2>1, LenProperties
<1>2. 0 \in T
  BY <1>1
<1>3. ASSUME NEW m \in 1..n, m - 1 \in T PROVE m \in T
  <2>1. CASE a = m
    BY <1>1, <2>1
  <2>2. CASE a < m
    <3>1. m - 1 \in 0..n /\ a <= m - 1
      BY <1>1, <2>2
    <3>2. Len(g[a]) <= Len(g[m - 1]) /\ \A j \in 1..Len(g[a]) : g[m - 1][j] = g[a][j]
      BY <1>3, <3>1
    <3>3. g[m] = g[m - 1] \o q[m] /\ q[m] \in Seq(S)
      <4>1. \A i \in 1..Len(q) : q[i] \in Seq(S)
        BY ElementOfSeq
      <4> QED
        BY <4>1
    <3>4. /\ Len(g[m - 1]) <= Len(g[m])
          /\ \A j \in 1..Len(g[m - 1]) : g[m][j] = g[m - 1][j]
      <4> DEFINE r == g[m - 1]  t == q[m]
      <4>1. r \in Seq(S) /\ t \in Seq(S) /\ g[m] = r \o t
        BY <1>1, <3>1, <3>3
      <4> HIDE DEF r, t
      <4>2. /\ Len(r) \in Nat /\ Len(t) \in Nat /\ Len(r \o t) = Len(r) + Len(t)
            /\ \A j \in 1..Len(r) : (r \o t)[j] = r[j]
        BY <4>1, ConcatPlaces
      <4>3. Len(r) <= Len(g[m]) /\ \A j \in 1..Len(r) : g[m][j] = r[j]
        BY <4>1, <4>2
      <4> QED
        BY <4>3 DEF r
    <3>5. /\ Len(g[a]) \in Nat /\ Len(g[m - 1]) \in Nat /\ Len(g[m]) \in Nat
      BY <1>1, <3>1
    <3>6. Len(g[a]) <= Len(g[m])
      BY <3>2, <3>4, <3>5
    <3>7. \A j \in 1..Len(g[a]) : g[m][j] = g[a][j]
      BY <3>2, <3>4, <3>5
    <3> QED
      BY <3>6, <3>7
  <2>3. CASE a > m
    BY <2>3
  <2> QED
    BY <2>1, <2>2, <2>3, <1>1
<1> HIDE DEF T
<1>4. \A m \in 0..n : m \in T
  <2> HIDE DEF n
  <2> QED
    BY <1>1, <1>2, <1>3, InductionUpTo
<1> QED
  BY <1>1, <1>4 DEF T

(* Where FlattenSeq has the i-th element of q *)
PlacedAt(g, q, i) ==
  /\ Len(g[i - 1]) + Len(q[i]) = Len(g[i]) /\ Len(g[i]) <= Len(g[Len(q)])
  /\ \A j \in 1..Len(q[i]) : g[Len(q)][Len(g[i - 1]) + j] = q[i][j]

(* The elements of q keep their order in what FlattenSeq makes of it. *)
LEMMA FlattenPlaces ==
  ASSUME NEW S, NEW q \in Seq(Seq(S)), NEW g, PrefixList(g, q, S), NEW i \in 1..Len(q)
  PROVE  PlacedAt(g, q, i)
<1>1. i \in 0..Len(q) /\ i - 1 \in 0..Len(q) /\ Len(q) \in Nat
  OBVIOUS
<1>2. g[i - 1] \in Seq(S) /\ q[i] \in Seq(S) /\ g[i] = g[i - 1] \o q[i]
  BY <1>1, ElementOfSeq DEF PrefixList
<1> DEFINE r == g[i - 1]  t == q[i]  w == g[i]  p == g[Len(q)]
<1>3. r \in Seq(S) /\ t \in Seq(S) /\ w = r \o t
  BY <1>2
<1>4. Len(w) <= Len(p) /\ \A j \in 1..Len(w) : p[j] = w[j]
  BY <1>1, PrefixesExtend
<1> HIDE DEF r, t, w, p
<1>5. /\ Len(r) \in Nat /\ Len(t) \in Nat /\ Len(w) = Len(r) + Len(t)
      /\ \A j \in 1..Len(t) : w[Len(r) + j] = t[j]
  BY <1>3, ConcatPlaces
<1>6. ASSUME NEW j \in 1..Len(t) PROVE p[Len(r) + j] = t[j]
  <2>1. Len(r) + j \in 1..Len(w)
    BY <1>5
  <2> QED
    BY <1>4, <1>5, <2>1
<1> QED
  BY <1>4, <1>5, <1>6 DEF r, t, w, p, PlacedAt

------------------------------------------------------------------------------
(* The parameters, and where the table has them. *)
LEMMA TableRows ==
  /\ ConfigTable[0] = Param(0, 2)    /\ ConfigTable[40] = Param(2, 1)
  /\ ConfigTable[41] = Param(3, 20)  /\ ConfigTable[48] = Param(23, 1)
  /\ ConfigTable[49] = Param(24, 1)  /\ ConfigTable[50] = Param(25, 1)
  /\ ConfigTable[56] = Param(26, 1)  /\ ConfigTable[80] = Param(27, 1)
  /\ ConfigTable[81] = Param(28, 8)  /\ ConfigTable[88] = Param(36, 1)
  /\ ConfigTable[96] = Param(37, 1)  /\ ConfigTable[97] = Param(38, 20)
  /\ ConfigTable[128] = Param(58, 1) /\ ConfigTable[165] = Param(59, 1)
  /\ ConfigTable[183] = Param(60, 3) /\ ConfigTable[185] = Param(63, 33)
  /\ ConfigTable[197] = Param(96, 1) /\ ConfigTable[202] = Param(97, 20)
  /\ ConfigTable[203] = Param(117, 1)
<1>1. /\ ConfigTable[0] = Param(0, 2)    /\ ConfigTable[40] = Param(2, 1)
      /\ ConfigTable[41] = Param(3, 20)  /\ ConfigTable[48] = Param(23, 1)
      /\ ConfigTable[49] = Param(24, 1)  /\ ConfigTable[50] = Param(25, 1)
      /\ ConfigTable[56] = Param(26, 1)  /\ ConfigTable[80] = Param(27, 1)
      /\ ConfigTable[81] = Param(28, 8)  /\ ConfigTable[88] = Param(36, 1)
  BY DEF ConfigTable
<1>2. /\ ConfigTable[96] = Param(37, 1)  /\ ConfigTable[97] = Param(38, 20)
      /\ ConfigTable[128] = Param(58, 1) /\ ConfigTable[165] = Param(59, 1)
      /\ ConfigTable[183] = Param(60, 3) /\ ConfigTable[185] = Param(63, 33)
      /\ ConfigTable[197] = Param(96, 1) /\ ConfigTable[202] = Param(97, 20)
      /\ ConfigTable[203] = Param(117, 1)
  BY DEF ConfigTable
<1> QED
  BY <1>1, <1>2

Rows == {0, 40, 41, 48, 49, 50, 56, 80, 81, 88, 96, 97, 128, 165, 183, 185, 197, 202, 203}

(* Every other identifier has no parameter. *)
LEMMA OtherRows ==
  ASSUME NEW id \in 0..255, id \notin Rows PROVE ConfigTable[id] = Param(0, 0)
BY DEF ConfigTable, Rows

(* The parameters lie in the store in the order of their identifiers, no   *)
(* two of them on one byte, and all below its last byte.                   *)
LEMMA TableOrder ==
  ASSUME NEW a \in Params
  PROVE  /\ ConfigTable[a].off \in 0..117 /\ ConfigTable[a].len \in 1..33
         /\ ConfigTable[a].off + ConfigTable[a].len <= 118
         /\ \A b \in Params :
              \/ b = a
              \/ ConfigTable[a].off + ConfigTable[a].len <= ConfigTable[b].off
              \/ ConfigTable[b].off + ConfigTable[b].len <= ConfigTable[a].off
<1>1. Params \subseteq Rows
  BY OtherRows DEF Params, Param
<1>2. /\ \A b \in Rows : ConfigTable[b].off \in 0..117 /\ ConfigTable[b].len \in 1..33
      /\ \A b \in Rows : ConfigTable[b].off + ConfigTable[b].len <= 118
  BY TableRows DEF Rows, Param
<1>3. \A b, c \in Rows : b < c => ConfigTable[b].off + ConfigTable[b].len <= ConfigTable[c].off
  BY TableRows DEF Rows, Param
<1>4. \A b, c \in Rows : b = c \/ b < c \/ c < b
  BY DEF Rows
<1> QED
  BY <1>1, <1>2, <1>3, <1>4

------------------------------------------------------------------------------
(* The state of the walk over a packet's fields, and of what is known *)
ConfigStore == [0..127 -> ConfigByte]
ConfigField == [id : ConfigByte, val : Seq(ConfigByte)]
WalkState   == [off : 0..255, store : ConfigStore, out : Seq({"RF_FIELD_INFO_NTF"}), end : {"none", "assert"}]
Knowledges  == [Params -> Seq(ConfigByte)]

(* No parameter is known to have more bytes than it has room for. *)
Bounded(k) == \A id \in Params : Len(k[id]) <= ConfigTable[id].len

(* The store has, of each parameter, the bytes that are known. *)
Agrees(store, k) ==
  \A id \in Params : \A i \in DOMAIN k[id] : store[ConfigTable[id].off + i - 1] = k[id][i]

(* store2 is store with the bytes written at the place of parameter id. *)
SetOf(store, store2, id, bytes) ==
  /\ id \in Params /\ Len(bytes) <= ConfigTable[id].len
  /\ \A a \in 0..127 :
       store2[a] = IF a \in ConfigTable[id].off..(ConfigTable[id].off + Len(bytes) - 1)
                   THEN bytes[a - ConfigTable[id].off + 1] ELSE store[a]

(* Rows of the table are small numbers. *)
LEMMA TableType ==
  \A id \in 0..255 : ConfigTable[id].off \in 0..117 /\ ConfigTable[id].len \in 0..33
<1>1. \A id \in Rows : ConfigTable[id].off \in 0..117 /\ ConfigTable[id].len \in 0..33
  BY TableRows DEF Rows, Param
<1>2. \A id \in 0..255 : id \notin Rows => ConfigTable[id].off = 0 /\ ConfigTable[id].len = 0
  BY OtherRows DEF Param
<1> TAKE id \in 0..255
<1>3. CASE id \in Rows
  BY <1>1, <1>3
<1>4. CASE id \notin Rows
  <2>1. 0 \in 0..117 /\ 0 \in 0..33
    OBVIOUS
  <2> QED
    BY <1>2, <1>4, <2>1
<1> QED
  BY <1>3, <1>4

(* Setting a parameter writes its bytes, or fails an assertion. *)
LEMMA DeviceSets ==
  ASSUME NEW d \in WalkState, d.end = "none", NEW id \in 0..255,
         NEW bytes \in Seq(ConfigByte), NEW third
  PROVE  LET e == DeviceSet(d, id, bytes, third)
         IN  /\ e \in WalkState /\ e.off = d.off
             /\ e.end = "none" => SetOf(d.store, e.store, id, bytes)
<1> DEFINE off == ConfigTable[id].off
           len == ConfigTable[id].len
           e == DeviceSet(d, id, bytes, third)
           l == Len(bytes)
           w == [a \in DOMAIN d.store |-> IF a \in off..(off + l - 1)
                                          THEN bytes[a - off + 1] ELSE d.store[a]]
           o == IF id = I93_DATARATE /\ third % 2 = 1
                THEN Append(d.out, "RF_FIELD_INFO_NTF") ELSE d.out
<1>1. off \in 0..117 /\ len \in 0..33 /\ l \in Nat
  BY TableType, LenProperties
<1>2. CASE len = 0 \/ len < l \/ off + l >= StoreSize
  <2>1. e = [d EXCEPT !.end = "assert"]
    BY <1>2 DEF DeviceSet
  <2> QED
    BY <2>1 DEF WalkState
<1>3. CASE ~(len = 0 \/ len < l \/ off + l >= StoreSize)
  <2>1. e = [d EXCEPT !.store = w, !.out = o]
    BY <1>3, Zenon DEF DeviceSet
  <2>2. d.store \in ConfigStore /\ d.out \in Seq({"RF_FIELD_INFO_NTF"})
    BY DEF WalkState
  <2>3. o \in Seq({"RF_FIELD_INFO_NTF"})
    <3>1. Append(d.out, "RF_FIELD_INFO_NTF") \in Seq({"RF_FIELD_INFO_NTF"})
      BY <2>2, AppendProperties
    <3> QED
      BY <2>2, <3>1
  <2>4. len > 0 /\ l <= len
    <3> HIDE DEF len, l, off
    <3> QED
      BY <1>1, <1>3
  <2>5. \A a \in 0..127 : w[a] = IF a \in off..(off + l - 1)
                                 THEN bytes[a - off + 1] ELSE d.store[a]
    BY <2>2 DEF ConfigStore
  <2>6. w \in ConfigStore
    <3>1. ASSUME NEW a \in 0..127 PROVE w[a] \in ConfigByte
      <4>1. CASE a \in off..(off + l - 1)
        <5>1. a - off + 1 \in 1..l
          <6> HIDE DEF off, l
          <6> QED
            BY <1>1, <4>1
        <5>2. bytes[a - off + 1] \in ConfigByte
          BY <5>1, ElementOfSeq
        <5> HIDE DEF w
        <5> QED
          BY <2>5, <4>1, <5>2
      <4>2. CASE a \notin off..(off + l - 1)
        BY <2>2, <2>5, <4>2 DEF ConfigStore
      <4> QED
        BY <4>1, <4>2
    <3>2. DOMAIN w = 0..127 /\ w = [a \in DOMAIN w |-> w[a]]
      BY <2>2 DEF ConfigStore
    <3> HIDE DEF w
    <3> QED
      BY <3>1, <3>2 DEF ConfigStore
  <2>7. SetOf(d.store, w, id, bytes)
    <3> HIDE DEF w
    <3> QED
      BY <2>4, <2>5 DEF SetOf, Params
  <2> HIDE DEF w, o
  <2>8. e \in WalkState /\ e.off = d.off /\ e.store = w
    BY <2>1, <2>3, <2>6 DEF WalkState
  <2> HIDE DEF e
  <2> QED
    BY <2>7, <2>8 DEF e
<1> QED
  BY <1>2, <1>3

(* What is known stays of its type. *)
LEMMA KnowType ==
  ASSUME NEW k \in Knowledges, NEW f \in ConfigField
  PROVE  /\ Know(k, f) \in Knowledges
         /\ \A id \in Params : id # f.id => Know(k, f)[id] = k[id]
         /\ f.id \in Params =>
              /\ Len(Know(k, f)[f.id]) =
                   IF Len(f.val) > Len(k[f.id]) \/ f.val = <<>> THEN Len(f.val) ELSE Len(k[f.id])
              /\ \A i \in 1..Len(Know(k, f)[f.id]) :
                    Know(k, f)[f.id][i] = IF i <= Len(f.val) THEN f.val[i] ELSE k[f.id][i]
<1> DEFINE old == k[f.id]
           l == IF Len(f.val) > Len(old) \/ f.val = <<>> THEN Len(f.val) ELSE Len(old)
           new == [i \in 1..l |-> IF i <= Len(f.val) THEN f.val[i] ELSE old[i]]
<1>1. f.val \in Seq(ConfigByte) /\ Len(f.val) \in Nat
  BY LenProperties DEF ConfigField
<1>2. Know(k, f) = [k EXCEPT ![f.id] = new]
  BY DEF Know
<1>3. CASE f.id \in Params
  <2>1. old \in Seq(ConfigByte) /\ Len(old) \in Nat /\ l \in Nat
    BY <1>1, <1>3, LenProperties DEF Knowledges
  <2>2. ASSUME NEW i \in 1..l PROVE (IF i <= Len(f.val) THEN f.val[i] ELSE old[i]) \in ConfigByte
    <3>1. CASE i <= Len(f.val)
      BY <1>1, <3>1, ElementOfSeq
    <3>2. CASE ~(i <= Len(f.val))
      <4>1. i \in 1..Len(old)
        BY <1>1, <2>1, <3>2
      <4> QED
        BY <2>1, <3>2, <4>1, ElementOfSeq
    <3> QED
      BY <3>1, <3>2
  <2> HIDE DEF old, l
  <2>3. new \in Seq(ConfigByte) /\ Len(new) = l
    BY <2>1, <2>2
  <2>4. \A i \in 1..l : new[i] = IF i <= Len(f.val) THEN f.val[i] ELSE old[i]
    OBVIOUS
  <2> HIDE DEF new
  <2>5. Know(k, f)[f.id] = new
    BY <1>2, <1>3 DEF Knowledges
  <2>6. Know(k, f) \in Knowledges /\ \A id \in Params : id # f.id => Know(k, f)[id] = k[id]
    BY <1>2, <2>3 DEF Knowledges
  <2> QED
    BY <2>3, <2>4, <2>5, <2>6 DEF old, l
<1>4. CASE f.id \notin Params
  <2> HIDE DEF new
  <2> QED
    BY <1>2, <1>4 DEF Knowledges
<1> QED
  BY <1>3, <1>4

(* A field that was set: what is known of it and of all others is in the   *)
(* store.                                                                  *)
LEMMA SetAgrees ==
  ASSUME NEW store, NEW store2, NEW k \in Knowledges, NEW f \in ConfigField,
         NEW bytes \in Seq(ConfigByte), f.val # <<>> => bytes = f.val,
         SetOf(store, store2, f.id, bytes), Agrees(store, k), Bounded(k)
  PROVE  Agrees(store2, Know(k, f)) /\ Bounded(Know(k, f))
<1> DEFINE off == ConfigTable[f.id].off
           new == Know(k, f)
<1>1. f.id \in Params /\ Len(bytes) <= ConfigTable[f.id].len /\ Len(bytes) \in Nat
  BY LenProperties DEF SetOf
<1>2. f.val \in Seq(ConfigByte) /\ Len(f.val) \in Nat /\ (f.val = <<>> => Len(f.val) = 0)
  BY LenProperties DEF ConfigField
<1>3. /\ new \in Knowledges
      /\ \A id \in Params : id # f.id => new[id] = k[id]
      /\ Len(new[f.id]) =
            IF Len(f.val) > Len(k[f.id]) \/ f.val = <<>> THEN Len(f.val) ELSE Len(k[f.id])
      /\ \A i \in 1..Len(new[f.id]) :
            new[f.id][i] = IF i <= Len(f.val) THEN f.val[i] ELSE k[f.id][i]
  BY <1>1, KnowType
<1> HIDE DEF new
<1>4. \A id \in Params : /\ k[id] \in Seq(ConfigByte) /\ Len(k[id]) \in Nat
                         /\ new[id] \in Seq(ConfigByte) /\ Len(new[id]) \in Nat
  BY <1>3, LenProperties DEF Knowledges
<1>5. \A id \in Params : ConfigTable[id].off \in 0..117 /\ ConfigTable[id].len \in 1..33
                         /\ ConfigTable[id].off + ConfigTable[id].len <= 118
  BY TableOrder
<1>6. Bounded(new)
  <2> SUFFICES ASSUME NEW id \in Params PROVE Len(new[id]) <= ConfigTable[id].len
    BY DEF Bounded
  <2>1. Len(k[id]) <= ConfigTable[id].len
    BY DEF Bounded
  <2>2. CASE id = f.id
    <3>1. CASE f.val = <<>>
      <4> DEFINE m == ConfigTable[id].len
      <4>1. Len(new[id]) = 0 /\ m \in 1..33
        BY <1>1, <1>2, <1>3, <1>5, <2>2, <3>1
      <4>2. 0 <= m
        <5> HIDE DEF m
        <5> QED
          BY <4>1
      <4> QED
        BY <4>1, <4>2
    <3>2. CASE f.val # <<>>
      BY <1>1, <1>3, <2>1, <2>2, <3>2
    <3> QED
      BY <3>1, <3>2
  <2> QED
    BY <1>3, <2>1, <2>2
<1>7. ASSUME NEW id \in Params, NEW i \in DOMAIN new[id]
      PROVE  store2[ConfigTable[id].off + i - 1] = new[id][i]
  <2> DEFINE o == ConfigTable[id].off  m == ConfigTable[id].len  l == Len(bytes)
             n == ConfigTable[f.id].len  a == o + i - 1
  <2>1. i \in 1..Len(new[id]) /\ Len(new[id]) <= m
    BY <1>4, <1>6, LenProperties DEF Bounded
  <2>2. i \in 1..m /\ o \in 0..117 /\ m \in 1..33 /\ o + m <= 118
    <3>1. o \in 0..117 /\ m \in 1..33 /\ o + m <= 118 /\ Len(new[id]) \in Nat
      BY <1>4, <1>5
    <3> HIDE DEF o, m
    <3> QED
      BY <2>1, <3>1
  <2>3. /\ off \in 0..117 /\ l \in Nat /\ l <= n /\ n \in 1..33
    BY <1>1, <1>5
  <2>4. a \in 0..127
    <3> HIDE DEF o, m
    <3> QED
      BY <2>2
  <2>5. store2[a] = IF a \in off..(off + l - 1) THEN bytes[a - off + 1] ELSE store[a]
    BY <2>4 DEF SetOf
  <2>6. ASSUME i \in 1..Len(k[id]) PROVE store[a] = k[id][i]
    BY <1>4, <2>6, LenProperties DEF Agrees
  <2>7. CASE id = f.id
    <3>1. o = off
      BY <2>7
    <3>2. CASE i <= Len(f.val)
      <4>1. bytes = f.val /\ i <= l
        BY <1>2, <2>2, <3>2
      <4> HIDE DEF o, m, off, l
      <4>2. a \in off..(off + l - 1) /\ a - off + 1 = i
        BY <2>2, <2>3, <3>1, <4>1
      <4>3. store2[a] = f.val[i]
        BY <2>5, <4>1, <4>2
      <4>4. new[id][i] = f.val[i]
        BY <1>3, <2>1, <2>7, <3>2
      <4> QED
        BY <4>3, <4>4 DEF o
    <3>3. CASE ~(i <= Len(f.val))
      <4>1. f.val # <<>>
        BY <1>2, <1>3, <2>1, <2>7, <3>3
      <4>2. i \in 1..Len(k[id])
        BY <1>2, <1>3, <1>4, <2>1, <2>7, <3>3, <4>1
      <4>3. ~(i <= l)
        BY <3>3, <4>1
      <4> HIDE DEF o, m, off, l
      <4>4. a \notin off..(off + l - 1)
        BY <2>2, <2>3, <3>1, <4>3
      <4>5. store2[a] = k[id][i]
        BY <2>5, <2>6, <4>2, <4>4
      <4>6. new[id][i] = k[id][i]
        BY <1>3, <2>1, <2>7, <3>3
      <4> QED
        BY <4>5, <4>6 DEF o
    <3> QED
      BY <3>2, <3>3
  <2>8. CASE id # f.id
    <3>1. i \in 1..Len(k[id]) /\ new[id] = k[id]
      BY <1>3, <2>1, <2>8
    <3>2. o + m <= off \/ off + n <= o
      BY <1>1, <2>8, TableOrder
    <3>3. a \notin off..(off + l - 1)
      <4> HIDE DEF o, m, off, l, n
      <4> QED
        BY <2>2, <2>3, <3>2
    <3> QED
      BY <2>5, <2>6, <3>1, <3>3
  <2> QED
    BY <2>7, <2>8
<1>8. Agrees(store2, new)
  BY <1>7 DEF Agrees
<1> QED
  BY <1>6, <1>8 DEF new

(* A field of the packet: what is known of the parameters is in the store  *)
(* with the field as it was without, or an assertion fails.                *)
LEMMA FieldAgrees ==
  ASSUME NEW d \in WalkState, d.end = "none", NEW f \in ConfigField,
         NEW p \in Seq(Nat), Len(p) < 255, d.off + 2 + Len(f.val) <= Len(p),
         p[d.off + 1] = f.id, p[d.off + 2] = Len(f.val),
         \A j \in 1..Len(f.val) : p[d.off + 2 + j] = f.val[j],
         NEW k \in Knowledges, Agrees(d.store, k), Bounded(k), NEW stale
  PROVE  LET e == SetField(p, stale, d)
         IN  /\ e \in WalkState
             /\ e.end = "none" => /\ e.off = d.off + 2 + Len(f.val)
                                  /\ Agrees(e.store, Know(k, f)) /\ Bounded(Know(k, f))
<1> DEFINE off == d.off  l == Len(f.val)  zeros == [i \in 1..ConfigTable[f.id].off |-> 0]
           third == IF off + 5 <= Len(p) THEN p[off + 5] ELSE stale
           bytes == IF l > 0 THEN f.val ELSE zeros
           from == IF l > 0 THEN third ELSE 0
           set == DeviceSet(d, f.id, bytes, from)
<1>1. off \in 0..255 /\ f.id \in 0..255 /\ f.val \in Seq(ConfigByte) /\ l \in Nat /\ Len(p) \in Nat
  BY LenProperties DEF WalkState, ConfigField, ConfigByte
<1>2. l > 0 => SubSeq(p, off + 3, off + 2 + l) = f.val
  <2> SUFFICES ASSUME l > 0 PROVE SubSeq(p, off + 3, off + 2 + l) = f.val
    OBVIOUS
  <2> DEFINE a == off + 3  b == off + 2 + l  u == SubSeq(p, a, b)
  <2>1. a \in 1..Len(p) + 1 /\ b \in 0..Len(p) /\ a <= b /\ b - a + 1 = l
    <3> HIDE DEF off, l
    <3>1. off + 2 + l <= Len(p)
      BY DEF off, l
    <3> QED
      BY <1>1, <3>1
  <2>2. a \in 1..Len(p) /\ b \in a..Len(p)
    BY <1>1, <2>1
  <2>3. /\ u \in Seq(Nat) /\ Len(u) = l
        /\ \A j \in 1..l : u[j] = p[a + j - 1]
    <3>1. a \in Int /\ b \in Int /\ l \in Nat /\ a <= b /\ b - a + 1 = l
      BY <1>1, <2>1, <2>2
    <3> HIDE DEF a, b, l
    <3>2. \A i \in a..b : i \in 1..Len(p)
      BY <1>1, <2>2
    <3>3. \A i \in a..b : p[i] \in Nat
      BY <3>2, ElementOfSeq
    <3>4. /\ SubSeq(p, a, b) \in Seq(Nat)
          /\ Len(SubSeq(p, a, b)) = IF a <= b THEN b - a + 1 ELSE 0
          /\ \A i \in 1..(b - a + 1) : SubSeq(p, a, b)[i] = p[a + i - 1]
      BY <3>1, <3>3, SubSeqProperties
    <3> QED
      BY <3>1, <3>4 DEF u
  <2>4. ASSUME NEW j \in 1..l PROVE u[j] = f.val[j]
    <3>1. a + j - 1 = off + 2 + j
      <4> HIDE DEF off, l
      <4> QED
        BY <1>1
    <3> QED
      BY <2>3, <3>1
  <2>5. f.val \in Seq(Nat)
    <3>1. ConfigByte \subseteq Nat
      BY DEF ConfigByte
    <3> QED
      BY <1>1, <3>1, SeqMonotonic
  <2> HIDE DEF u
  <2> QED
    BY <2>3, <2>4, <2>5, SeqEqual DEF u
<1>3. SetField(p, stale, d) = [set EXCEPT !.off = NextField(off, l)]
  BY <1>2 DEF SetField
<1>4. bytes \in Seq(ConfigByte) /\ (f.val # <<>> => bytes = f.val)
  <2> DEFINE n == ConfigTable[f.id].off
  <2>1. n \in Nat
    <3>1. n \in 0..117
      <4>1. f.id \in 0..255
        BY <1>1
      <4> QED
        BY <4>1, TableType, Zenon
    <3> HIDE DEF n
    <3> QED
      BY <3>1
  <2>2. zeros \in Seq(ConfigByte)
    <3> HIDE DEF n
    <3>1. [i \in 1..n |-> 0] \in Seq(ConfigByte)
      BY <2>1 DEF ConfigByte
    <3> QED
      BY <3>1 DEF n
  <2>3. f.val # <<>> => l > 0
    BY <1>1, EmptySeq
  <2> HIDE DEF zeros, l
  <2> QED
    BY <1>1, <2>2, <2>3
<1> HIDE DEF bytes, from
<1>5. /\ set \in WalkState /\ set.off = off
      /\ set.end = "none" => SetOf(d.store, set.store, f.id, bytes)
  BY <1>1, <1>4, DeviceSets
<1>6. set.end = "none" => Agrees(set.store, Know(k, f)) /\ Bounded(Know(k, f))
  BY <1>4, <1>5, SetAgrees
<1>7. NextField(off, l) = off + 2 + l /\ NextField(off, l) \in 0..255
  <2> DEFINE x == off + 2 + l
  <2>1. x <= Len(p) /\ Len(p) < 255 /\ Len(p) \in Nat
    BY <1>1
  <2>2. NextField(off, l) = x % 256
    BY DEF NextField
  <2>3. x \in 0..255
    <3>1. off \in 0..255 /\ l \in Nat
      BY <1>1
    <3>2. x \in Nat
      <4> HIDE DEF off, l
      <4> QED
        BY <3>1
    <3> HIDE DEF x
    <3> QED
      BY <2>1, <3>2
  <2>4. x % 256 = x
    BY <2>3, ByteMod
  <2> QED
    BY <2>2, <2>3, <2>4 DEF x
<1> HIDE DEF set
<1> DEFINE e == SetField(p, stale, d)
<1>8. /\ e \in WalkState /\ e.off = NextField(off, l)
      /\ e.store = set.store /\ e.end = set.end
  BY <1>3, <1>5, <1>7 DEF WalkState
<1> HIDE DEF e
<1> QED
  BY <1>6, <1>7, <1>8 DEF e

(* What the host knows after a command is of its type, and was put         *)
(* together field by field.                                                *)
LEMMA KnowledgeSteps ==
  ASSUME NEW fields \in Seq(ConfigField), known \in Knowledges
  PROVE  \E k \in [0..Len(fields) -> Knowledges] :
           /\ k[0] = known /\ k[Len(fields)] = Knowledge(fields)
           /\ \A i \in 1..Len(fields) : k[i] = Know(k[i - 1], fields[i])
<1> DEFINE n == Len(fields)
           D == [i \in 0..n |-> Knowledges]
           step == [x \in (1..n) \X Knowledges |-> Know(x[2], fields[x[1]])]
           Is(F) == F = [i \in 0..n |-> IF i = 0 THEN known ELSE Know(F[i - 1], fields[i])]
           G == CHOOSE F : Is(F)
<1>1. n \in Nat /\ \A i \in 1..n : fields[i] \in ConfigField
  BY LenProperties, ElementOfSeq
<1>2. \A i \in 1..n : \A v \in Knowledges :
         step[<<i, v>>] = Know(v, fields[i]) /\ Know(v, fields[i]) \in Knowledges
  BY <1>1, KnowType
<1>3. PICK f : Recursion(f, n, known, step, D)
  <2>1. known \in D[0]
    BY <1>1
  <2>2. \A i \in 1..n : \A v \in D[i - 1] : step[<<i, v>>] \in D[i]
    <3> TAKE i \in 1..n
    <3>1. i \in 0..n /\ i - 1 \in 0..n
      BY <1>1
    <3> QED
      BY <1>2, <3>1
  <2> HIDE DEF step, D, n
  <2> QED
    BY <1>1, <2>1, <2>2, RecursionExists
<1> HIDE DEF step
<1>4. f = [i \in 0..n |-> f[i]] /\ f[0] = known /\ \A i \in 0..n : f[i] \in Knowledges
  BY <1>1, <1>3 DEF Recursion
<1>5. \A i \in 1..n : f[i] = Know(f[i - 1], fields[i])
  <2> TAKE i \in 1..n
  <2>1. i - 1 \in 0..n
    BY <1>1
  <2>2. f[i] = step[<<i, f[i - 1]>>]
    BY <1>3 DEF Recursion
  <2> QED
    BY <1>2, <1>4, <2>1, <2>2
<1>6. Is(f)
  <2>1. ASSUME NEW i \in 0..n
        PROVE  f[i] = IF i = 0 THEN known ELSE Know(f[i - 1], fields[i])
    BY <1>1, <1>4, <1>5
  <2> QED
    BY <1>4, <2>1
<1>7. Is(G)
  <2> HIDE DEF Is
  <2> QED
    BY <1>6
<1>8. Knowledge(fields) = G[n]
  BY DEF Knowledge
<1> HIDE DEF G
<1>9. G[0] = known /\ \A i \in 1..n : G[i] = Know(G[i - 1], fields[i])
  BY <1>1, <1>7
<1>10. \A i \in 0..n : f[i] = G[i]
  <2>1. StepAlike(f, G, n)
    BY <1>4, <1>5, <1>9 DEF StepAlike
  <2>2. Alike(f, G, n)
    BY <1>1, <2>1, RecursionUnique
  <2> HIDE DEF n
  <2> QED
    BY <2>2 DEF Alike
<1>11. f[n] = Knowledge(fields)
  BY <1>1, <1>8, <1>10
<1>12. f \in [0..n -> Knowledges]
  BY <1>4
<1> HIDE DEF n
<1> QED
  BY <1>4, <1>5, <1>11, <1>12 DEF n

(* The packet of a command has the fields one behind the other. *)
LEMMA PacketPlaces ==
  ASSUME NEW fields \in Seq(ConfigField), Len(Packet(fields)) < 255
  PROVE  /\ Packet(fields) \in Seq(Nat)
         /\ \E g \in [0..Len(fields) -> Nat] :
              /\ g[0] = 0
              /\ \A i \in 1..Len(fields) :
                   /\ g[i] = g[i - 1] + 2 + Len(fields[i].val) /\ g[i] <= Len(Packet(fields))
                   /\ Packet(fields)[g[i - 1] + 1] = fields[i].id
                   /\ Packet(fields)[g[i - 1] + 2] = Len(fields[i].val)
                   /\ \A j \in 1..Len(fields[i].val) :
                        Packet(fields)[g[i - 1] + 2 + j] = fields[i].val[j]
<1> DEFINE n == Len(fields)
           q == [i \in 1..n |-> FieldBytes(fields[i])]
           p == Packet(fields)
<1>1. n \in Nat /\ \A i \in 1..n : fields[i] \in ConfigField
  BY LenProperties, ElementOfSeq
<1>2. ASSUME NEW f \in ConfigField
      PROVE  /\ FieldBytes(f) \in Seq(Nat) /\ f.val \in Seq(ConfigByte) /\ Len(f.val) \in Nat
             /\ Len(FieldBytes(f)) = 2 + Len(f.val)
             /\ FieldBytes(f)[1] = f.id /\ FieldBytes(f)[2] = Len(f.val)
             /\ \A j \in 1..Len(f.val) : FieldBytes(f)[2 + j] = f.val[j]
  <2> DEFINE h == <<f.id, Len(f.val)>>
  <2>1. f.val \in Seq(ConfigByte) /\ f.id \in ConfigByte
    BY DEF ConfigField
  <2>2. f.val \in Seq(Nat) /\ f.id \in Nat /\ Len(f.val) \in Nat
    <3>1. ConfigByte \subseteq Nat
      BY DEF ConfigByte
    <3>2. f.val \in Seq(Nat)
      BY <2>1, <3>1, SeqMonotonic
    <3>3. f.id \in Nat
      BY <2>1, <3>1
    <3> QED
      BY <3>2, <3>3, LenProperties
  <2>3. h \in Seq(Nat) /\ Len(h) = 2 /\ h[1] = f.id /\ h[2] = Len(f.val)
    BY <2>2
  <2>4. FieldBytes(f) = h \o f.val
    BY DEF FieldBytes
  <2> HIDE DEF h
  <2>5. /\ FieldBytes(f) \in Seq(Nat) /\ Len(FieldBytes(f)) = 2 + Len(f.val)
        /\ \A j \in 1..2 : FieldBytes(f)[j] = h[j]
        /\ \A j \in 1..Len(f.val) : FieldBytes(f)[2 + j] = f.val[j]
    <3> DEFINE v == f.val
    <3>1. v \in Seq(Nat)
      BY <2>2
    <3> HIDE DEF v
    <3>2. /\ h \o v \in Seq(Nat) /\ Len(h \o v) = Len(h) + Len(v)
          /\ \A j \in 1..Len(h) : (h \o v)[j] = h[j]
          /\ \A j \in 1..Len(v) : (h \o v)[Len(h) + j] = v[j]
      <4>1. h \in Seq(Nat)
        BY <2>3
      <4> QED
        BY <3>1, <4>1, ConcatPlaces, SMT
    <3> QED
      BY <2>3, <2>4, <3>2, Zenon DEF v
  <2>6. FieldBytes(f)[1] = f.id /\ FieldBytes(f)[2] = Len(f.val)
    <3>1. 1 \in 1..2 /\ 2 \in 1..2
      OBVIOUS
    <3> QED
      BY <2>3, <2>5, <3>1
  <2> QED
    BY <2>1, <2>2, <2>5, <2>6
<1>3. q \in Seq(Seq(Nat)) /\ Len(q) = n /\ \A i \in 1..n : q[i] = FieldBytes(fields[i])
  BY <1>1, <1>2
<1>4. p = FlattenSeq(q)
  BY DEF Packet
<1> HIDE DEF q, p
<1>0. PICK g : PrefixList(g, q, Nat)
  BY <1>3, FlattenPrefixes
<1>5. g \in [0..n -> Seq(Nat)] /\ g[0] = <<>> /\ g[n] = p
  BY <1>0, <1>3, <1>4 DEF PrefixList
<1>6. p \in Seq(Nat)
  BY <1>1, <1>5
<1> DEFINE at == [i \in 0..n |-> Len(g[i])]
<1>7. at \in [0..n -> Nat] /\ at[0] = 0
  <2>1. \A i \in 0..n : g[i] \in Seq(Nat) /\ Len(g[i]) \in Nat
    BY <1>5, LenProperties
  <2> QED
    BY <1>1, <1>5, <2>1
<1>8. ASSUME NEW i \in 1..n
      PROVE  LET f == fields[i]
             IN  /\ at[i] = at[i - 1] + 2 + Len(f.val) /\ at[i] <= Len(p)
                 /\ p[at[i - 1] + 1] = f.id /\ p[at[i - 1] + 2] = Len(f.val)
                 /\ \A j \in 1..Len(f.val) : p[at[i - 1] + 2 + j] = f.val[j]
  <2> DEFINE f == fields[i]  b == FieldBytes(f)  o == at[i - 1]  l == Len(f.val)  e == at[i]
  <2>1. /\ Len(g[i - 1]) + Len(q[i]) = Len(g[i]) /\ Len(g[i]) <= Len(g[n])
        /\ \A j \in 1..Len(q[i]) : g[n][Len(g[i - 1]) + j] = q[i][j]
    <3>1. i \in 1..Len(q)
      BY <1>3
    <3>2. PlacedAt(g, q, i)
      BY <1>0, <1>3, <3>1, FlattenPlaces
    <3> QED
      BY <1>3, <3>2, Zenon DEF PlacedAt
  <2>2. f \in ConfigField /\ q[i] = b
    BY <1>1, <1>3
  <2>3. l \in Nat /\ Len(b) = 2 + l
    BY <1>2, <2>2
  <2>4. b[1] = f.id /\ b[2] = l /\ \A j \in 1..l : b[2 + j] = f.val[j]
    BY <1>2, <2>2
  <2>5. o = Len(g[i - 1]) /\ e = Len(g[i])
    BY <1>1, <1>7
  <2>6. o \in Nat /\ e \in Nat
    BY <1>1, <1>7
  <2> HIDE DEF at, b, f, l, o, e
  <2>7. o + (2 + l) = e /\ e <= Len(p) /\ \A j \in 1..(2 + l) : p[o + j] = b[j]
    BY <1>5, <2>1, <2>2, <2>3, <2>5, Zenon
  <2>8. e = o + 2 + l
    <3>1. o + (2 + l) = e
      BY <2>7
    <3> QED
      BY <2>3, <2>6, <3>1
  <2>9. p[o + 1] = b[1] /\ p[o + 2] = b[2]
    <3>1. 1 \in 1..(2 + l) /\ 2 \in 1..(2 + l)
      BY <2>3
    <3> QED
      BY <2>7, <3>1, Zenon
  <2>10. ASSUME NEW j \in 1..l PROVE p[o + 2 + j] = f.val[j]
    <3>1. 2 + j \in 1..(2 + l) /\ o + 2 + j = o + (2 + j)
      BY <2>3, <2>6
    <3>2. p[o + (2 + j)] = b[2 + j]
      BY <2>7, <3>1, Zenon
    <3> QED
      BY <2>4, <3>1, <3>2, Zenon
  <2> QED
    BY <2>4, <2>7, <2>8, <2>9, <2>10, Zenon DEF f, l, o, e
<1> HIDE DEF at
<1> QED
  BY <1>6, <1>7, <1>8 DEF n, p

(* A command: what is known after it is in the store after it, or an       *)
(* assertion failed.                                                       *)
LEMMA WalkAgrees ==
  ASSUME NEW fields \in Seq(ConfigField), Len(Packet(fields)) < 255,
         config_id_value \in ConfigStore, known \in Knowledges,
         Bounded(known), Agrees(config_id_value, known), NEW stale
  PROVE  LET d == Walked(Packet(fields), Len(fields), stale)
         IN  /\ d \in WalkState
             /\ Knowledge(fields) \in Knowledges
             /\ d.end = "none" => Agrees(d.store, Knowledge(fields)) /\ Bounded(Knowledge(fields))
<1> DEFINE n == Len(fields)  p == Packet(fields)
           start == [off |-> 0, store |-> config_id_value, out |-> <<>>, end |-> "none"]
           Step(d) == IF d.end = "none" THEN SetField(p, stale, d) ELSE d
           Is(F) == F = [i \in 0..n |-> IF i = 0 THEN start ELSE Step(F[i - 1])]
           G == CHOOSE F : Is(F)
<1>1. n \in Nat /\ \A i \in 1..n : fields[i] \in ConfigField
  BY LenProperties, ElementOfSeq
<1>2. PICK k \in [0..n -> Knowledges] :
        /\ k[0] = known /\ k[n] = Knowledge(fields)
        /\ \A i \in 1..n : k[i] = Know(k[i - 1], fields[i])
  BY KnowledgeSteps
<1>3. p \in Seq(Nat)
  BY PacketPlaces
<1>4. PICK g \in [0..n -> Nat] :
        /\ g[0] = 0
        /\ \A i \in 1..n :
             /\ g[i] = g[i - 1] + 2 + Len(fields[i].val) /\ g[i] <= Len(p)
             /\ p[g[i - 1] + 1] = fields[i].id
             /\ p[g[i - 1] + 2] = Len(fields[i].val)
             /\ \A j \in 1..Len(fields[i].val) : p[g[i - 1] + 2 + j] = fields[i].val[j]
  BY PacketPlaces
<1> DEFINE Good(i, d) == d.end = "none" => d.off = g[i] /\ Agrees(d.store, k[i]) /\ Bounded(k[i])
           D == [i \in 0..n |-> {d \in WalkState : Good(i, d)}]
           step == [x \in (1..n) \X WalkState |-> Step(x[2])]
<1>5. start \in D[0]
  <2>1. start \in WalkState
    BY DEF WalkState
  <2>2. Good(0, start)
    BY <1>2, <1>4
  <2> QED
    BY <1>1, <2>1, <2>2
<1>6. ASSUME NEW i \in 1..n, NEW d \in WalkState, Good(i - 1, d)
      PROVE  Step(d) \in WalkState /\ Good(i, Step(d))
  <2>1. CASE d.end # "none"
    BY <1>6, <2>1
  <2>2. CASE d.end = "none"
    <3> DEFINE f == fields[i]  e == SetField(p, stale, d)  o == d.off  l == Len(f.val)
               a == g[i - 1]
    <3>1. f \in ConfigField /\ k[i - 1] \in Knowledges /\ k[i] = Know(k[i - 1], f)
      BY <1>1, <1>2
    <3>2. o = a /\ Agrees(d.store, k[i - 1]) /\ Bounded(k[i - 1])
      BY <1>6, <2>2
    <3>3. g[i] = a + 2 + l /\ a + 2 + l <= Len(p) /\ p[a + 1] = f.id /\ p[a + 2] = l
      BY <1>4
    <3>4. \A j \in 1..l : p[a + 2 + j] = f.val[j]
      BY <1>4
    <3>5. Step(d) = e
      BY <2>2
    <3> HIDE DEF a, f
    <3>6. /\ o + 2 + l <= Len(p) /\ p[o + 1] = f.id /\ p[o + 2] = l
          /\ \A j \in 1..l : p[o + 2 + j] = f.val[j]
      BY <3>2, <3>3, <3>4, Zenon
    <3> DEFINE h == k[i - 1]
    <3> HIDE DEF e, p, o, l
    <3>9. h \in Knowledges /\ Agrees(d.store, h) /\ Bounded(h)
      BY <3>1, <3>2
    <3>10. k[i] = Know(h, f)
      BY <3>1
    <3> HIDE DEF h
    <3>11. /\ e \in WalkState
          /\ e.end = "none" => /\ e.off = d.off + 2 + Len(f.val)
                               /\ Agrees(e.store, Know(h, f)) /\ Bounded(Know(h, f))
      <4>1. /\ p \in Seq(Nat) /\ Len(p) < 255 /\ d.off + 2 + Len(f.val) <= Len(p)
            /\ p[d.off + 1] = f.id /\ p[d.off + 2] = Len(f.val)
            /\ \A j \in 1..Len(f.val) : p[d.off + 2 + j] = f.val[j]
        BY <1>3, <3>6 DEF o, l, p
      <4> QED
        BY <2>2, <3>1, <3>9, <4>1, FieldAgrees, Zenon DEF e
    <3>7. /\ e \in WalkState
          /\ e.end = "none" => /\ e.off = o + 2 + l
                               /\ Agrees(e.store, k[i]) /\ Bounded(k[i])
      BY <3>10, <3>11 DEF o, l
    <3>8. o + 2 + l = g[i]
      BY <3>2, <3>3, Zenon
    <3> QED
      BY <3>5, <3>7, <3>8
  <2> QED
    BY <2>1, <2>2
<1> HIDE DEF Good, Step, start
<1>7. PICK f : Recursion(f, n, start, step, D)
  <2>1. \A i \in 1..n : \A v \in D[i - 1] : step[<<i, v>>] \in D[i]
    <3> TAKE i \in 1..n
    <3> TAKE v \in D[i - 1]
    <3>1. i \in 0..n /\ i - 1 \in 0..n
      BY <1>1
    <3>2. v \in WalkState /\ Good(i - 1, v)
      BY <3>1
    <3>3. step[<<i, v>>] = Step(v)
      BY <3>2
    <3>4. D[i] = {d \in WalkState : Good(i, d)}
      BY <3>1
    <3> HIDE DEF step, D
    <3> QED
      BY <1>6, <3>2, <3>3, <3>4
  <2> HIDE DEF step, D, n
  <2> QED
    BY <1>1, <1>5, <2>1, RecursionExists
<1>8. \A i \in 0..n : f[i] \in WalkState /\ Good(i, f[i])
  BY <1>7 DEF Recursion
<1>9. f = [i \in 0..n |-> f[i]] /\ f[0] = start
  BY <1>7 DEF Recursion
<1>10. \A i \in 1..n : f[i] = Step(f[i - 1])
  <2> TAKE i \in 1..n
  <2>1. i - 1 \in 0..n
    BY <1>1
  <2>2. f[i] = step[<<i, f[i - 1]>>]
    BY <1>7, Zenon DEF Recursion
  <2> QED
    BY <1>8, <2>1, <2>2
<1> HIDE DEF step, D
<1>11. Is(f)
  <2>1. ASSUME NEW i \in 0..n
        PROVE  f[i] = IF i = 0 THEN start ELSE Step(f[i - 1])
    <3>1. i = 0 \/ i \in 1..n
      BY <1>1
    <3>2. i \in 1..n => i # 0
      BY <1>1
    <3> HIDE DEF n
    <3> QED
      BY <1>9, <1>10, <3>1, <3>2, Zenon
  <2> QED
    BY <1>9, <2>1
<1>12. Is(G)
  <2> HIDE DEF Is
  <2> QED
    BY <1>11
<1>13. Walked(p, n, stale) = G[n]
  BY DEF Walked, Step, start
<1> HIDE DEF G
<1>14. G[0] = start /\ \A i \in 1..n : G[i] = Step(G[i - 1])
  BY <1>1, <1>12
<1>15. \A i \in 0..n : f[i] = G[i]
  <2>1. StepAlike(f, G, n)
    BY <1>9, <1>10, <1>14 DEF StepAlike
  <2>2. Alike(f, G, n)
    BY <1>1, <2>1, RecursionUnique
  <2> HIDE DEF n
  <2> QED
    BY <2>2 DEF Alike
<1>16. Walked(p, n, stale) \in WalkState /\ Good(n, Walked(p, n, stale))
  BY <1>1, <1>8, <1>13, <1>15
<1> QED
  BY <1>1, <1>2, <1>16 DEF Good

ConfigInv ==
  /\ config_id_value \in ConfigStore /\ config_end \in {"none", "assert"}
  /\ known \in Knowledges
  /\ config_end = "none" => Agrees(config_id_value, known) /\ Bounded(known)

(* Nothing is known of a store that is all zero. *)
LEMMA ConfigInitInv == ConfigInit => ConfigInv
<1> SUFFICES ASSUME ConfigInit PROVE ConfigInv
  OBVIOUS
<1>1. config_id_value \in ConfigStore
  BY DEF ConfigInit, ConfigStore, ConfigByte, StoreSize
<1>2. known = [id \in Params |-> <<>>] /\ known \in Knowledges
  BY DEF ConfigInit, Knowledges
<1>3. Agrees(config_id_value, known)
  BY <1>2 DEF Agrees
<1>4. Bounded(known)
  <2> SUFFICES ASSUME NEW id \in Params PROVE Len(known[id]) <= ConfigTable[id].len
    BY DEF Bounded
  <2> DEFINE m == ConfigTable[id].len
  <2>1. m \in 1..33 /\ Len(known[id]) = 0
    BY <1>2, TableOrder
  <2>2. 0 <= m
    <3>1. m \in 1..33
      BY <2>1
    <3> HIDE DEF m
    <3> QED
      BY <3>1
  <2> QED
    BY <2>1, <2>2
<1> QED
  BY <1>1, <1>2, <1>3, <1>4 DEF ConfigInit, ConfigInv

(* A command keeps the invariant. *)
LEMMA ConfigStepInv ==
  ASSUME ConfigInv, ConfigNext
  PROVE  ConfigInv'
<1>1. PICK n \in 1..MaxParams : \E fs \in [1..n -> ConfigFields] :
        /\ Len(Packet(fs)) < 255
        /\ \E stale \in IF ReadsBehind(fs) THEN {0, 1} ELSE {0} : CoreSetConfig(fs, stale)
  BY DEF ConfigNext
<1>2. PICK fields \in [1..n -> ConfigFields] :
        /\ Len(Packet(fields)) < 255
        /\ \E stale \in IF ReadsBehind(fields) THEN {0, 1} ELSE {0} : CoreSetConfig(fields, stale)
  BY <1>1
<1>3. PICK stale : CoreSetConfig(fields, stale)
  BY <1>2
<1>4. fields \in Seq(ConfigField)
  <2>1. n \in Nat
    BY ConfigAssumption
  <2>2. ConfigFields \subseteq ConfigField
    BY ConfigAssumption DEF ConfigField
  <2>3. fields \in [1..n -> ConfigField]
    BY <2>2
  <2> QED
    BY <2>1, <2>3
<1> DEFINE d == Walked(Packet(fields), Len(fields), stale)  k == Knowledge(fields)
<1>5. /\ config_id_value \in ConfigStore /\ known \in Knowledges
      /\ Agrees(config_id_value, known) /\ Bounded(known)
  BY DEF ConfigInv, ConfigNext
<1>6. /\ d \in WalkState /\ k \in Knowledges
      /\ d.end = "none" => Agrees(d.store, k) /\ Bounded(k)
  BY <1>2, <1>4, <1>5, WalkAgrees
<1>7. /\ config_end' = d.end /\ config_id_value' = d.store
      /\ known' = IF d.end = "none" THEN k ELSE known
  BY <1>3 DEF CoreSetConfig
<1> HIDE DEF d, k
<1>8. d.store \in ConfigStore /\ d.end \in {"none", "assert"}
  BY <1>6 DEF WalkState
<1>9. known' \in Knowledges
  BY <1>5, <1>6, <1>7
<1>10. ASSUME config_end' = "none" PROVE Agrees(config_id_value', known') /\ Bounded(known')
  BY <1>6, <1>7, <1>10
<1> QED
  BY <1>7, <1>8, <1>9, <1>10 DEF ConfigInv, Agrees, Bounded

(* What is no command of the configuration leaves the invariant. *)
LEMMA ConfigStutterInv ==
  ASSUME ConfigInv, UNCHANGED configVars
  PROVE  ConfigInv'
BY DEF ConfigInv, configVars, Agrees, Bounded

(* ConfigInv holds in every state. *)
THEOREM ConfigInvariant == DataSpec => []ConfigInv
<1>1. DataInit => ConfigInv
  BY ConfigInitInv DEF DataInit
<1>2. ConfigInv /\ [DataNext]_dataVars => ConfigInv'
  <2> SUFFICES ASSUME ConfigInv, [DataNext]_dataVars PROVE ConfigInv'
    OBVIOUS
  <2>1. CASE OnConfig
    BY <2>1, ConfigStepInv DEF OnConfig
  <2>2. CASE ~OnConfig
    <3>1. UNCHANGED configVars
      BY <2>2 DEF DataNext, OnTag, OnSnep, dataVars
    <3> QED
      BY <3>1, ConfigStutterInv
  <2> QED
    BY <2>1, <2>2
<1> QED
  BY <1>1, <1>2, PTL DEF DataSpec

(* The store has, for every set of fields and whatever their number, of    *)
(* each parameter what the host set last.                                  *)
THEOREM ParamsSeparateAlways == DataSpec => []ParamsSeparate
<1>1. ConfigInv => ParamsSeparate
  BY DEF ConfigInv, ParamsSeparate, Agrees
<1> QED
  BY <1>1, ConfigInvariant, PTL

------------------------------------------------------------------------------
(* A sequence put in at the end ends up at the end. *)
LEMMA FlattenAppend ==
  ASSUME NEW S, NEW q \in Seq(Seq(S)), NEW x \in Seq(S)
  PROVE  FlattenSeq(Append(q, x)) = FlattenSeq(q) \o x
<1> DEFINE r == Append(q, x)  n == Len(q)
<1>1. n \in Nat /\ r \in Seq(Seq(S)) /\ Len(r) = n + 1
  BY AppendProperties, LenProperties
<1>2. r[n + 1] = x /\ \A i \in 1..n : r[i] = q[i]
  BY AppendProperties
<1> HIDE DEF r
<1>3. PICK g : PrefixList(g, q, S)
  BY FlattenPrefixes
<1>4. PICK h : PrefixList(h, r, S)
  BY <1>1, FlattenPrefixes
<1>5. h[0] = <<>> /\ \A i \in 1..(n + 1) : h[i] = h[i - 1] \o r[i]
  BY <1>1, <1>4 DEF PrefixList
<1>6. g[0] = <<>> /\ \A i \in 1..n : g[i] = g[i - 1] \o q[i]
  BY <1>3 DEF PrefixList
<1>7. Alike(g, h, n)
  <2>1. \A i \in 1..n : i \in 1..(n + 1)
    BY <1>1
  <2>2. StepAlike(g, h, n)
    <3> HIDE DEF n
    <3> QED
      BY <1>2, <1>5, <1>6, <2>1, Zenon DEF StepAlike
  <2> HIDE DEF n
  <2> QED
    BY <1>1, <2>2, RecursionUnique
<1>8. h[n + 1] = h[n] \o x /\ h[n] = g[n]
  <2>1. n + 1 \in 1..(n + 1) /\ (n + 1) - 1 = n /\ n \in 0..n
    BY <1>1
  <2> HIDE DEF n
  <2> QED
    BY <1>2, <1>5, <1>7, <2>1, Zenon DEF Alike
<1>9. h[n + 1] = FlattenSeq(r) /\ g[n] = FlattenSeq(q)
  BY <1>1, <1>3, <1>4 DEF PrefixList
<1> QED
  BY <1>8, <1>9 DEF r

(* One sequence alone stays what it is. *)
LEMMA FlattenOne ==
  ASSUME NEW S, NEW x \in Seq(S)
  PROVE  FlattenSeq(<<x>>) = x
<1>1. FlattenSeq(<<>>) = <<>>
  BY Len(<<>>) = 0 DEF FlattenSeq
<1>2. <<>> \in Seq(Seq(S)) /\ <<x>> = Append(<<>>, x)
  OBVIOUS
<1>3. FlattenSeq(Append(<<>>, x)) = <<>> \o x
  BY <1>1, <1>2, FlattenAppend
<1> QED
  BY <1>2, <1>3, ConcatEmptySeq

------------------------------------------------------------------------------
(* A tag's memory of size bytes *)
MemOf(size) == [0..(size - 1) -> Nat]

(* A reading has the bytes of its addresses. *)
LEMMA ReadBytes ==
  ASSUME NEW size \in Nat, NEW m \in MemOf(size), NEW at \in Nat, NEW n \in Nat, at + n <= size
  PROVE  /\ Read(m, at, n) \in Seq(Nat) /\ Len(Read(m, at, n)) = n
         /\ \A i \in 1..n : Read(m, at, n)[i] = m[at + i - 1] /\ m[at + i - 1] \in Nat
<1>1. ASSUME NEW i \in 1..n PROVE m[at + i - 1] \in Nat
  <2>1. at + i - 1 \in 0..(size - 1)
    OBVIOUS
  <2> QED
    BY <2>1 DEF MemOf
<1> QED
  BY <1>1 DEF Read

(* What is copied into memory is there, and the rest is as it was. *)
LEMMA CopyBytes ==
  ASSUME NEW size \in Nat, NEW m \in MemOf(size), NEW at \in Nat, NEW b \in Seq(Nat),
         at + Len(b) <= size
  PROVE  /\ Copy(m, at, b) \in MemOf(size)
         /\ \A j \in 1..Len(b) : Copy(m, at, b)[at + j - 1] = b[j]
         /\ \A a \in DOMAIN m : a < at \/ a >= at + Len(b) => Copy(m, at, b)[a] = m[a]
<1> DEFINE l == Len(b)  c == Copy(m, at, b)
<1>1. l \in Nat /\ \A j \in 1..l : b[j] \in Nat
  BY LenProperties, ElementOfSeq
<1>2. DOMAIN m = 0..(size - 1) /\ \A a \in 0..(size - 1) : m[a] \in Nat
  BY DEF MemOf
<1>3. c = [a \in 0..(size - 1) |-> IF a \in at..(at + l - 1) THEN b[a - at + 1] ELSE m[a]]
  BY <1>2 DEF Copy
<1> HIDE DEF l, c
<1>4. ASSUME NEW j \in 1..l PROVE c[at + j - 1] = b[j]
  <2> DEFINE a == at + j - 1
  <2>1. at + l <= size
    BY DEF l
  <2>2. a \in at..(at + l - 1) /\ a - at + 1 = j /\ a \in 0..(size - 1)
    BY <1>1, <2>1
  <2> HIDE DEF a
  <2>3. c[a] = b[j]
    BY <1>3, <2>2
  <2> QED
    BY <2>3 DEF a
<1>5. ASSUME NEW a \in 0..(size - 1), a < at \/ a >= at + l PROVE c[a] = m[a]
  <2>1. a \notin at..(at + l - 1)
    BY <1>1, <1>5
  <2> QED
    BY <1>3, <2>1
<1>6. ASSUME NEW a \in 0..(size - 1) PROVE c[a] \in Nat
  <2>1. CASE a \in at..(at + l - 1)
    <3>1. a - at + 1 \in 1..l
      BY <1>1, <2>1
    <3> QED
      BY <1>1, <1>3, <2>1, <3>1
  <2>2. CASE a \notin at..(at + l - 1)
    BY <1>2, <1>3, <2>2
  <2> QED
    BY <2>1, <2>2
<1>7. c \in MemOf(size)
  <2>1. c = [a \in 0..(size - 1) |-> c[a]]
    BY <1>3
  <2> QED
    BY <1>6, <2>1 DEF MemOf
<1> QED
  BY <1>2, <1>4, <1>5, <1>7 DEF c, l

(* Two readings, the second where the first ends, are one. *)
ReadsJoin(m, at, n, k) ==
  Read(m, at, n) \o Read(m, at + n, k) = Read(m, at, n + k)

LEMMA ReadOn ==
  ASSUME NEW size \in Nat, NEW m \in MemOf(size), NEW at \in Nat, NEW n \in Nat, NEW k \in Nat,
         at + n + k <= size
  PROVE  ReadsJoin(m, at, n, k)
<1> DEFINE r == Read(m, at, n)  t == Read(m, at + n, k)  u == Read(m, at, n + k)
<1>1. r \in Seq(Nat) /\ Len(r) = n /\ \A i \in 1..n : r[i] = m[at + i - 1]
  BY ReadBytes
<1>2. t \in Seq(Nat) /\ Len(t) = k /\ \A i \in 1..k : t[i] = m[at + n + i - 1]
  <2> DEFINE b == at + n
  <2>1. b \in Nat /\ b + k <= size
    OBVIOUS
  <2> HIDE DEF b
  <2>2. /\ Read(m, b, k) \in Seq(Nat) /\ Len(Read(m, b, k)) = k
        /\ \A i \in 1..k : Read(m, b, k)[i] = m[b + i - 1]
    BY <2>1, ReadBytes
  <2> QED
    BY <2>2 DEF b
<1>3. u \in Seq(Nat) /\ Len(u) = n + k /\ \A i \in 1..(n + k) : u[i] = m[at + i - 1]
  <2>1. n + k \in Nat /\ at + (n + k) <= size
    OBVIOUS
  <2> QED
    BY <2>1, ReadBytes
<1> HIDE DEF r, t, u
<1>4. /\ r \o t \in Seq(Nat) /\ Len(r \o t) = n + k
      /\ \A i \in 1..(n + k) : (r \o t)[i] = IF i <= n THEN r[i] ELSE t[i - n]
  BY <1>1, <1>2, ConcatProperties
<1>5. ASSUME NEW i \in 1..(n + k) PROVE (r \o t)[i] = u[i]
  <2>1. CASE i <= n
    <3>1. i \in 1..n
      BY <2>1
    <3> QED
      BY <1>1, <1>3, <1>4, <2>1, <3>1
  <2>2. CASE ~(i <= n)
    <3>1. i - n \in 1..k /\ at + n + (i - n) - 1 = at + i - 1
      BY <2>2
    <3> QED
      BY <1>2, <1>3, <1>4, <2>2, <3>1
  <2> QED
    BY <2>1, <2>2
<1> QED
  BY <1>3, <1>4, <1>5, SeqEqual DEF r, t, u, ReadsJoin

------------------------------------------------------------------------------
(* What the memory of a tag with content c holds *)
NoMessage(c) == c = NoNdef
AMessage(c)  == c = Holds(c.msg) /\ c.msg \in Seq(Nat)

HeldT1t(m, c) ==
  /\ m \in MemOf(120)
  /\ \/ NoMessage(c) /\ m[8] = 0
     \/ /\ AMessage(c) /\ Len(c.msg) <= 89
        /\ m[8] = 225 /\ m[9] = 16 /\ m[10] = 14 /\ m[11] = 0
        /\ m[12] = TlvNdef /\ m[13] = Len(c.msg)
        /\ \A i \in 1..Len(c.msg) : m[13 + i] = c.msg[i]

HeldT2t(m, c) ==
  /\ m \in MemOf(64)
  /\ \/ NoMessage(c) /\ m[16] = 0
     \/ /\ AMessage(c) /\ Len(c.msg) <= 45
        /\ m[16] = TlvNdef /\ m[17] = Len(c.msg)
        /\ \A i \in 1..Len(c.msg) : m[17 + i] = c.msg[i]

HeldT3t(m, c) ==
  /\ m \in MemOf(1024)
  /\ AMessage(c) /\ Len(c.msg) <= 1007
  /\ m[11] * 65536 + m[12] * 256 + m[13] = Len(c.msg)
  /\ m[14] * 256 + m[15] = Checksum(Read(m, 0, 14))
  /\ \A i \in 1..Len(c.msg) : m[15 + i] = c.msg[i]

HeldT4t(m, c) ==
  /\ m \in MemOf(1039)
  /\ \/ NoMessage(c) /\ m[7] = Proprietary
     \/ /\ AMessage(c) /\ Len(c.msg) <= 1021
        /\ m[7] = NdefFile /\ m[15] * 256 + m[16] = Len(c.msg)
        /\ \A i \in 1..Len(c.msg) : m[16 + i] = c.msg[i]

(* What the host has of it after the responses g *)
GatheredOf(g, first, n) ==
  FlattenSeq([i \in 1..(Len(g) - first + 1) |-> Without(g[first + i - 1], n)])

GotT1t(m, g) == Len(g) <= 2 /\ (Len(g) = 2 => g[2] = HR \o Read(m, 0, 120) \o <<0>>)
GotT2t(m, g) == Len(g) <= 4 /\ GatheredOf(g, 1, 1) = Read(m, 0, 16 * Len(g))
GotT3t(m, g) ==
  g # <<>> => /\ g[1] = Read(m, 0, 16) \o <<0>>
              /\ \E k \in 0..63 : GatheredOf(g, 2, 1) = Read(m, 16, 16 * k)
GotT4t(m, c, g, sel) ==
  /\ Len(g) \in 2..3 => sel = "CC"
  /\ Len(g) >= 4 => sel = "NDEF" /\ c.ndef = TRUE
  /\ Len(g) >= 3 => g[3] = Read(m, 0, 15) \o Sw(144, 0)
  /\ Len(g) >= 5 => /\ g[5] = Read(m, 15, 2) \o Sw(144, 0)
                    /\ \E h \in 0..Len(c.msg) : GatheredOf(g, 6, 2) = Read(m, 17, h)

TagInv ==
  /\ tag_type \in TagTypes /\ t4t_file_sel \in Files
  /\ tag_end \in {"none", "assert", "overrun"}
  /\ got \in Seq(Seq(Nat))
  /\ tag_type = "T1T" => HeldT1t(mem, content) /\ GotT1t(mem, got)
  /\ tag_type = "T2T" => HeldT2t(mem, content) /\ GotT2t(mem, got)
  /\ tag_type = "T3T" => HeldT3t(mem, content) /\ GotT3t(mem, got)
  /\ tag_type = "T4T" => HeldT4t(mem, content) /\ GotT4t(mem, content, got, t4t_file_sel)

(* A checksum is the sum of what comes before the last byte, and the last. *)
LEMMA ChecksumSteps ==
  ASSUME NEW b \in Seq(Nat)
  PROVE  \E s \in [0..Len(b) -> Nat] :
           /\ s[0] = 0 /\ s[Len(b)] = Checksum(b)
           /\ \A i \in 1..Len(b) : s[i] = s[i - 1] + b[i]
<1> DEFINE n == Len(b)
           D == [i \in 0..n |-> Nat]
           step == [x \in (1..n) \X Nat |-> x[2] + b[x[1]]]
           Is(F) == F = [i \in 0..n |-> IF i = 0 THEN 0 ELSE F[i - 1] + b[i]]
           G == CHOOSE F : Is(F)
<1>1. n \in Nat /\ \A i \in 1..n : b[i] \in Nat
  BY LenProperties, ElementOfSeq
<1>2. \A i \in 1..n : \A v \in Nat : step[<<i, v>>] = v + b[i] /\ v + b[i] \in Nat
  <2> HIDE DEF n
  <2> QED
    BY <1>1
<1>3. PICK f : Recursion(f, n, 0, step, D)
  <2>1. 0 \in D[0]
    BY <1>1
  <2>2. \A i \in 1..n : \A v \in D[i - 1] : step[<<i, v>>] \in D[i]
    <3> TAKE i \in 1..n
    <3>1. i \in 0..n /\ i - 1 \in 0..n
      BY <1>1
    <3>2. D[i] = Nat /\ D[i - 1] = Nat
      BY <3>1
    <3> HIDE DEF step, D
    <3> QED
      BY <1>2, <3>2
  <2> HIDE DEF step, D, n
  <2> QED
    BY <1>1, <2>1, <2>2, RecursionExists
<1> HIDE DEF step
<1>4. f = [i \in 0..n |-> f[i]] /\ f[0] = 0 /\ \A i \in 0..n : f[i] \in Nat
  BY <1>1, <1>3 DEF Recursion
<1>5. \A i \in 1..n : f[i] = f[i - 1] + b[i]
  <2> TAKE i \in 1..n
  <2>1. i - 1 \in 0..n
    BY <1>1
  <2>2. f[i] = step[<<i, f[i - 1]>>]
    BY <1>3 DEF Recursion
  <2> QED
    BY <1>2, <1>4, <2>1, <2>2
<1>6. Is(f)
  <2>1. ASSUME NEW i \in 0..n
        PROVE  f[i] = IF i = 0 THEN 0 ELSE f[i - 1] + b[i]
    <3>1. CASE i = 0
      BY <1>4, <3>1
    <3>2. CASE i # 0
      <4>1. i \in 1..n
        BY <1>1, <3>2
      <4> HIDE DEF n
      <4> QED
        BY <1>5, <3>2, <4>1, Zenon
    <3> QED
      BY <3>1, <3>2
  <2> QED
    BY <1>4, <2>1
<1>7. Is(G)
  <2> HIDE DEF Is
  <2> QED
    BY <1>6
<1>8. Checksum(b) = G[n]
  BY DEF Checksum
<1> HIDE DEF G
<1>9. G[0] = 0 /\ \A i \in 1..n : G[i] = G[i - 1] + b[i]
  BY <1>1, <1>7
<1>10. \A i \in 0..n : f[i] = G[i]
  <2>1. StepAlike(f, G, n)
    BY <1>4, <1>5, <1>9 DEF StepAlike
  <2>2. Alike(f, G, n)
    BY <1>1, <2>1, RecursionUnique
  <2> HIDE DEF n
  <2> QED
    BY <2>2 DEF Alike
<1>11. f[n] = Checksum(b)
  BY <1>1, <1>8, <1>10
<1>12. f \in [0..n -> Nat]
  BY <1>4
<1> HIDE DEF n
<1> QED
  BY <1>4, <1>5, <1>11, <1>12 DEF n

(* It is a number. *)
LEMMA ChecksumType ==
  ASSUME NEW b \in Seq(Nat) PROVE Checksum(b) \in Nat
<1>1. PICK s \in [0..Len(b) -> Nat] : s[Len(b)] = Checksum(b)
  BY ChecksumSteps
<1>2. Len(b) \in 0..Len(b)
  BY LenProperties
<1> QED
  BY <1>1, <1>2

(* The checksum that a formatted Type 3 Tag has in its attributes is right. *)
LEMMA ChecksumFormatted ==
  Checksum(<<16, 4, 1, 0, 13, 0, 0, 0, 0, 0, 1, 0, 0, 0>>) = 35
<1> DEFINE b == <<16, 4, 1, 0, 13, 0, 0, 0, 0, 0, 1, 0, 0, 0>>
<1>1. /\ b[1] = 16 /\ b[2] = 4 /\ b[3] = 1 /\ b[4] = 0 /\ b[5] = 13 /\ b[11] = 1
      /\ b[6] = 0 /\ b[7] = 0 /\ b[8] = 0 /\ b[9] = 0 /\ b[10] = 0
      /\ b[12] = 0 /\ b[13] = 0 /\ b[14] = 0
  OBVIOUS
<1>2. b \in Seq(Nat) /\ Len(b) = 14
  OBVIOUS
<1> HIDE DEF b
<1>3. PICK s \in [0..14 -> Nat] :
        /\ s[0] = 0 /\ s[14] = Checksum(b)
        /\ \A i \in 1..14 : s[i] = s[i - 1] + b[i]
  BY <1>2, ChecksumSteps
<1>4. /\ s[1] = s[0] + b[1] /\ s[2] = s[1] + b[2] /\ s[3] = s[2] + b[3]
      /\ s[4] = s[3] + b[4] /\ s[5] = s[4] + b[5] /\ s[6] = s[5] + b[6]
      /\ s[7] = s[6] + b[7] /\ s[8] = s[7] + b[8] /\ s[9] = s[8] + b[9]
      /\ s[10] = s[9] + b[10] /\ s[11] = s[10] + b[11] /\ s[12] = s[11] + b[12]
      /\ s[13] = s[12] + b[13] /\ s[14] = s[13] + b[14]
  BY <1>3
<1>5. s[14] = 35
  BY <1>1, <1>3, <1>4
<1> QED
  BY <1>3, <1>5 DEF b

(* A message in a TLV. *)
LEMMA TlvPlaces ==
  ASSUME NEW msg \in Seq(Nat)
  PROVE  /\ Tlv(msg) \in Seq(Nat) /\ Len(Tlv(msg)) = Len(msg) + 3
         /\ Tlv(msg)[1] = TlvNdef /\ Tlv(msg)[2] = Len(msg)
         /\ \A i \in 1..Len(msg) : Tlv(msg)[2 + i] = msg[i]
<1> DEFINE h == <<TlvNdef, Len(msg)>>  e == <<TlvEnd>>  l == Len(msg)  u == h \o msg
<1>1. /\ h \in Seq(Nat) /\ Len(h) = 2 /\ h[1] = TlvNdef /\ h[2] = l
      /\ e \in Seq(Nat) /\ Len(e) = 1 /\ l \in Nat
  BY LenProperties DEF TlvNdef, TlvEnd
<1> HIDE DEF h, e
<1>2. /\ u \in Seq(Nat) /\ Len(u) = 2 + l
      /\ \A j \in 1..2 : u[j] = h[j]
      /\ \A j \in 1..l : u[2 + j] = msg[j]
  <2>1. /\ u \in Seq(Nat) /\ Len(u) = Len(h) + Len(msg)
        /\ \A j \in 1..Len(h) : u[j] = h[j]
        /\ \A j \in 1..Len(msg) : u[Len(h) + j] = msg[j]
    <3>1. h \in Seq(Nat)
      BY <1>1
    <3> QED
      BY <3>1, ConcatPlaces
  <2> HIDE DEF u
  <2> QED
    BY <1>1, <2>1
<1>3. Tlv(msg) = u \o e
  BY DEF Tlv, h, e
<1> HIDE DEF u
<1> DEFINE t == u \o e
<1>4. /\ t \in Seq(Nat) /\ Len(t) = Len(u) + Len(e)
      /\ \A j \in 1..Len(u) : t[j] = u[j]
  <2>1. u \in Seq(Nat) /\ e \in Seq(Nat)
    BY <1>1, <1>2
  <2> QED
    BY <2>1, ConcatPlaces
<1> HIDE DEF t, l
<1>5. /\ t \in Seq(Nat) /\ Len(t) = 2 + l + 1
      /\ \A j \in 1..(2 + l) : t[j] = u[j]
  BY <1>1, <1>2, <1>4
<1>6. Len(t) = l + 3 /\ t[1] = u[1] /\ t[2] = u[2]
  BY <1>1, <1>5
<1>7. \A i \in 1..l : t[2 + i] = msg[i]
  BY <1>1, <1>2, <1>5
<1> QED
  BY <1>1, <1>2, <1>3, <1>5, <1>6, <1>7 DEF t, l

(* Bytes put into a tag with zeros behind them *)
LEMMA FilledPlaces ==
  ASSUME NEW size \in Nat, NEW m \in MemOf(size), NEW type \in TagTypes,
         NEW b \in Seq(Nat), Len(b) <= DataSize[type], DataAt[type] + DataSize[type] <= size
  PROVE  /\ Filled(m, type, b) \in MemOf(size)
         /\ \A j \in 1..Len(b) : Filled(m, type, b)[DataAt[type] + j - 1] = b[j]
<1> DEFINE at == DataAt[type]  room == DataSize[type]  l == Len(b)
<1>1. at \in Nat /\ room \in Nat /\ l \in Nat
  BY LenProperties DEF DataAt, DataSize, TagTypes
<1>2. l <= room /\ at + room <= size
  OBVIOUS
<1> HIDE DEF at, room, l
<1> DEFINE r == room - l  z == Zeros(r)
<1>3. r \in Nat
  BY <1>1, <1>2
<1> HIDE DEF r
<1>4. z \in Seq(Nat) /\ Len(z) = r
  BY <1>3 DEF Zeros
<1> HIDE DEF z
<1> DEFINE f == b \o z
<1>5. f \in Seq(Nat) /\ Len(f) = l + r /\ \A j \in 1..l : f[j] = b[j]
  BY <1>4, ConcatPlaces DEF l
<1> HIDE DEF f
<1>6. at + Len(f) <= size
  BY <1>1, <1>2, <1>5 DEF r
<1>7. /\ Copy(m, at, f) \in MemOf(size)
      /\ \A j \in 1..Len(f) : Copy(m, at, f)[at + j - 1] = f[j]
  BY <1>1, <1>5, <1>6, CopyBytes
<1>8. \A j \in 1..l : j \in 1..Len(f)
  BY <1>1, <1>3, <1>5
<1>9. Filled(m, type, b) = Copy(m, at, f)
  BY DEF Filled, at, f, z, r, room, l
<1> DEFINE c == Copy(m, at, f)
<1>10. c \in MemOf(size) /\ \A j \in 1..l : c[at + j - 1] = b[j]
  BY <1>5, <1>7, <1>8
<1> HIDE DEF c
<1> QED
  BY <1>9, <1>10 DEF c, at, l

(* What is set on a Type 1 Tag is held by it. *)
LEMMA SetT1tHeld ==
  ASSUME NEW m \in MemOf(120), NEW msg \in Seq(Nat), Len(msg) <= 89
  PROVE  HeldT1t(SetT1t(m, msg), Holds(msg))
<1> DEFINE t == Tlv(msg)  l == Len(msg)  b == T1tCc \o t  c == SetT1t(m, msg)
<1>1. /\ t \in Seq(Nat) /\ Len(t) = l + 3
      /\ t[1] = TlvNdef /\ t[2] = l /\ \A i \in 1..l : t[2 + i] = msg[i]
  BY TlvPlaces
<1>2. l \in Nat /\ l <= 89
  BY LenProperties
<1>3. /\ T1tCc \in Seq(Nat) /\ Len(T1tCc) = 4
      /\ T1tCc[1] = 225 /\ T1tCc[2] = 16 /\ T1tCc[3] = 14 /\ T1tCc[4] = 0
  BY DEF T1tCc
<1> HIDE DEF t
<1>4. /\ b \in Seq(Nat) /\ Len(b) = 4 + (l + 3)
      /\ \A j \in 1..4 : b[j] = T1tCc[j]
      /\ \A j \in 1..(l + 3) : b[4 + j] = t[j]
  <2>1. /\ b \in Seq(Nat) /\ Len(b) = Len(T1tCc) + Len(t)
        /\ \A j \in 1..Len(T1tCc) : b[j] = T1tCc[j]
        /\ \A j \in 1..Len(t) : b[Len(T1tCc) + j] = t[j]
    <3>1. t \in Seq(Nat) /\ T1tCc \in Seq(Nat)
      BY <1>1, <1>3
    <3> QED
      BY <3>1, ConcatPlaces
  <2> HIDE DEF b
  <2> QED
    BY <1>1, <1>3, <2>1
<1> HIDE DEF b
<1>5. DataAt["T1T"] = 8 /\ DataSize["T1T"] = 96 /\ "T1T" \in TagTypes
  BY DEF DataAt, DataSize, TagTypes
<1>6. c = Filled(m, "T1T", b)
  BY DEF SetT1t, b, t
<1> HIDE DEF l
<1>7. Len(b) <= 96
  BY <1>2, <1>4
<1>8. c \in MemOf(120) /\ \A j \in 1..Len(b) : c[8 + j - 1] = b[j]
  <2>1. Len(b) <= DataSize["T1T"] /\ DataAt["T1T"] + DataSize["T1T"] <= 120
    BY <1>5, <1>7
  <2>2. /\ c \in MemOf(120)
        /\ \A j \in 1..Len(b) : c[DataAt["T1T"] + j - 1] = b[j]
    <3>1. b \in Seq(Nat) /\ 120 \in Nat
      BY <1>4
    <3> QED
      BY <1>5, <1>6, <2>1, <3>1, FilledPlaces
  <2> HIDE DEF c
  <2> QED
    BY <1>5, <2>2
<1> HIDE DEF c
<1>9. \A j \in 1..(l + 7) : c[7 + j] = b[j]
  <2> TAKE j \in 1..(l + 7)
  <2>1. j \in 1..Len(b) /\ 8 + j - 1 = 7 + j
    BY <1>2, <1>4
  <2> QED
    BY <1>8, <2>1
<1>10. c[8] = b[1] /\ c[9] = b[2] /\ c[10] = b[3] /\ c[11] = b[4] /\ c[12] = b[5] /\ c[13] = b[6]
  BY <1>2, <1>9
<1>11. b[1] = 225 /\ b[2] = 16 /\ b[3] = 14 /\ b[4] = 0
  BY <1>3, <1>4
<1>12. b[5] = t[1] /\ b[6] = t[2]
  BY <1>2, <1>4
<1>13. \A i \in 1..l : c[13 + i] = msg[i]
  <2> TAKE i \in 1..l
  <2>1. 6 + i \in 1..(l + 7) /\ 7 + (6 + i) = 13 + i /\ 2 + i \in 1..(l + 3) /\ 4 + (2 + i) = 6 + i
    BY <1>2
  <2>2. c[13 + i] = b[6 + i] /\ b[6 + i] = t[2 + i]
    BY <1>4, <1>9, <2>1
  <2> QED
    BY <1>1, <2>2
<1>14. AMessage(Holds(msg)) /\ Holds(msg).msg = msg
  BY DEF AMessage, Holds
<1>15. l <= 89
  BY <1>2
<1> QED
  BY <1>1, <1>8, <1>10, <1>11, <1>12, <1>13, <1>14, <1>15 DEF HeldT1t, l, c

(* And on a Type 2 Tag. *)
LEMMA SetT2tHeld ==
  ASSUME NEW m \in MemOf(64), NEW msg \in Seq(Nat), Len(msg) <= 45
  PROVE  HeldT2t(SetT2t(m, msg), Holds(msg))
<1> DEFINE b == Tlv(msg)  l == Len(msg)  c == SetT2t(m, msg)
<1>1. /\ b \in Seq(Nat) /\ Len(b) = l + 3
      /\ b[1] = TlvNdef /\ b[2] = l /\ \A i \in 1..l : b[2 + i] = msg[i]
  BY TlvPlaces
<1>2. l \in Nat /\ l <= 45
  BY LenProperties
<1>5. DataAt["T2T"] = 16 /\ DataSize["T2T"] = 48 /\ "T2T" \in TagTypes
  BY DEF DataAt, DataSize, TagTypes
<1>6. c = Filled(m, "T2T", b)
  BY DEF SetT2t
<1> HIDE DEF l, b
<1>7. Len(b) <= 48
  BY <1>1, <1>2
<1>8. c \in MemOf(64) /\ \A j \in 1..Len(b) : c[16 + j - 1] = b[j]
  <2>1. Len(b) <= DataSize["T2T"] /\ DataAt["T2T"] + DataSize["T2T"] <= 64
    BY <1>5, <1>7
  <2>2. /\ c \in MemOf(64)
        /\ \A j \in 1..Len(b) : c[DataAt["T2T"] + j - 1] = b[j]
    BY <1>1, <1>5, <1>6, <2>1, FilledPlaces
  <2> HIDE DEF c
  <2> QED
    BY <1>5, <2>2
<1> HIDE DEF c
<1>9. \A j \in 1..(l + 3) : c[15 + j] = b[j]
  <2> TAKE j \in 1..(l + 3)
  <2>1. j \in 1..Len(b) /\ 16 + j - 1 = 15 + j
    BY <1>1, <1>2
  <2> QED
    BY <1>8, <2>1
<1>10. c[16] = b[1] /\ c[17] = b[2]
  BY <1>2, <1>9
<1>13. \A i \in 1..l : c[17 + i] = msg[i]
  <2> TAKE i \in 1..l
  <2>1. 2 + i \in 1..(l + 3) /\ 15 + (2 + i) = 17 + i
    BY <1>2
  <2> QED
    BY <1>1, <1>9, <2>1
<1>14. AMessage(Holds(msg)) /\ Holds(msg).msg = msg
  BY DEF AMessage, Holds
<1> QED
  BY <1>1, <1>2, <1>8, <1>10, <1>13, <1>14 DEF HeldT2t, l, c

(* What division by 256 leaves. *)
LEMMA DivMod ==
  ASSUME NEW n \in Nat
  PROVE  /\ n \div 256 \in Nat /\ n % 256 \in Nat
         /\ n = (n \div 256) * 256 + (n % 256)
<1>1. n \div 256 \in Nat /\ n % 256 \in Nat
  OBVIOUS
<1>2. n = (n \div 256) * 256 + (n % 256)
  BY SMTT(30)
<1> QED
  BY <1>1, <1>2

(* A number in two bytes. *)
LEMMA Bytes16Number ==
  ASSUME NEW n \in Nat
  PROVE  /\ Bytes16(n) \in Seq(Nat) /\ Len(Bytes16(n)) = 2
         /\ Bytes16(n)[1] * 256 + Bytes16(n)[2] = n
<1>1. n \div 256 \in Nat /\ n % 256 \in Nat /\ n = (n \div 256) * 256 + (n % 256)
  BY DivMod
<1>2. Bytes16(n)[1] = n \div 256 /\ Bytes16(n)[2] = n % 256
  BY DEF Bytes16
<1>3. Bytes16(n) \in Seq(Nat) /\ Len(Bytes16(n)) = 2
  BY <1>1 DEF Bytes16
<1> QED
  BY <1>1, <1>2, <1>3

(* Bytes put in one by one. *)
LEMMA CopyTwo ==
  ASSUME NEW size \in Nat, NEW m \in MemOf(size), NEW at \in Nat, NEW b \in Seq(Nat),
         Len(b) = 2, at + 2 <= size
  PROVE  /\ Copy(m, at, b) \in MemOf(size)
         /\ Copy(m, at, b)[at] = b[1] /\ Copy(m, at, b)[at + 1] = b[2]
         /\ \A a \in DOMAIN m : a < at \/ a >= at + 2 => Copy(m, at, b)[a] = m[a]
<1> DEFINE c == Copy(m, at, b)
<1>1. /\ c \in MemOf(size) /\ \A j \in 1..Len(b) : c[at + j - 1] = b[j]
      /\ \A a \in DOMAIN m : a < at \/ a >= at + Len(b) => c[a] = m[a]
  BY CopyBytes
<1> HIDE DEF c
<1>2. c[at + 1 - 1] = b[1] /\ c[at + 2 - 1] = b[2]
  BY <1>1
<1>3. at + 1 - 1 = at /\ at + 2 - 1 = at + 1
  OBVIOUS
<1>4. c[at] = b[1] /\ c[at + 1] = b[2]
  BY <1>2, <1>3
<1> QED
  BY <1>1, <1>4 DEF c

(* The bytes of a reading are those of the other where the memories agree. *)
LEMMA ReadSame ==
  ASSUME NEW m, NEW c, NEW n \in Nat, \A a \in 0..(n - 1) : m[a] = c[a]
  PROVE  Read(m, 0, n) = Read(c, 0, n)
<1>1. \A i \in 1..n : 0 + i - 1 \in 0..(n - 1)
  OBVIOUS
<1> QED
  BY <1>1 DEF Read

(* What is set on a Type 3 Tag is held by it, with its length and checksum. *)
LEMMA SetT3tHeld ==
  ASSUME NEW m \in MemOf(1024), NEW msg \in Seq(Nat), Len(msg) <= 1007
  PROVE  HeldT3t(SetT3t(m, msg), Holds(msg))
<1> DEFINE l == Len(msg)
           lb == <<l \div 65536, (l \div 256) % 256, l % 256>>
           ln == Copy(m, 11, lb)
           k == Checksum(Read(ln, 0, 14))
           s == Bytes16(k)
           m2 == Copy(ln, 14, s)
           c == Copy(m2, 16, msg)
<1>1. l \in Nat /\ l <= 1007
  BY LenProperties
<1> HIDE DEF l
<1> DEFINE d == l \div 256  r == l % 256
<1>2. /\ l \div 65536 = 0 /\ (l \div 256) % 256 = d
      /\ d \in Nat /\ r \in Nat /\ l = d * 256 + r
  <2>1. l \div 65536 = 0
    BY <1>1
  <2>2. (l \div 256) % 256 = l \div 256
    BY <1>1
  <2> QED
    BY <1>1, <2>1, <2>2, DivMod
<1> HIDE DEF d, r
<1>3. /\ lb \in Seq(Nat) /\ Len(lb) = 3
      /\ lb[1] = 0 /\ lb[2] = d /\ lb[3] = r
  <2>1. lb = <<0, d, r>>
    BY <1>2 DEF d, r
  <2> HIDE DEF lb
  <2> QED
    BY <1>2, <2>1
<1> HIDE DEF lb
<1>4. /\ ln \in MemOf(1024) /\ \A j \in 1..3 : ln[11 + j - 1] = lb[j]
  <2>1. lb \in Seq(Nat) /\ 11 + Len(lb) <= 1024
    BY <1>3
  <2>2. ln \in MemOf(1024) /\ \A j \in 1..Len(lb) : ln[11 + j - 1] = lb[j]
    BY <2>1, CopyBytes
  <2> HIDE DEF ln
  <2> QED
    BY <1>3, <2>2
<1> HIDE DEF ln
<1>5. k \in Nat
  <2>1. Read(ln, 0, 14) \in Seq(Nat)
    BY <1>4, ReadBytes
  <2> QED
    BY <2>1, ChecksumType
<1> HIDE DEF k
<1>6. s \in Seq(Nat) /\ Len(s) = 2 /\ s[1] * 256 + s[2] = k
  BY <1>5, Bytes16Number
<1> HIDE DEF s
<1>7. /\ m2 \in MemOf(1024) /\ m2[14] = s[1] /\ m2[15] = s[2]
      /\ \A a \in 0..1023 : a < 14 => m2[a] = ln[a]
  <2> DEFINE size == 1024  at == 14
  <2>1. size \in Nat /\ at \in Nat /\ at + 2 <= size
    OBVIOUS
  <2>2. ln \in MemOf(size) /\ s \in Seq(Nat) /\ Len(s) = 2
    BY <1>4, <1>6
  <2> HIDE DEF size, at
  <2>3. /\ Copy(ln, at, s) \in MemOf(size)
        /\ Copy(ln, at, s)[at] = s[1] /\ Copy(ln, at, s)[at + 1] = s[2]
        /\ \A a \in DOMAIN ln : a < at \/ a >= at + 2 => Copy(ln, at, s)[a] = ln[a]
    BY <2>1, <2>2, CopyTwo
  <2>4. /\ m2 \in MemOf(size) /\ m2[at] = s[1] /\ m2[at + 1] = s[2]
        /\ \A a \in DOMAIN ln : a < at => m2[a] = ln[a]
    BY <2>3 DEF at
  <2> HIDE DEF m2
  <2>5. m2[14 + 1] = s[2] /\ 14 + 1 = 15
    BY <2>4 DEF at
  <2>6. DOMAIN ln = 0..1023
    BY <1>4 DEF MemOf
  <2> QED
    BY <2>4, <2>5, <2>6 DEF size, at
<1> HIDE DEF m2
<1>8. /\ c \in MemOf(1024) /\ \A j \in 1..l : c[16 + j - 1] = msg[j]
      /\ \A a \in 0..1023 : a < 16 => c[a] = m2[a]
  <2>1. 16 + Len(msg) <= 1024
    BY <1>1 DEF l
  <2>2. /\ c \in MemOf(1024) /\ \A j \in 1..Len(msg) : c[16 + j - 1] = msg[j]
        /\ \A a \in DOMAIN m2 : a < 16 \/ a >= 16 + Len(msg) => c[a] = m2[a]
    <3>1. m2 \in MemOf(1024) /\ 1024 \in Nat /\ 16 \in Nat
      BY <1>7
    <3> HIDE DEF c
    <3> QED
      BY <2>1, <3>1, CopyBytes DEF c
  <2> HIDE DEF c
  <2>3. DOMAIN m2 = 0..1023
    BY <1>7 DEF MemOf
  <2> QED
    BY <2>2, <2>3 DEF l
<1>9. SetT3t(m, msg) = c
  BY DEF SetT3t, c, m2, s, k, ln, lb, d, r, l, AttrSize
<1> HIDE DEF c
<1>10. c[14] * 256 + c[15] = k
  BY <1>6, <1>7, <1>8
<1>11. \A a \in 0..13 : c[a] = ln[a]
  <2> TAKE a \in 0..13
  <2>1. a \in 0..1023 /\ a < 14 /\ a < 16
    OBVIOUS
  <2> QED
    BY <1>7, <1>8, <2>1
<1>12. c[11] = 0 /\ c[12] = d /\ c[13] = r
  <2>1. ln[11 + 1 - 1] = 0 /\ ln[11 + 2 - 1] = d /\ ln[11 + 3 - 1] = r
    BY <1>3, <1>4
  <2>2. ln[11] = 0 /\ ln[12] = d /\ ln[13] = r
    BY <2>1
  <2> QED
    BY <1>11, <2>2
<1>13. c[11] * 65536 + c[12] * 256 + c[13] = l
  <2>1. 0 * 65536 + d * 256 + r = l
    BY <1>2
  <2> QED
    BY <1>12, <2>1
<1>14. Read(c, 0, 14) = Read(ln, 0, 14)
  <2>1. 14 \in Nat /\ \A a \in 0..(14 - 1) : c[a] = ln[a]
    BY <1>11
  <2> QED
    BY <2>1, ReadSame
<1>15. \A i \in 1..l : c[15 + i] = msg[i]
  <2>1. \A i \in 1..l : 16 + i - 1 = 15 + i
    BY <1>1
  <2> QED
    BY <1>8, <2>1
<1>16. AMessage(Holds(msg)) /\ Holds(msg).msg = msg
  BY DEF AMessage, Holds
<1> QED
  BY <1>1, <1>8, <1>9, <1>10, <1>13, <1>14, <1>15, <1>16 DEF HeldT3t, l, k

(* What is set on a Type 4 Tag is held by it, with its length. *)
LEMMA SetT4tHeld ==
  ASSUME NEW m \in MemOf(1039), NEW msg \in Seq(Nat), Len(msg) <= 1021
  PROVE  HeldT4t(SetT4t(m, msg), Holds(msg))
<1> DEFINE l == Len(msg)
           cc == T4tCc(NdefFile)
           m2 == Copy(m, 0, cc)
           s == Bytes16(l)
           b == s \o msg
           c == Copy(m2, 15, b)
<1>1. l \in Nat /\ l <= 1021
  BY LenProperties
<1> HIDE DEF l
<1>2. cc \in Seq(Nat) /\ Len(cc) = 15 /\ cc[8] = NdefFile
  BY DEF T4tCc, NdefFile
<1> HIDE DEF cc
<1>3. m2 \in MemOf(1039) /\ m2[7] = NdefFile
  <2>1. cc \in Seq(Nat) /\ 0 + Len(cc) <= 1039
    BY <1>2
  <2>2. m2 \in MemOf(1039) /\ \A j \in 1..Len(cc) : m2[0 + j - 1] = cc[j]
    <3> DEFINE size == 1039  at == 0
    <3>1. size \in Nat /\ at \in Nat /\ at + Len(cc) <= size
      BY <2>1
    <3>2. m \in MemOf(size) /\ cc \in Seq(Nat)
      BY <2>1
    <3> HIDE DEF size, at
    <3>3. /\ Copy(m, at, cc) \in MemOf(size)
          /\ \A j \in 1..Len(cc) : Copy(m, at, cc)[at + j - 1] = cc[j]
      BY <3>1, <3>2, CopyBytes
    <3> QED
      BY <3>3 DEF size, at
  <2> HIDE DEF m2
  <2>3. m2[0 + 8 - 1] = cc[8]
    BY <1>2, <2>2
  <2> QED
    BY <1>2, <2>2, <2>3
<1> HIDE DEF m2
<1>4. s \in Seq(Nat) /\ Len(s) = 2 /\ s[1] * 256 + s[2] = l
  <2>1. l \in Nat
    BY <1>1
  <2> QED
    BY <2>1, Bytes16Number, Zenon
<1> HIDE DEF s
<1>5. /\ b \in Seq(Nat) /\ Len(b) = 2 + l
      /\ b[1] = s[1] /\ b[2] = s[2] /\ \A i \in 1..l : b[2 + i] = msg[i]
  <2>1. /\ b \in Seq(Nat) /\ Len(b) = Len(s) + Len(msg)
        /\ \A j \in 1..Len(s) : b[j] = s[j]
        /\ \A j \in 1..Len(msg) : b[Len(s) + j] = msg[j]
    <3>1. s \in Seq(Nat)
      BY <1>4
    <3> QED
      BY <3>1, ConcatPlaces
  <2> HIDE DEF b
  <2> QED
    BY <1>4, <2>1 DEF l
<1> HIDE DEF b
<1>6. /\ c \in MemOf(1039) /\ \A j \in 1..(2 + l) : c[15 + j - 1] = b[j]
      /\ c[7] = m2[7]
  <2>1. b \in Seq(Nat) /\ 15 + Len(b) <= 1039
    BY <1>1, <1>5
  <2>2. /\ c \in MemOf(1039) /\ \A j \in 1..Len(b) : c[15 + j - 1] = b[j]
        /\ \A a \in DOMAIN m2 : a < 15 \/ a >= 15 + Len(b) => c[a] = m2[a]
    <3>1. m2 \in MemOf(1039) /\ 1039 \in Nat /\ 15 \in Nat
      BY <1>3
    <3> QED
      BY <2>1, <3>1, CopyBytes
  <2> HIDE DEF c
  <2>3. DOMAIN m2 = 0..1038
    BY <1>3 DEF MemOf
  <2> QED
    BY <1>1, <1>5, <2>2, <2>3
<1>7. SetT4t(m, msg) = c
  BY DEF SetT4t, c, b, s, m2, cc, l
<1> HIDE DEF c
<1>8. c[15] = b[1] /\ c[16] = b[2]
  <2>1. c[15 + 1 - 1] = b[1] /\ c[15 + 2 - 1] = b[2]
    BY <1>1, <1>6
  <2> QED
    BY <2>1
<1>9. c[15] * 256 + c[16] = l
  BY <1>4, <1>5, <1>8
<1>10. \A i \in 1..l : c[16 + i] = msg[i]
  <2> TAKE i \in 1..l
  <2>1. 2 + i \in 1..(2 + l) /\ 15 + (2 + i) - 1 = 16 + i
    BY <1>1
  <2> QED
    BY <1>5, <1>6, <2>1
<1>11. AMessage(Holds(msg)) /\ Holds(msg).msg = msg
  BY DEF AMessage, Holds
<1> QED
  BY <1>1, <1>3, <1>6, <1>7, <1>9, <1>10, <1>11 DEF HeldT4t, l

(* A formatted tag has its preamble and zeros. *)
LEMMA FormattedBytes ==
  ASSUME NEW type \in TagTypes, NEW size \in Nat, size = TagSize[type],
         NEW b \in Seq(Nat), b = Preamble[type], Len(b) <= size
  PROVE  /\ Formatted(type) \in MemOf(size)
         /\ \A a \in 0..(Len(b) - 1) : Formatted(type)[a] = b[a + 1]
         /\ \A a \in 0..(size - 1) : a >= Len(b) => Formatted(type)[a] = 0
<1> DEFINE z == [a \in 0..(size - 1) |-> 0]  c == Copy(z, 0, b)  l == Len(b)
<1>1. Formatted(type) = c
  BY DEF Formatted
<1>2. z \in MemOf(size) /\ DOMAIN z = 0..(size - 1) /\ \A a \in 0..(size - 1) : z[a] = 0
  BY DEF MemOf
<1>3. l \in Nat /\ 0 \in Nat /\ 0 + l <= size
  BY LenProperties
<1> HIDE DEF z
<1>4. /\ c \in MemOf(size) /\ \A j \in 1..Len(b) : c[0 + j - 1] = b[j]
      /\ \A a \in DOMAIN z : a < 0 \/ a >= 0 + Len(b) => c[a] = z[a]
  <2>1. z \in MemOf(size)
    BY <1>2
  <2> DEFINE at == 0
  <2>2. at \in Nat /\ at + Len(b) <= size
    BY <1>3
  <2> HIDE DEF at
  <2>3. /\ Copy(z, at, b) \in MemOf(size)
        /\ \A j \in 1..Len(b) : Copy(z, at, b)[at + j - 1] = b[j]
        /\ \A a \in DOMAIN z : a < at \/ a >= at + Len(b) => Copy(z, at, b)[a] = z[a]
    BY <2>1, <2>2, CopyBytes
  <2> QED
    BY <2>3 DEF at
<1> HIDE DEF c, l
<1>5. ASSUME NEW a \in 0..(l - 1) PROVE c[a] = b[a + 1]
  <2>1. a + 1 \in 1..l /\ 0 + (a + 1) - 1 = a
    BY <1>3
  <2> QED
    BY <1>4, <2>1 DEF l
<1>6. \A a \in 0..(size - 1) : a >= l => c[a] = 0
  <2>1. 0 + l = l
    BY <1>3
  <2> QED
    BY <1>2, <1>4, <2>1 DEF l
<1> QED
  BY <1>1, <1>4, <1>5, <1>6 DEF l

(* Formatting leaves each type of tag with what FormattedContent says. *)
LEMMA FormattedT1tHeld == HeldT1t(Formatted("T1T"), FormattedContent("T1T"))
<1> DEFINE b == <<1, 2, 3, 4, 5, 6, 7, 8>>  f == Formatted("T1T")  size == 120
<1>1. b \in Seq(Nat) /\ Len(b) = 8 /\ b = Preamble["T1T"]
  BY DEF Preamble
<1>2. "T1T" \in TagTypes /\ size \in Nat /\ size = TagSize["T1T"] /\ 8 <= size
  BY DEF TagTypes, TagSize
<1> HIDE DEF b, f, size
<1>3. f \in MemOf(size) /\ \A a \in 0..(size - 1) : a >= Len(b) => f[a] = 0
  BY <1>1, <1>2, FormattedBytes DEF f
<1>4. f \in MemOf(120) /\ f[8] = 0
  BY <1>1, <1>3 DEF size
<1>5. NoMessage(FormattedContent("T1T"))
  BY DEF FormattedContent, NoNdef, NoMessage
<1> QED
  BY <1>4, <1>5 DEF f, HeldT1t

(* The same for a Type 2 Tag. *)
LEMMA FormattedT2tHeld == HeldT2t(Formatted("T2T"), FormattedContent("T2T"))
<1> DEFINE b == <<4, 130, 47, 33, 90, 83, 40, 128, 161, 72, 0, 0, 225, 16, 18, 0>>
           f == Formatted("T2T")  size == 64
<1>1. b \in Seq(Nat) /\ Len(b) = 16 /\ b = Preamble["T2T"]
  BY DEF Preamble
<1>2. "T2T" \in TagTypes /\ size \in Nat /\ size = TagSize["T2T"] /\ 16 <= size
  BY DEF TagTypes, TagSize
<1> HIDE DEF b, f, size
<1>3. f \in MemOf(size) /\ \A a \in 0..(size - 1) : a >= Len(b) => f[a] = 0
  BY <1>1, <1>2, FormattedBytes DEF f
<1>4. f \in MemOf(64) /\ f[16] = 0
  BY <1>1, <1>3 DEF size
<1>5. NoMessage(FormattedContent("T2T"))
  BY DEF FormattedContent, NoNdef, NoMessage
<1> QED
  BY <1>4, <1>5 DEF f, HeldT2t

(* For a Type 3 Tag: a message of length 0, with the right checksum. *)
LEMMA FormattedT3tHeld == HeldT3t(Formatted("T3T"), FormattedContent("T3T"))
<1> DEFINE b == <<16, 4, 1, 0, 13, 0, 0, 0, 0, 0, 1, 0, 0, 0, 0, 35>>
           k == <<16, 4, 1, 0, 13, 0, 0, 0, 0, 0, 1, 0, 0, 0>>
           f == Formatted("T3T")  size == 1024
<1>1. b \in Seq(Nat) /\ Len(b) = 16 /\ b = Preamble["T3T"]
  BY DEF Preamble
<1>2. "T3T" \in TagTypes /\ size \in Nat /\ size = TagSize["T3T"] /\ 16 <= size
  BY DEF TagTypes, TagSize
<1>3. k \in Seq(Nat) /\ Len(k) = 14 /\ \A j \in 1..14 : k[j] = b[j]
  OBVIOUS
<1>4. b[12] = 0 /\ b[13] = 0 /\ b[14] = 0 /\ b[15] = 0 /\ b[16] = 35
  OBVIOUS
<1>5. Checksum(k) = 35
  BY ChecksumFormatted
<1> HIDE DEF b, f, k, size
<1>6. f \in MemOf(size) /\ \A a \in 0..(Len(b) - 1) : f[a] = b[a + 1]
  BY <1>1, <1>2, FormattedBytes DEF f
<1>7. f[11] = 0 /\ f[12] = 0 /\ f[13] = 0 /\ f[14] = 0 /\ f[15] = 35
  <2>1. \A a \in 0..15 : f[a] = b[a + 1]
    <3>1. Len(b) = 16
      BY <1>1
    <3> QED
      BY <3>1, <1>6
  <2>2. f[11] = b[12] /\ f[12] = b[13] /\ f[13] = b[14] /\ f[14] = b[15] /\ f[15] = b[16]
    BY <2>1
  <2> QED
    BY <1>4, <2>2
<1>8. Read(f, 0, 14) = k
  <2> DEFINE r == Read(f, 0, 14)
  <2>1. r \in Seq(Nat) /\ Len(r) = 14 /\ \A j \in 1..14 : r[j] = f[0 + j - 1]
    <3>1. size \in Nat /\ 0 \in Nat /\ 14 \in Nat /\ 0 + 14 <= size /\ f \in MemOf(size)
      BY <1>2, <1>6 DEF size
    <3> QED
      BY <3>1, ReadBytes
  <2> HIDE DEF r
  <2>2. ASSUME NEW j \in 1..14 PROVE r[j] = k[j]
    <3>1. 0 + j - 1 = j - 1 /\ j - 1 \in 0..15 /\ (j - 1) + 1 = j
      OBVIOUS
    <3>2. \A a \in 0..15 : f[a] = b[a + 1]
      <4>1. Len(b) = 16
        BY <1>1
      <4> QED
        BY <4>1, <1>6
    <3>3. f[j - 1] = b[j]
      BY <3>1, <3>2
    <3> QED
      BY <1>3, <2>1, <3>1, <3>3
  <2>3. r = k
    BY <1>3, <2>1, <2>2, SeqEqual
  <2> QED
    BY <2>3 DEF r
<1> DEFINE c == FormattedContent("T3T")
<1>9. AMessage(c) /\ Len(c.msg) = 0
  BY DEF FormattedContent, Holds, AMessage
<1> HIDE DEF c
<1>10. f \in MemOf(1024)
  BY <1>6 DEF size
<1>11. /\ f[11] * 65536 + f[12] * 256 + f[13] = Len(c.msg)
       /\ f[14] * 256 + f[15] = Checksum(Read(f, 0, 14))
       /\ \A i \in 1..Len(c.msg) : f[15 + i] = c.msg[i]
  BY <1>5, <1>7, <1>8, <1>9
<1> QED
  BY <1>9, <1>10, <1>11 DEF f, c, HeldT3t

(* For a Type 4 Tag: its capability container names no NDEF file. *)
LEMMA FormattedT4tHeld == HeldT4t(Formatted("T4T"), FormattedContent("T4T"))
<1> DEFINE b == T4tCc(Proprietary)  f == Formatted("T4T")  size == 1039
<1>1. b \in Seq(Nat) /\ Len(b) = 15 /\ b = Preamble["T4T"] /\ b[8] = Proprietary
  BY DEF Preamble, T4tCc, Proprietary
<1>2. "T4T" \in TagTypes /\ size \in Nat /\ size = TagSize["T4T"] /\ 15 <= size
  BY DEF TagTypes, TagSize
<1> HIDE DEF b, f, size
<1>3. f \in MemOf(size) /\ \A a \in 0..(Len(b) - 1) : f[a] = b[a + 1]
  BY <1>1, <1>2, FormattedBytes DEF f
<1>4. f[7] = Proprietary /\ f \in MemOf(1039)
  <2>1. \A a \in 0..14 : f[a] = b[a + 1]
    <3>1. Len(b) = 15
      BY <1>1
    <3> QED
      BY <3>1, <1>3
  <2>2. f[7] = b[8]
    BY <2>1
  <2> QED
    BY <1>1, <1>3, <2>2 DEF size
<1>5. NoMessage(FormattedContent("T4T"))
  BY DEF FormattedContent, NoNdef, NoMessage
<1> QED
  BY <1>4, <1>5 DEF f, HeldT4t

(* A part of a sequence has its elements, in order. *)
LEMMA SubSeqPlaces ==
  ASSUME NEW S, NEW s \in Seq(S), NEW a \in Int, NEW b \in Int,
         1 <= a, a <= b + 1, b <= Len(s)
  PROVE  /\ SubSeq(s, a, b) \in Seq(S) /\ Len(SubSeq(s, a, b)) = b - a + 1
         /\ \A i \in 1..(b - a + 1) : SubSeq(s, a, b)[i] = s[a + i - 1]
<1>1. \A i \in a..b : s[i] \in S
  <2> TAKE i \in a..b
  <2>1. Len(s) \in Nat
    BY LenProperties
  <2>2. i \in 1..Len(s)
    BY <2>1
  <2> QED
    BY <2>2, ElementOfSeq
<1> DEFINE w == SubSeq(s, a, b)
<1>2. /\ w \in Seq(S) /\ Len(w) = IF a <= b THEN b - a + 1 ELSE 0
      /\ \A i \in 1..(b - a + 1) : w[i] = s[a + i - 1]
  BY <1>1, SubSeqProperties
<1> HIDE DEF w
<1>3. Len(w) = b - a + 1
  BY <1>2
<1> QED
  BY <1>2, <1>3 DEF w

(* A response without its last n bytes *)
LEMMA WithoutType ==
  ASSUME NEW b \in Seq(Nat), NEW n \in Nat
  PROVE  Without(b, n) \in Seq(Nat)
<1> DEFINE k == Len(b) - n
<1>1. Len(b) \in Nat /\ k \in Int /\ k <= Len(b)
  BY LenProperties
<1> HIDE DEF k
<1>2. \A i \in 1..k : b[i] \in Nat
  <2> TAKE i \in 1..k
  <2>1. i \in 1..Len(b)
    BY <1>1
  <2> QED
    BY <2>1, ElementOfSeq
<1>3. SubSeq(b, 1, k) \in Seq(Nat)
  BY <1>1, <1>2, SubSeqProperties
<1> QED
  BY <1>3 DEF Without, k

(* A status put behind a response is what is taken off. *)
LEMMA WithoutStatus ==
  ASSUME NEW b \in Seq(Nat), NEW s \in Seq(Nat)
  PROVE  Without(b \o s, Len(s)) = b
<1> DEFINE u == b \o s  l == Len(b)
<1>1. /\ Len(s) \in Nat /\ l \in Nat /\ u \in Seq(Nat) /\ Len(u) = l + Len(s)
      /\ \A j \in 1..l : u[j] = b[j]
  BY ConcatPlaces
<1> HIDE DEF u
<1>2. Len(u) - Len(s) = l /\ l <= Len(u) /\ \A j \in 1..l : u[j] \in Nat
  <2>1. Len(u) - Len(s) = l /\ l <= Len(u)
    BY <1>1
  <2>2. \A j \in 1..l : b[j] \in Nat
    BY ElementOfSeq
  <2> QED
    BY <1>1, <2>1, <2>2
<1> DEFINE w == SubSeq(u, 1, l)
<1> HIDE DEF l
<1>3. w \in Seq(Nat) /\ Len(w) = l /\ \A j \in 1..l : w[j] = u[j]
  <2>1. 1 \in Int /\ l \in Int /\ 1 <= l + 1 /\ l <= Len(u) /\ l - 1 + 1 = l
    BY <1>1, <1>2
  <2>2. u \in Seq(Nat)
    BY <1>1
  <2> HIDE DEF l
  <2>3. /\ w \in Seq(Nat) /\ Len(w) = l - 1 + 1
        /\ \A j \in 1..(l - 1 + 1) : w[j] = u[1 + j - 1]
    BY <2>1, <2>2, SubSeqPlaces
  <2> HIDE DEF w
  <2>4. \A j \in 1..l : 1 + j - 1 = j
    BY <2>1
  <2> QED
    BY <2>1, <2>3, <2>4
<1> HIDE DEF w
<1>4. w = b
  BY <1>1, <1>3, SeqEqual DEF l
<1> QED
  BY <1>2, <1>4 DEF w, Without, u

(* One response more is gathered at the end. *)
LEMMA GatheredAppend ==
  ASSUME NEW g \in Seq(Seq(Nat)), NEW x \in Seq(Nat), NEW n \in Nat,
         NEW first \in Nat, 1 <= first, first <= Len(g) + 1
  PROVE  GatheredOf(Append(g, x), first, n) = GatheredOf(g, first, n) \o Without(x, n)
<1> DEFINE r == Append(g, x)  l == Len(g)  k == l - first + 1
           q == [i \in 1..k |-> Without(g[first + i - 1], n)]
           t == [i \in 1..(Len(r) - first + 1) |-> Without(r[first + i - 1], n)]
           y == Without(x, n)
<1>1. /\ l \in Nat /\ Len(r) = l + 1 /\ r[l + 1] = x
      /\ \A j \in 1..l : r[j] = g[j]
  BY LenProperties, AppendProperties
<1> HIDE DEF r, l
<1>2. first <= l + 1 /\ 1 <= first /\ first \in Nat
  BY DEF l
<1>3. k \in Nat /\ Len(r) - first + 1 = k + 1 /\ first + (k + 1) - 1 = l + 1
  BY <1>1, <1>2
<1>4. \A i \in 1..k : first + i - 1 \in 1..l
  BY <1>1, <1>2
<1> HIDE DEF k
<1>5. y \in Seq(Nat) /\ \A i \in 1..k : Without(g[first + i - 1], n) \in Seq(Nat)
  <2>1. \A j \in 1..l : g[j] \in Seq(Nat)
    BY ElementOfSeq DEF l
  <2> QED
    BY <1>4, <2>1, WithoutType
<1> HIDE DEF y
<1>6. q \in Seq(Seq(Nat)) /\ Len(q) = k
  BY <1>3, <1>5
<1>7. t = Append(q, y)
  <2>1. t = [i \in 1..(k + 1) |-> Without(r[first + i - 1], n)]
    BY <1>3
  <2>2. /\ Append(q, y) \in Seq(Seq(Nat)) /\ Len(Append(q, y)) = k + 1
        /\ Append(q, y)[k + 1] = y /\ \A i \in 1..k : Append(q, y)[i] = q[i]
    <3> HIDE DEF q
    <3> QED
      BY <1>5, <1>6, AppendProperties
  <2>3. ASSUME NEW i \in 1..k PROVE Without(r[first + i - 1], n) = q[i]
    BY <1>1, <1>4
  <2>4. Without(r[first + (k + 1) - 1], n) = y
    BY <1>1, <1>3 DEF y
  <2> DEFINE a == Append(q, y)
  <2> HIDE DEF q, r
  <2>5. ASSUME NEW i \in 1..(k + 1) PROVE t[i] = a[i]
    <3>1. CASE i = k + 1
      BY <1>3, <2>1, <2>2, <2>4, <3>1
    <3>2. CASE i # k + 1
      <4>1. i \in 1..k
        BY <1>3, <3>2
      <4> QED
        BY <2>1, <2>2, <2>3, <4>1
    <3> QED
      BY <3>1, <3>2
  <2>6. a = [i \in 1..(k + 1) |-> a[i]]
    <3>1. a \in Seq(Seq(Nat)) /\ Len(a) = k + 1
      BY <2>2
    <3> HIDE DEF a
    <3>2. a = [i \in 1..Len(a) |-> a[i]]
      BY <3>1
    <3> QED
      BY <3>1, <3>2
  <2>7. t = [i \in 1..(k + 1) |-> t[i]]
    BY <2>1
  <2> HIDE DEF t, a
  <2>8. t = a
    BY <2>5, <2>6, <2>7
  <2> QED
    BY <2>8 DEF a
<1>8. FlattenSeq(t) = FlattenSeq(q) \o y
  <2> HIDE DEF q
  <2> QED
    BY <1>5, <1>6, <1>7, FlattenAppend
<1> QED
  BY <1>8 DEF GatheredOf, t, q, y, k, l, r

(* The part of a sequence where another lies is that other. *)
LEMMA SubSeqIs ==
  ASSUME NEW S, NEW s \in Seq(S), NEW t \in Seq(S), NEW a \in Nat, NEW b \in Int,
         1 <= a, b = a + Len(t) - 1, b <= Len(s),
         \A i \in 1..Len(t) : s[a + i - 1] = t[i]
  PROVE  SubSeq(s, a, b) = t
<1> DEFINE w == SubSeq(s, a, b)
<1>1. Len(t) \in Nat
  BY LenProperties
<1>2. a \in Int /\ a <= b + 1 /\ b - a + 1 = Len(t)
  BY <1>1
<1>3. /\ w \in Seq(S) /\ Len(w) = b - a + 1
      /\ \A i \in 1..(b - a + 1) : w[i] = s[a + i - 1]
  BY <1>2, SubSeqPlaces
<1> HIDE DEF w
<1>4. w = t
  BY <1>2, <1>3, SeqEqual
<1> QED
  BY <1>4 DEF w

(* The message of a TLV. *)
LEMMA TlvTaken ==
  ASSUME NEW bytes \in Seq(Nat), NEW msg \in Seq(Nat), bytes[2] = Len(msg),
         2 + Len(msg) <= Len(bytes), \A i \in 1..Len(msg) : bytes[2 + i] = msg[i]
  PROVE  SubSeq(bytes, 3, 2 + bytes[2]) = msg
<1> DEFINE b == 2 + bytes[2]  a == 3
<1>1. Len(msg) \in Nat
  BY LenProperties
<1>2. b \in Int /\ a \in Nat /\ 1 <= a /\ b = a + Len(msg) - 1 /\ b <= Len(bytes)
  BY <1>1
<1>3. \A i \in 1..Len(msg) : bytes[a + i - 1] = msg[i]
  <2>1. \A i \in 1..Len(msg) : a + i - 1 = 2 + i
    BY <1>1
  <2> QED
    BY <2>1
<1> HIDE DEF b, a
<1>4. SubSeq(bytes, a, b) = msg
  BY <1>2, <1>3, SubSeqIs
<1> QED
  BY <1>4 DEF a, b

(* The response to a RALL has the memory behind the header. *)
HasAll(m, r) == r \in Seq(Nat) /\ Len(r) = 123 /\ \A a \in 0..119 : r[3 + a] = m[a]

(* It does. *)
LEMMA RallBytes ==
  ASSUME NEW m \in MemOf(120)
  PROVE  HasAll(m, HR \o Read(m, 0, 120) \o <<0>>)
<1> DEFINE t == Read(m, 0, 120)  u == HR \o t  z == <<0>>  r == u \o z
<1>1. z \in Seq(Nat) /\ Len(z) = 1 /\ HR \in Seq(Nat) /\ Len(HR) = 2
  BY DEF HR
<1>2. t \in Seq(Nat) /\ Len(t) = 120 /\ \A i \in 1..120 : t[i] = m[0 + i - 1]
  <2> DEFINE size == 120  at == 0
  <2>1. size \in Nat /\ at \in Nat /\ at + size <= size /\ m \in MemOf(size)
    OBVIOUS
  <2> HIDE DEF size, at
  <2>2. /\ Read(m, at, size) \in Seq(Nat) /\ Len(Read(m, at, size)) = size
        /\ \A i \in 1..size : Read(m, at, size)[i] = m[at + i - 1]
    BY <2>1, ReadBytes
  <2> QED
    BY <2>2 DEF size, at
<1> HIDE DEF t, z
<1>3. /\ u \in Seq(Nat) /\ Len(u) = Len(HR) + Len(t)
      /\ \A j \in 1..Len(t) : u[Len(HR) + j] = t[j]
  <2>1. t \in Seq(Nat) /\ HR \in Seq(Nat)
    BY <1>1, <1>2
  <2> QED
    BY <2>1, ConcatPlaces
<1> HIDE DEF u
<1>4. /\ r \in Seq(Nat) /\ Len(r) = Len(u) + Len(z)
      /\ \A j \in 1..Len(u) : r[j] = u[j]
  <2>1. u \in Seq(Nat) /\ z \in Seq(Nat)
    BY <1>1, <1>3
  <2> QED
    BY <2>1, ConcatPlaces
<1> HIDE DEF r
<1>6. r \in Seq(Nat) /\ Len(r) = 123
  <2>1. Len(u) = 122
    BY <1>1, <1>2, <1>3
  <2> QED
    BY <1>1, <1>4, <2>1
<1>7. \A j \in 1..122 : r[j] = u[j]
  <2>1. Len(u) = 122
    BY <1>1, <1>2, <1>3
  <2> QED
    BY <1>4, <2>1
<1>8. \A j \in 1..120 : u[2 + j] = t[j]
  BY <1>1, <1>2, <1>3
<1>9. ASSUME NEW a \in 0..119 PROVE r[3 + a] = m[a]
  <2> DEFINE j == a + 1  k == 2 + j
  <2>1. k \in 1..122 /\ 3 + a = k /\ j \in 1..120 /\ 0 + j - 1 = a
    OBVIOUS
  <2> HIDE DEF j
  <2>3. u[k] = t[j] /\ t[j] = m[0 + j - 1]
    BY <1>2, <1>8, <2>1
  <2> HIDE DEF k
  <2>4. r[k] = u[k]
    BY <1>7, <2>1
  <2>5. r[k] = m[a]
    BY <2>1, <2>3, <2>4
  <2> QED
    BY <2>1, <2>5
<1> QED
  BY <1>6, <1>9 DEF r, u, t, z, HasAll

(* A Type 1 Tag read to the end has given its content. *)
LEMMA T1tContent ==
  ASSUME NEW m, NEW c, NEW g, HeldT1t(m, c), GotT1t(m, g), Len(g) = 2
  PROVE  (IF SubSeq(g[2], 11, 14) # T1tCc THEN NoNdef
          ELSE IF SubSeq(g[2], 15, 122)[1] # TlvNdef THEN NoNdef
          ELSE Holds(SubSeq(SubSeq(g[2], 15, 122), 3, 2 + SubSeq(g[2], 15, 122)[2]))) = c
<1> DEFINE r == g[2]  cc == SubSeq(r, 11, 14)  b == SubSeq(r, 15, 122)
<1>1. m \in MemOf(120) /\ r = HR \o Read(m, 0, 120) \o <<0>>
  BY DEF HeldT1t, GotT1t
<1> HIDE DEF r
<1>2. r \in Seq(Nat) /\ Len(r) = 123 /\ \A a \in 0..119 : r[3 + a] = m[a]
  <2>1. HasAll(m, r)
    BY <1>1, RallBytes
  <2> QED
    BY <2>1 DEF HasAll
<1>3. cc \in Seq(Nat) /\ Len(cc) = 4 /\ \A i \in 1..4 : cc[i] = r[11 + i - 1]
  <2> DEFINE x == 11  y == 14
  <2>1. x \in Int /\ y \in Int /\ 1 <= x /\ x <= y + 1 /\ y <= Len(r) /\ y - x + 1 = 4
    BY <1>2
  <2>2. r \in Seq(Nat)
    BY <1>2
  <2> HIDE DEF x, y
  <2>3. /\ SubSeq(r, x, y) \in Seq(Nat) /\ Len(SubSeq(r, x, y)) = y - x + 1
        /\ \A i \in 1..(y - x + 1) : SubSeq(r, x, y)[i] = r[x + i - 1]
    BY <2>1, <2>2, SubSeqPlaces
  <2> QED
    BY <2>1, <2>3 DEF x, y
<1>4. b \in Seq(Nat) /\ Len(b) = 108 /\ \A i \in 1..108 : b[i] = r[15 + i - 1]
  <2> DEFINE x == 15  y == 122
  <2>1. x \in Int /\ y \in Int /\ 1 <= x /\ x <= y + 1 /\ y <= Len(r) /\ y - x + 1 = 108
    BY <1>2
  <2>2. r \in Seq(Nat)
    BY <1>2
  <2> HIDE DEF x, y
  <2>3. /\ SubSeq(r, x, y) \in Seq(Nat) /\ Len(SubSeq(r, x, y)) = y - x + 1
        /\ \A i \in 1..(y - x + 1) : SubSeq(r, x, y)[i] = r[x + i - 1]
    BY <2>1, <2>2, SubSeqPlaces
  <2> QED
    BY <2>1, <2>3 DEF x, y
<1> HIDE DEF cc, b
<1>5. cc[1] = m[8] /\ cc[2] = m[9] /\ cc[3] = m[10] /\ cc[4] = m[11]
  <2>1. cc[1] = r[11] /\ cc[2] = r[12] /\ cc[3] = r[13] /\ cc[4] = r[14]
    BY <1>3
  <2>2. r[3 + 8] = m[8] /\ r[3 + 9] = m[9] /\ r[3 + 10] = m[10] /\ r[3 + 11] = m[11]
    BY <1>2
  <2>3. 3 + 8 = 11 /\ 3 + 9 = 12 /\ 3 + 10 = 13 /\ 3 + 11 = 14
    OBVIOUS
  <2> QED
    BY <2>1, <2>2, <2>3
<1>6. \A i \in 1..108 : b[i] = m[11 + i]
  <2> TAKE i \in 1..108
  <2>1. 15 + i - 1 = 3 + (11 + i) /\ 11 + i \in 0..119
    OBVIOUS
  <2>2. b[i] = r[15 + i - 1] /\ r[3 + (11 + i)] = m[11 + i]
    BY <1>2, <1>4, <2>1
  <2> QED
    BY <2>1, <2>2
<1>7. CASE NoMessage(c) /\ m[8] = 0
  <2>1. cc # T1tCc
    BY <1>5, <1>7 DEF T1tCc
  <2> QED
    BY <1>7, <2>1 DEF NoMessage, cc, r
<1>8. CASE /\ AMessage(c) /\ Len(c.msg) <= 89
           /\ m[8] = 225 /\ m[9] = 16 /\ m[10] = 14 /\ m[11] = 0
           /\ m[12] = TlvNdef /\ m[13] = Len(c.msg)
           /\ \A i \in 1..Len(c.msg) : m[13 + i] = c.msg[i]
  <2> DEFINE msg == c.msg
  <2>1. msg \in Seq(Nat) /\ c = Holds(msg) /\ Len(msg) \in Nat /\ Len(msg) <= 89
    BY <1>8, LenProperties DEF AMessage
  <2>2. m[12] = TlvNdef /\ m[13] = Len(msg) /\ \A i \in 1..Len(msg) : m[13 + i] = msg[i]
    BY <1>8
  <2> HIDE DEF msg
  <2>3. cc = T1tCc
    <3>1. T1tCc \in Seq(Nat) /\ Len(T1tCc) = 4
      BY DEF T1tCc
    <3>2. T1tCc[1] = 225 /\ T1tCc[2] = 16 /\ T1tCc[3] = 14 /\ T1tCc[4] = 0
      BY DEF T1tCc
    <3>3. \A i \in 1..4 : cc[i] = T1tCc[i]
      <4> TAKE i \in 1..4
      <4>1. i = 1 \/ i = 2 \/ i = 3 \/ i = 4
        OBVIOUS
      <4> QED
        BY <1>5, <1>8, <3>2, <4>1
    <3> QED
      BY <1>3, <3>1, <3>3, SeqEqual
  <2>4. b[1] = TlvNdef /\ b[2] = Len(msg)
    <3>1. b[1] = m[11 + 1] /\ b[2] = m[11 + 2] /\ 11 + 1 = 12 /\ 11 + 2 = 13
      BY <1>6
    <3> QED
      BY <2>2, <3>1
  <2>5. \A i \in 1..Len(msg) : b[2 + i] = msg[i]
    <3> TAKE i \in 1..Len(msg)
    <3>1. 2 + i \in 1..108 /\ 11 + (2 + i) = 13 + i
      BY <2>1
    <3> QED
      BY <1>6, <2>2, <3>1
  <2>6. 2 + Len(msg) <= Len(b)
    BY <1>4, <2>1
  <2>7. SubSeq(b, 3, 2 + b[2]) = msg
    <3>1. b \in Seq(Nat) /\ msg \in Seq(Nat) /\ b[2] = Len(msg)
      BY <1>4, <2>1, <2>4
    <3> QED
      BY <2>5, <2>6, <3>1, TlvTaken
  <2> QED
    BY <2>1, <2>3, <2>4, <2>7 DEF b, cc, r
<1> QED
  BY <1>7, <1>8 DEF HeldT1t

(* A part of a reading is a reading. *)
PartRead(m, at, n, a, b) ==
  SubSeq(Read(m, at, n), a, b) = Read(m, at + a - 1, b - a + 1)

(* It is one. *)
LEMMA PartOfRead ==
  ASSUME NEW size \in Nat, NEW m \in MemOf(size), NEW at \in Nat, NEW n \in Nat, at + n <= size,
         NEW a \in Nat, NEW b \in Nat, 1 <= a, a <= b + 1, b <= n
  PROVE  PartRead(m, at, n, a, b)
<1> DEFINE r == Read(m, at, n)  w == SubSeq(r, a, b)  x == at + a - 1  k == b - a + 1
           t == Read(m, x, k)
<1>1. r \in Seq(Nat) /\ Len(r) = n /\ \A i \in 1..n : r[i] = m[at + i - 1]
  BY ReadBytes
<1> HIDE DEF r
<1>2. w \in Seq(Nat) /\ Len(w) = k /\ \A i \in 1..k : w[i] = r[a + i - 1]
  <2>1. a \in Int /\ b \in Int /\ b <= Len(r) /\ r \in Seq(Nat)
    BY <1>1
  <2> QED
    BY <2>1, SubSeqPlaces
<1>3. x \in Nat /\ k \in Nat /\ x + k <= size
  OBVIOUS
<1> HIDE DEF w
<1>4. \A i \in 1..k : a + i - 1 \in 1..n /\ at + (a + i - 1) - 1 = x + i - 1
  OBVIOUS
<1> HIDE DEF x, k
<1>5. t \in Seq(Nat) /\ Len(t) = k /\ \A i \in 1..k : t[i] = m[x + i - 1]
  BY <1>3, ReadBytes
<1> HIDE DEF t
<1>6. \A i \in 1..k : w[i] = t[i]
  <2> TAKE i \in 1..k
  <2> DEFINE j == a + i - 1
  <2>1. j \in 1..n /\ at + j - 1 = x + i - 1
    BY <1>4
  <2>2. w[i] = r[j]
    BY <1>2
  <2> HIDE DEF j
  <2> QED
    BY <1>1, <1>5, <2>1, <2>2
<1>7. w = t
  BY <1>2, <1>5, <1>6, SeqEqual
<1> QED
  BY <1>7 DEF w, r, t, x, k, PartRead

(* A message is read where it lies. *)
LEMMA ReadMessage ==
  ASSUME NEW size \in Nat, NEW m \in MemOf(size), NEW at \in Nat, NEW msg \in Seq(Nat),
         at + Len(msg) <= size, \A i \in 1..Len(msg) : m[at + i - 1] = msg[i]
  PROVE  Read(m, at, Len(msg)) = msg
<1> DEFINE r == Read(m, at, Len(msg))
<1>1. Len(msg) \in Nat
  BY LenProperties
<1>2. r \in Seq(Nat) /\ Len(r) = Len(msg) /\ \A i \in 1..Len(msg) : r[i] = m[at + i - 1]
  BY <1>1, ReadBytes
<1> HIDE DEF r
<1>3. r = msg
  BY <1>2, SeqEqual
<1> QED
  BY <1>3 DEF r

(* A Type 2 Tag read to the end has given its content. *)
LEMMA T2tContent ==
  ASSUME NEW m, NEW c, NEW g, HeldT2t(m, c), GotT2t(m, g), Len(g) = 4
  PROVE  LET b == SubSeq(GatheredOf(g, 1, 1), 17, 64)
         IN  (IF b[1] # TlvNdef THEN NoNdef ELSE Holds(SubSeq(b, 3, 2 + b[2]))) = c
<1> DEFINE b == SubSeq(GatheredOf(g, 1, 1), 17, 64)
<1>1. m \in MemOf(64) /\ GatheredOf(g, 1, 1) = Read(m, 0, 64)
  BY DEF HeldT2t, GotT2t
<1>2. b = Read(m, 16, 48)
  <2> DEFINE size == 64  at == 0  n == 64  x == 17  y == 64
  <2>1. /\ size \in Nat /\ at \in Nat /\ n \in Nat /\ at + n <= size
        /\ x \in Nat /\ y \in Nat /\ 1 <= x /\ x <= y + 1 /\ y <= n
    OBVIOUS
  <2>5. at + x - 1 = 16 /\ y - x + 1 = 48
    OBVIOUS
  <2>2. m \in MemOf(size)
    BY <1>1
  <2>4. b = SubSeq(Read(m, at, n), x, y)
    BY <1>1
  <2> HIDE DEF size, at, n, x, y, b
  <2>3. SubSeq(Read(m, at, n), x, y) = Read(m, at + x - 1, y - x + 1)
    <3>1. PartRead(m, at, n, x, y)
      BY <2>1, <2>2, PartOfRead
    <3> QED
      BY <3>1 DEF PartRead
  <2> QED
    BY <2>3, <2>4, <2>5
<1> HIDE DEF b
<1>3. b \in Seq(Nat) /\ Len(b) = 48 /\ \A i \in 1..48 : b[i] = m[16 + i - 1]
  <2> DEFINE size == 64  at == 16  n == 48
  <2>1. size \in Nat /\ at \in Nat /\ n \in Nat /\ at + n <= size
    OBVIOUS
  <2>2. m \in MemOf(size)
    BY <1>1
  <2>3. b = Read(m, at, n)
    BY <1>2
  <2> HIDE DEF size, at, n
  <2>4. /\ Read(m, at, n) \in Seq(Nat) /\ Len(Read(m, at, n)) = n
        /\ \A i \in 1..n : Read(m, at, n)[i] = m[at + i - 1]
    BY <2>1, <2>2, ReadBytes
  <2> QED
    BY <2>3, <2>4 DEF at, n
<1>4. \A i \in 1..48 : b[i] = m[15 + i]
  <2> TAKE i \in 1..48
  <2>1. 16 + i - 1 = 15 + i
    OBVIOUS
  <2> QED
    BY <1>3, <2>1
<1>5. b[1] = m[16] /\ b[2] = m[17]
  BY <1>4
<1>6. CASE NoMessage(c) /\ m[16] = 0
  BY <1>5, <1>6 DEF NoMessage, TlvNdef, b
<1>7. CASE /\ AMessage(c) /\ Len(c.msg) <= 45
           /\ m[16] = TlvNdef /\ m[17] = Len(c.msg)
           /\ \A i \in 1..Len(c.msg) : m[17 + i] = c.msg[i]
  <2> DEFINE msg == c.msg
  <2>1. msg \in Seq(Nat) /\ c = Holds(msg) /\ Len(msg) \in Nat /\ Len(msg) <= 45
    BY <1>7, LenProperties DEF AMessage
  <2>2. m[16] = TlvNdef /\ m[17] = Len(msg) /\ \A i \in 1..Len(msg) : m[17 + i] = msg[i]
    BY <1>7
  <2> HIDE DEF msg
  <2>3. \A i \in 1..Len(msg) : b[2 + i] = msg[i]
    <3> TAKE i \in 1..Len(msg)
    <3>1. 2 + i \in 1..48 /\ 15 + (2 + i) = 17 + i
      BY <2>1
    <3> QED
      BY <1>4, <2>2, <3>1
  <2>4. 2 + Len(msg) <= Len(b)
    BY <1>3, <2>1
  <2>5. SubSeq(b, 3, 2 + b[2]) = msg
    <3>1. b \in Seq(Nat) /\ msg \in Seq(Nat) /\ b[2] = Len(msg)
      BY <1>3, <1>5, <2>1, <2>2
    <3> QED
      BY <2>3, <2>4, <3>1, TlvTaken
  <2> QED
    BY <1>5, <2>1, <2>2, <2>5 DEF b
<1> QED
  BY <1>6, <1>7 DEF HeldT2t

(* A Type 3 Tag read to the end has given its content. *)
LEMMA T3tContent ==
  ASSUME NEW m, NEW c, NEW g, HeldT3t(m, c), GotT3t(m, g), g # <<>>
  PROVE  LET ln  == g[1][12] * 65536 + g[1][13] * 256 + g[1][14]
             sum == g[1][15] * 256 + g[1][16]
         IN  /\ ln = Len(c.msg)
             /\ Len(GatheredOf(g, 2, 1)) >= ln =>
                  (IF Checksum(SubSeq(g[1], 1, AttrSize)) # sum THEN NoNdef
                   ELSE Holds(SubSeq(GatheredOf(g, 2, 1), 1, ln))) = c
<1> DEFINE r == Read(m, 0, 16)  u == g[1]  z == <<0>>  l == Len(c.msg)  msg == c.msg
           ln == u[12] * 65536 + u[13] * 256 + u[14]
           sum == u[15] * 256 + u[16]
           all == GatheredOf(g, 2, 1)
<1>1. m \in MemOf(1024) /\ u = r \o z
  BY DEF HeldT3t, GotT3t
<1>2. /\ c = Holds(msg) /\ msg \in Seq(Nat) /\ l <= 1007
      /\ m[11] * 65536 + m[12] * 256 + m[13] = l
      /\ m[14] * 256 + m[15] = Checksum(Read(m, 0, 14))
      /\ \A i \in 1..l : m[15 + i] = msg[i]
  BY DEF HeldT3t, AMessage
<1>3. PICK k \in 0..63 : all = Read(m, 16, 16 * k)
  BY DEF GotT3t
<1>4. l \in Nat
  BY <1>2, LenProperties
<1> HIDE DEF msg, l, all, u
<1> DEFINE size == 1024
<1>5. size \in Nat /\ m \in MemOf(size)
  BY <1>1
<1>6. r \in Seq(Nat) /\ Len(r) = 16 /\ \A i \in 1..16 : r[i] = m[0 + i - 1]
  <2> DEFINE at == 0  n == 16
  <2>1. at \in Nat /\ n \in Nat /\ at + n <= size
    OBVIOUS
  <2> HIDE DEF at, n, size
  <2>2. /\ Read(m, at, n) \in Seq(Nat) /\ Len(Read(m, at, n)) = n
        /\ \A i \in 1..n : Read(m, at, n)[i] = m[at + i - 1]
    BY <1>5, <2>1, ReadBytes
  <2> QED
    BY <2>2 DEF at, n
<1> HIDE DEF r
<1>7. u \in Seq(Nat) /\ Len(u) = 17 /\ \A i \in 1..16 : u[i] = r[i]
  <2>1. z \in Seq(Nat) /\ Len(z) = 1
    OBVIOUS
  <2>2. r \in Seq(Nat)
    BY <1>6
  <2> HIDE DEF z
  <2> DEFINE v == r \o z
  <2>3. v \in Seq(Nat) /\ Len(v) = Len(r) + Len(z) /\ \A i \in 1..Len(r) : v[i] = r[i]
    BY <2>1, <2>2, ConcatPlaces
  <2> HIDE DEF v
  <2>4. v \in Seq(Nat) /\ Len(v) = 17 /\ \A i \in 1..16 : v[i] = r[i]
    BY <1>6, <2>1, <2>3
  <2> QED
    BY <1>1, <2>4 DEF v
<1>8. \A i \in 1..16 : u[i] = m[i - 1]
  <2> TAKE i \in 1..16
  <2>1. 0 + i - 1 = i - 1
    OBVIOUS
  <2> QED
    BY <1>6, <1>7, <2>1
<1>9. /\ u[12] = m[11] /\ u[13] = m[12] /\ u[14] = m[13] /\ u[15] = m[14] /\ u[16] = m[15]
  <2>1. \A i \in 1..16 : \A j \in 0..15 : j = i - 1 => u[i] = m[j]
    BY <1>8
  <2> QED
    BY <2>1
<1>10. ln = l /\ sum = Checksum(Read(m, 0, 14))
  BY <1>2, <1>9
<1>11. SubSeq(u, 1, AttrSize) = Read(m, 0, 14)
  <2> DEFINE t == Read(m, 0, 14)
  <2>1. t \in Seq(Nat) /\ Len(t) = 14 /\ \A i \in 1..14 : t[i] = m[0 + i - 1]
    <3> DEFINE at == 0  n == 14
    <3>1. at \in Nat /\ n \in Nat /\ at + n <= size
      OBVIOUS
    <3> HIDE DEF at, n, size
    <3>2. /\ Read(m, at, n) \in Seq(Nat) /\ Len(Read(m, at, n)) = n
          /\ \A i \in 1..n : Read(m, at, n)[i] = m[at + i - 1]
      BY <1>5, <3>1, ReadBytes
    <3> QED
      BY <3>2 DEF at, n
  <2> HIDE DEF t
  <2> DEFINE a == 1  b == 14
  <2>2. a \in Nat /\ b \in Int /\ 1 <= a /\ b = a + Len(t) - 1 /\ b <= Len(u)
    BY <1>7, <2>1
  <2>3. \A i \in 1..Len(t) : u[a + i - 1] = t[i]
    <3> TAKE i \in 1..Len(t)
    <3>1. i \in 1..14 /\ i \in 1..16
      BY <2>1
    <3>2. a + i - 1 = i /\ 0 + i - 1 = i - 1
      BY <3>1
    <3> QED
      BY <1>8, <2>1, <3>1, <3>2
  <2>4. u \in Seq(Nat) /\ t \in Seq(Nat)
    BY <1>7, <2>1
  <2> HIDE DEF a, b
  <2>5. SubSeq(u, a, b) = t
    BY <2>2, <2>3, <2>4, SubSeqIs
  <2> QED
    BY <2>5 DEF t, a, b, AttrSize
<1>12. Len(all) >= l => SubSeq(all, 1, l) = msg
  <2> SUFFICES ASSUME Len(all) >= l PROVE SubSeq(all, 1, l) = msg
    OBVIOUS
  <2> DEFINE at == 16  n == 16 * k  a == 1
  <2>1. at \in Nat /\ n \in Nat /\ at + n <= size
    OBVIOUS
  <2>2. all = Read(m, at, n)
    BY <1>3
  <2>3. at + l <= size /\ \A i \in 1..l : m[at + i - 1] = msg[i]
    <3>1. at + l <= size
      BY <1>2, <1>4
    <3>2. \A i \in 1..l : at + i - 1 = 15 + i
      BY <1>4
    <3> QED
      BY <1>2, <3>1, <3>2
  <2>4. at + a - 1 = at /\ l - a + 1 = l /\ a \in Nat /\ 1 <= a /\ a <= l + 1
    BY <1>4
  <2> HIDE DEF at, n, size, a
  <2>5. Len(Read(m, at, n)) = n
    BY <1>5, <2>1, ReadBytes
  <2>6. l <= n
    BY <1>4, <2>1, <2>2, <2>5
  <2>7. SubSeq(Read(m, at, n), a, l) = Read(m, at + a - 1, l - a + 1)
    <3>1. a \in Nat /\ 1 <= a /\ a <= l + 1
      BY <2>4
    <3>2. PartRead(m, at, n, a, l)
      BY <1>4, <1>5, <2>1, <2>6, <3>1, PartOfRead
    <3> QED
      BY <3>2 DEF PartRead
  <2>8. Read(m, at, Len(msg)) = msg
    <3>1. msg \in Seq(Nat)
      BY <1>2
    <3>2. at + Len(msg) <= size /\ \A i \in 1..Len(msg) : m[at + i - 1] = msg[i]
      BY <2>3 DEF l, msg
    <3>3. at \in Nat
      BY <2>1
    <3> QED
      BY <1>5, <3>1, <3>2, <3>3, ReadMessage
  <2>9. SubSeq(all, a, l) = msg
    BY <2>2, <2>4, <2>7, <2>8 DEF l, msg
  <2> QED
    BY <2>9 DEF a
<1> HIDE DEF ln, sum
<1>13. Len(all) >= ln => (IF Checksum(SubSeq(u, 1, AttrSize)) # sum THEN NoNdef
                          ELSE Holds(SubSeq(all, 1, ln))) = c
  <2> SUFFICES ASSUME Len(all) >= ln
               PROVE  Checksum(SubSeq(u, 1, AttrSize)) = sum /\ Holds(SubSeq(all, 1, ln)) = c
    OBVIOUS
  <2>1. Checksum(SubSeq(u, 1, AttrSize)) = sum
    BY <1>10, <1>11
  <2>2. SubSeq(all, 1, l) = msg /\ ln = l
    BY <1>10, <1>12
  <2>3. c = Holds(msg)
    BY <1>2
  <2>4. Holds(SubSeq(all, 1, ln)) = c
    BY <2>2, <2>3, Zenon
  <2> QED
    BY <2>1, <2>4
<1> QED
  BY <1>10, <1>13 DEF ln, sum, u, all, l
(* A Type 4 Tag read to the end has given its content, or that it has no   *)
(* NDEF file.                                                              *)
GivesT4t(c, g) ==
  /\ Len(g) = 3 => IF g[3][8] = NdefFile THEN c.ndef = TRUE ELSE c = NoNdef
  /\ Len(g) >= 5 => /\ g[5][1] * 256 + g[5][2] = Len(c.msg)
                    /\ c = Holds(c.msg) /\ c.msg \in Seq(Nat)
                    /\ Len(GatheredOf(g, 6, 2)) >= Len(c.msg) =>
                         SubSeq(GatheredOf(g, 6, 2), 1, Len(c.msg)) = c.msg

(* It gives that. *)
LEMMA T4tContent ==
  ASSUME NEW m, NEW c, NEW g, NEW sel, HeldT4t(m, c), GotT4t(m, c, g, sel), Len(g) \in Nat
  PROVE  GivesT4t(c, g)
<1> DEFINE s == Sw(144, 0)  size == 1039
<1>1. m \in MemOf(1039) /\ s \in Seq(Nat) /\ Len(s) = 2
  BY DEF HeldT4t, Sw
<1>2. size \in Nat /\ m \in MemOf(size)
  BY <1>1
<1> HIDE DEF s
<1>3. ASSUME Len(g) = 3
      PROVE  IF g[3][8] = NdefFile THEN c.ndef = TRUE ELSE c = NoNdef
  <2> DEFINE r == Read(m, 0, 15)  u == g[3]
  <2>1. u = r \o s
    BY <1>3 DEF GotT4t, s
  <2>2. r \in Seq(Nat) /\ Len(r) = 15 /\ \A i \in 1..15 : r[i] = m[0 + i - 1]
    <3> DEFINE at == 0  n == 15
    <3>1. at \in Nat /\ n \in Nat /\ at + n <= size
      OBVIOUS
    <3> HIDE DEF at, n, size
    <3>2. /\ Read(m, at, n) \in Seq(Nat) /\ Len(Read(m, at, n)) = n
          /\ \A i \in 1..n : Read(m, at, n)[i] = m[at + i - 1]
      BY <1>2, <3>1, ReadBytes
    <3> QED
      BY <3>2 DEF at, n
  <2> HIDE DEF r, u
  <2>3. u[8] = r[8]
    <3>1. r \in Seq(Nat)
      BY <2>2
    <3>2. s \in Seq(Nat)
      BY <1>1
    <3> DEFINE v == r \o s
    <3>3. \A i \in 1..Len(r) : v[i] = r[i]
      BY <3>1, <3>2, ConcatPlaces
    <3> HIDE DEF v
    <3>4. v[8] = r[8]
      BY <2>2, <3>3
    <3> QED
      BY <2>1, <3>4 DEF v
  <2>4. r[8] = m[7]
    <3>1. r[8] = m[0 + 8 - 1] /\ 0 + 8 - 1 = 7
      BY <2>2
    <3> QED
      BY <3>1
  <2>5. g[3][8] = m[7]
    BY <2>3, <2>4 DEF u
  <2>6. CASE NoMessage(c) /\ m[7] = Proprietary
    BY <2>5, <2>6 DEF NoMessage, Proprietary, NdefFile
  <2>7. CASE AMessage(c) /\ m[7] = NdefFile
    BY <2>5, <2>7 DEF AMessage, Holds
  <2> QED
    BY <2>6, <2>7 DEF HeldT4t
<1>4. ASSUME Len(g) >= 5
      PROVE  /\ g[5][1] * 256 + g[5][2] = Len(c.msg)
             /\ c = Holds(c.msg) /\ c.msg \in Seq(Nat)
             /\ Len(GatheredOf(g, 6, 2)) >= Len(c.msg) =>
                  SubSeq(GatheredOf(g, 6, 2), 1, Len(c.msg)) = c.msg
  <2> DEFINE msg == c.msg  l == Len(c.msg)  all == GatheredOf(g, 6, 2)
             r == Read(m, 15, 2)  u == g[5]
  <2>1. u = r \o s /\ c.ndef = TRUE /\ \E h \in 0..l : all = Read(m, 17, h)
    BY <1>4 DEF GotT4t, s
  <2>2. AMessage(c)
    <3>1. c # NoNdef
      BY <2>1 DEF NoNdef
    <3> QED
      BY <3>1 DEF HeldT4t, NoMessage
  <2>3. /\ c = Holds(msg) /\ msg \in Seq(Nat) /\ l <= 1021
        /\ m[15] * 256 + m[16] = l /\ \A i \in 1..l : m[16 + i] = msg[i]
    <3>1. c # NoNdef
      BY <2>1 DEF NoNdef
    <3> QED
      BY <2>2, <3>1 DEF HeldT4t, NoMessage, AMessage
  <2>4. l \in Nat
    BY <2>3, LenProperties
  <2>5. PICK h \in 0..l : all = Read(m, 17, h)
    BY <2>1
  <2> HIDE DEF msg, l, all, r, u
  <2>6. r \in Seq(Nat) /\ Len(r) = 2 /\ r[1] = m[15] /\ r[2] = m[16]
    <3> DEFINE at == 15  n == 2
    <3>1. at \in Nat /\ n \in Nat /\ at + n <= size
      OBVIOUS
    <3> HIDE DEF at, n, size
    <3>2. /\ Read(m, at, n) \in Seq(Nat) /\ Len(Read(m, at, n)) = n
          /\ \A i \in 1..n : Read(m, at, n)[i] = m[at + i - 1]
      BY <1>2, <3>1, ReadBytes
    <3>3. 1 \in 1..n /\ 2 \in 1..n /\ at + 1 - 1 = 15 /\ at + 2 - 1 = 16
      BY DEF at, n
    <3> QED
      BY <3>2, <3>3 DEF r, at, n
  <2>7. u[1] = m[15] /\ u[2] = m[16]
    <3>1. r \in Seq(Nat)
      BY <2>6
    <3>2. s \in Seq(Nat)
      BY <1>1
    <3> DEFINE v == r \o s
    <3>3. \A i \in 1..Len(r) : v[i] = r[i]
      BY <3>1, <3>2, ConcatPlaces
    <3> HIDE DEF v
    <3>4. v[1] = r[1] /\ v[2] = r[2]
      BY <2>6, <3>3
    <3> QED
      BY <2>1, <2>6, <3>4 DEF v
  <2>8. u[1] * 256 + u[2] = l
    BY <2>3, <2>7
  <2>9. ASSUME Len(all) >= l PROVE SubSeq(all, 1, l) = msg
    <3> DEFINE at == 17  a == 1
    <3>1. at \in Nat /\ h \in Nat /\ at + h <= size
      BY <2>3, <2>4
    <3>2. at + l <= size /\ \A i \in 1..l : m[at + i - 1] = msg[i]
      <4>1. at + l <= size
        BY <2>3, <2>4
      <4>2. \A i \in 1..l : at + i - 1 = 16 + i
        BY <2>4
      <4> QED
        BY <2>3, <4>1, <4>2
    <3>3. at + a - 1 = at /\ l - a + 1 = l /\ a \in Nat /\ 1 <= a /\ a <= l + 1
      BY <2>4
    <3> HIDE DEF at, size, a
    <3>4. Len(Read(m, at, h)) = h
      BY <1>2, <3>1, ReadBytes
    <3>5. all = Read(m, at, h)
      BY <2>5 DEF at
    <3>6. l <= h
      BY <2>9, <3>1, <3>4, <3>5
    <3>7. SubSeq(Read(m, at, h), a, l) = Read(m, at + a - 1, l - a + 1)
      <4>1. a \in Nat /\ 1 <= a /\ a <= l + 1
        BY <3>3
      <4>2. PartRead(m, at, h, a, l)
        BY <1>2, <2>4, <3>1, <3>6, <4>1, PartOfRead
      <4> QED
        BY <4>2 DEF PartRead
    <3>8. Read(m, at, Len(msg)) = msg
      <4>1. msg \in Seq(Nat)
        BY <2>3
      <4>2. at + Len(msg) <= size /\ \A i \in 1..Len(msg) : m[at + i - 1] = msg[i]
        BY <3>2 DEF l, msg
      <4>3. at \in Nat
        BY <3>1
      <4> QED
        BY <1>2, <4>1, <4>2, <4>3, ReadMessage
    <3>9. SubSeq(all, a, l) = msg
      BY <3>3, <3>5, <3>7, <3>8 DEF l, msg
    <3> QED
      BY <3>9 DEF a
  <2> QED
    BY <2>3, <2>8, <2>9 DEF u, l, msg, all
<1> QED
  BY <1>3, <1>4 DEF GivesT4t

(* Nothing is gathered before the first response that counts. *)
LEMMA GatheredNone ==
  ASSUME NEW g, NEW n, NEW first \in Nat, Len(g) \in Nat, Len(g) < first
  PROVE  GatheredOf(g, first, n) = <<>>
<1>1. Len(g) - first + 1 \in Int /\ Len(g) - first + 1 < 1
  OBVIOUS
<1>2. [i \in 1..(Len(g) - first + 1) |-> Without(g[first + i - 1], n)] = <<>>
  BY <1>1
<1>3. FlattenSeq(<<>>) = <<>>
  BY Len(<<>>) = 0 DEF FlattenSeq
<1> QED
  BY <1>2, <1>3 DEF GatheredOf

(* A reading of no bytes is empty. *)
LEMMA ReadNone ==
  ASSUME NEW m, NEW at PROVE Read(m, at, 0) = <<>>
BY DEF Read

(* Nothing is read yet. *)
LEMMA GotNothing ==
  ASSUME NEW m, NEW c, NEW sel
  PROVE  GotT1t(m, <<>>) /\ GotT2t(m, <<>>) /\ GotT3t(m, <<>>) /\ GotT4t(m, c, <<>>, sel)
<1>1. Len(<<>>) = 0
  OBVIOUS
<1>2. GatheredOf(<<>>, 1, 1) = <<>>
  <2>1. Len(<<>>) \in Nat /\ 1 \in Nat /\ Len(<<>>) < 1
    OBVIOUS
  <2> QED
    BY <2>1, GatheredNone
<1>3. Read(m, 0, 16 * Len(<<>>)) = <<>>
  <2>1. 16 * Len(<<>>) = 0
    OBVIOUS
  <2> QED
    BY <2>1, ReadNone
<1>4. GotT2t(m, <<>>)
  BY <1>1, <1>2, <1>3 DEF GotT2t
<1> QED
  BY <1>1, <1>4 DEF GotT1t, GotT3t, GotT4t

(* The status behind a part of the memory is taken off again. *)
GathersOn(m, at, k, n, s, g, first) ==
  /\ Read(m, at + k, n) \o s \in Seq(Nat)
  /\ GatheredOf(Append(g, Read(m, at + k, n) \o s), first, Len(s)) = Read(m, at, k + n)

(* The reading gathered so far grows by what is read next. *)
LEMMA GatheredRead ==
  ASSUME NEW size \in Nat, NEW m \in MemOf(size), NEW at \in Nat, NEW k \in Nat, NEW n \in Nat,
         at + k + n <= size, NEW s \in Seq(Nat), NEW g \in Seq(Seq(Nat)),
         NEW first \in Nat, 1 <= first, first <= Len(g) + 1,
         GatheredOf(g, first, Len(s)) = Read(m, at, k)
  PROVE  GathersOn(m, at, k, n, s, g, first)
<1> DEFINE r == Read(m, at + k, n)  x == r \o s
<1>1. r \in Seq(Nat)
  <2> DEFINE b == at + k
  <2>1. b \in Nat /\ b + n <= size
    OBVIOUS
  <2> HIDE DEF b
  <2> QED
    BY <2>1, ReadBytes
<1>2. Read(m, at, k) \o r = Read(m, at, k + n)
  <2>1. ReadsJoin(m, at, k, n)
    BY ReadOn
  <2> QED
    BY <2>1 DEF ReadsJoin
<1> HIDE DEF r
<1>3. x \in Seq(Nat) /\ Without(x, Len(s)) = r
  BY <1>1, ConcatProperties, WithoutStatus
<1> HIDE DEF x
<1>4. Len(s) \in Nat
  BY LenProperties
<1> DEFINE l == Len(s)
<1> HIDE DEF l
<1>5. l \in Nat /\ GatheredOf(Append(g, x), first, l) = GatheredOf(g, first, l) \o Without(x, l)
  BY <1>3, <1>4, GatheredAppend DEF l
<1>6. GatheredOf(Append(g, x), first, l) = Read(m, at, k) \o r
  BY <1>3, <1>5 DEF l
<1> QED
  BY <1>2, <1>3, <1>6 DEF l, x, r, GathersOn

(* READ after READ of a Type 2 Tag gives the memory from its start on. *)
LEMMA T2tStep ==
  ASSUME NEW m \in MemOf(64), NEW g \in Seq(Seq(Nat)), GotT2t(m, g), Len(g) # 4
  PROVE  LET x == Read(m, 4 * (4 * Len(g)), 16) \o <<0>>
         IN  x \in Seq(Nat) /\ GotT2t(m, Append(g, x))
<1> DEFINE l == Len(g)  s == <<0>>  size == 64  at == 0  k == 16 * l  n == 16  first == 1
           x == Read(m, 4 * (4 * Len(g)), 16) \o <<0>>
<1>1. l \in Nat /\ l <= 3
  <2>1. Len(g) \in Nat /\ Len(g) <= 4 /\ Len(g) # 4
    BY LenProperties DEF GotT2t
  <2>2. l \in Nat /\ l <= 4 /\ l # 4
    BY <2>1
  <2> HIDE DEF l
  <2> QED
    BY <2>2
<1>2. s \in Seq(Nat) /\ Len(s) = 1 /\ size \in Nat /\ m \in MemOf(size)
  OBVIOUS
<1>3. GatheredOf(g, first, 1) = Read(m, at, k)
  BY DEF GotT2t
<1>4. first \in Nat /\ 1 <= first /\ first <= Len(g) + 1
  BY <1>1
<1>5. at \in Nat /\ n \in Nat
  OBVIOUS
<1> HIDE DEF l
<1>6. k \in Nat /\ at + k + n <= size /\ at + k = k /\ k + n = 16 * (l + 1) /\ 4 * (4 * l) = k
  BY <1>1
<1> HIDE DEF s, size, at, k, n, first
<1>7. GatheredOf(g, first, Len(s)) = Read(m, at, k)
  BY <1>2, <1>3
<1> DEFINE y == Read(m, at + k, n) \o s
<1>8. y \in Seq(Nat) /\ GatheredOf(Append(g, y), first, Len(s)) = Read(m, at, k + n)
  <2>1. s \in Seq(Nat) /\ size \in Nat /\ m \in MemOf(size)
    BY <1>2
  <2>2. k \in Nat /\ at + k + n <= size
    BY <1>6
  <2>3. GathersOn(m, at, k, n, s, g, first)
    BY <1>4, <1>5, <1>7, <2>1, <2>2, GatheredRead
  <2> QED
    BY <2>3 DEF GathersOn
<1>9. x = y
  <2>1. 4 * (4 * Len(g)) = at + k
    BY <1>6 DEF l
  <2> QED
    BY <2>1 DEF n, s
<1> HIDE DEF x, y
<1>10. Len(Append(g, y)) = l + 1
  BY <1>8, AppendProperties DEF l
<1>11. GatheredOf(Append(g, y), 1, 1) = Read(m, 0, 16 * Len(Append(g, y)))
  BY <1>2, <1>6, <1>8, <1>10 DEF first, at
<1>12. Len(Append(g, y)) <= 4
  BY <1>1, <1>10
<1>13. x \in Seq(Nat) /\ GotT2t(m, Append(g, x))
  BY <1>8, <1>9, <1>11, <1>12 DEF GotT2t
<1> QED
  BY <1>13 DEF x

(* Blocks that follow each other are read like the memory they make up. *)
LEMMA BlocksRead ==
  ASSUME NEW m \in MemOf(1024), NEW p \in Nat, NEW n \in Nat, p + n <= 64,
         NEW q, q = [i \in 1..n |-> Read(m, 16 * (p + i - 1), 16)]
  PROVE  FlattenSeq(q) = Read(m, 16 * p, 16 * n)
<1> DEFINE size == 1024  at == 16 * p
<1>1. at \in Nat /\ size \in Nat /\ m \in MemOf(size)
  OBVIOUS
<1>2. \A i \in 1..n : Read(m, 16 * (p + i - 1), 16) \in Seq(Nat)
  <2> TAKE i \in 1..n
  <2> DEFINE b == 16 * (p + i - 1)  k == 16
  <2>1. b \in Nat /\ k \in Nat /\ b + k <= size
    OBVIOUS
  <2> HIDE DEF size, b
  <2> QED
    BY <1>1, <2>1, ReadBytes
<1>3. q \in Seq(Seq(Nat)) /\ Len(q) = n
  BY <1>2
<1>4. PICK g : PrefixList(g, q, Nat)
  BY <1>3, FlattenPrefixes
<1>5. g[0] = <<>> /\ g[n] = FlattenSeq(q) /\ \A i \in 1..n : g[i] = g[i - 1] \o q[i]
  BY <1>3, <1>4 DEF PrefixList
<1> DEFINE T == {i \in 0..n : g[i] = Read(m, at, 16 * i)}
<1>6. 0 \in T
  <2>1. Read(m, at, 16 * 0) = <<>>
    <3>1. 16 * 0 = 0
      OBVIOUS
    <3> QED
      BY <3>1, ReadNone
  <2> QED
    BY <1>5, <2>1
<1>7. \A i \in 1..n : i - 1 \in T => i \in T
  <2> TAKE i \in 1..n
  <2> HAVE i - 1 \in T
  <2> DEFINE k == 16 * (i - 1)  w == 16
  <2>1. k \in Nat /\ w \in Nat /\ at + k + w <= size
    OBVIOUS
  <2>2. 16 * (p + i - 1) = at + k /\ k + w = 16 * i
    OBVIOUS
  <2>3. q[i] = Read(m, at + k, w)
    BY <2>2
  <2>4. g[i - 1] = Read(m, at, k) /\ g[i] = g[i - 1] \o q[i]
    BY <1>5
  <2> HIDE DEF size, at, k, w
  <2>5. Read(m, at, k) \o Read(m, at + k, w) = Read(m, at, k + w)
    <3>1. ReadsJoin(m, at, k, w)
      BY <1>1, <2>1, ReadOn
    <3> QED
      BY <3>1 DEF ReadsJoin
  <2>6. g[i] = Read(m, at, k + w)
    BY <2>3, <2>4, <2>5
  <2>7. g[i] = Read(m, at, 16 * i) /\ i \in 0..n
    BY <2>2, <2>6
  <2> QED
    BY <2>7
<1> HIDE DEF T
<1>8. n \in T
  <2>1. \A i \in 0..n : i \in T
    BY <1>6, <1>7, InductionUpTo
  <2> QED
    BY <2>1
<1> QED
  BY <1>5, <1>8 DEF T

(* The first CHECK of a Type 3 Tag reads the attributes. *)
LEMMA T3tFirst ==
  ASSUME NEW m \in MemOf(1024), NEW bl, bl = << 0 >>
  PROVE  LET x == FlattenSeq([i \in 1..Len(bl) |-> Read(m, T3tBlock * bl[i], T3tBlock)]) \o <<0>>
         IN  x \in Seq(Nat) /\ GotT3t(m, Append(<<>>, x))
<1> DEFINE q == [i \in 1..Len(bl) |-> Read(m, T3tBlock * bl[i], T3tBlock)]  r == Read(m, 0, 16)
           x == FlattenSeq(q) \o <<0>>
<1>1. r \in Seq(Nat)
  <2> DEFINE size == 1024  at == 0  n == 16
  <2>1. size \in Nat /\ at \in Nat /\ n \in Nat /\ at + n <= size /\ m \in MemOf(size)
    OBVIOUS
  <2> HIDE DEF size, at, n
  <2>2. Read(m, at, n) \in Seq(Nat)
    BY <2>1, ReadBytes
  <2> QED
    BY <2>2 DEF at, n
<1>2. q = <<r>>
  <2>1. Len(bl) = 1 /\ bl[1] = 0 /\ T3tBlock * 0 = 0 /\ T3tBlock = 16
    BY DEF T3tBlock
  <2>2. q = [i \in 1..1 |-> r]
    <3>1. \A i \in 1..1 : Read(m, T3tBlock * bl[i], T3tBlock) = r
      BY <2>1
    <3> QED
      BY <2>1, <3>1
  <2> HIDE DEF r
  <2> QED
    BY <2>2
<1>3. x = r \o <<0>>
  <2> HIDE DEF r
  <2>1. FlattenSeq(<<r>>) = r
    BY <1>1, FlattenOne
  <2> QED
    BY <1>2, <2>1
<1> DEFINE g == <<x>>
<1> HIDE DEF q, r
<1>4. x \in Seq(Nat)
  <2>1. <<0>> \in Seq(Nat)
    OBVIOUS
  <2> QED
    BY <1>1, <1>3, <2>1, ConcatProperties
<1> HIDE DEF x
<1>5. Append(<<>>, x) = g /\ g[1] = x /\ Len(g) = 1
  OBVIOUS
<1>6. GatheredOf(g, 2, 1) = <<>>
  <2> HIDE DEF g
  <2>1. 2 \in Nat /\ Len(g) \in Nat /\ Len(g) < 2
    BY <1>5
  <2> QED
    BY <2>1, GatheredNone
<1>7. Read(m, 16, 16 * 0) = <<>>
  <2>1. 16 * 0 = 0
    OBVIOUS
  <2> QED
    BY <2>1, ReadNone
<1>8. GotT3t(m, g)
  <2>1. 0 \in 0..63
    OBVIOUS
  <2> HIDE DEF g
  <2> QED
    BY <1>3, <1>5, <1>6, <1>7, <2>1 DEF GotT3t, r
<1> QED
  BY <1>4, <1>5, <1>8 DEF x, q

(* What the next CHECK of a reading of ln bytes answers, and what that adds *)
T3tNext(m, g, ln) ==
  LET next == Len(GatheredOf(g, 2, 1)) \div T3tBlock + 1
      last == (ln + T3tBlock - 1) \div T3tBlock
      n    == IF last - next + 1 < T3tMax THEN last - next + 1 ELSE T3tMax
      bl   == [i \in 1..n |-> next + i - 1]
      x    == FlattenSeq([i \in 1..Len(bl) |-> Read(m, T3tBlock * bl[i], T3tBlock)]) \o <<0>>
  IN  x \in Seq(Nat) /\ GotT3t(m, Append(g, x))

(* The next CHECK reads the blocks that follow. *)
LEMMA T3tStep ==
  ASSUME NEW m \in MemOf(1024), NEW g \in Seq(Seq(Nat)), g # <<>>, GotT3t(m, g),
         NEW ln \in Nat, ln <= 1007, ~(Len(GatheredOf(g, 2, 1)) >= ln)
  PROVE  T3tNext(m, g, ln)
<1> DEFINE next == Len(GatheredOf(g, 2, 1)) \div T3tBlock + 1
           last == (ln + T3tBlock - 1) \div T3tBlock
           n == IF last - next + 1 < T3tMax THEN last - next + 1 ELSE T3tMax
           bl == [i \in 1..n |-> next + i - 1]
<1> DEFINE q == [i \in 1..Len(bl) |-> Read(m, T3tBlock * bl[i], T3tBlock)]
           s == <<0>>  x == FlattenSeq(q) \o s  h == Append(g, x)
           size == 1024  at == 16
<1> SUFFICES x \in Seq(Nat) /\ GotT3t(m, h)
  BY DEF T3tNext
<1>1. PICK k \in 0..63 : GatheredOf(g, 2, 1) = Read(m, 16, 16 * k)
  BY DEF GotT3t
<1>2. g[1] = Read(m, 0, 16) \o <<0>>
  BY DEF GotT3t
<1>3. Len(GatheredOf(g, 2, 1)) = 16 * k
  <2> DEFINE w == 16 * k
  <2>1. w \in Nat /\ at \in Nat /\ size \in Nat /\ at + w <= size /\ m \in MemOf(size)
    OBVIOUS
  <2>2. GatheredOf(g, 2, 1) = Read(m, at, w)
    BY <1>1
  <2> HIDE DEF w, size, at
  <2>3. Len(Read(m, at, w)) = w
    BY <2>1, ReadBytes
  <2> QED
    BY <2>2, <2>3 DEF w
<1>4. next = k + 1
  <2>1. (16 * k) \div 16 = k
    OBVIOUS
  <2> QED
    BY <1>3, <2>1 DEF T3tBlock
<1>5. last \in Nat /\ last <= 63 /\ k + 1 <= last
  <2>1. last = (ln + 15) \div 16
    BY DEF T3tBlock
  <2>2. 16 * k < ln
    BY <1>3
  <2> QED
    BY <2>1, <2>2
<1> HIDE DEF next, last
<1>6. n \in Nat /\ 1 <= n /\ k + n <= 63
  BY <1>4, <1>5 DEF T3tMax
<1> HIDE DEF n
<1>7. next \in Nat /\ next + n <= 64
  BY <1>4, <1>6
<1>8. q = [i \in 1..n |-> Read(m, 16 * (next + i - 1), 16)]
  <2>1. Len(bl) = n /\ \A i \in 1..n : bl[i] = next + i - 1
    BY <1>6
  <2> HIDE DEF bl
  <2> QED
    BY <2>1 DEF T3tBlock
<1> HIDE DEF bl
<1> HIDE DEF q
<1>9. FlattenSeq(q) = Read(m, 16 * next, 16 * n)
  BY <1>6, <1>7, <1>8, BlocksRead
<1> DEFINE v == 16 * k  w == 16 * n  first == 2
<1>10. /\ v \in Nat /\ w \in Nat /\ at \in Nat /\ size \in Nat /\ at + v + w <= size
       /\ first \in Nat /\ 1 <= first
  BY <1>6
<1>11. 16 * next = at + v /\ v + w = 16 * (k + n) /\ k + n \in 0..63
  BY <1>4, <1>6
<1>12. s \in Seq(Nat) /\ Len(s) = 1 /\ m \in MemOf(size)
  OBVIOUS
<1>13. Len(g) \in Nat /\ 1 <= Len(g)
  BY LenProperties, EmptySeq
<1>14. first <= Len(g) + 1
  BY <1>13
<1> HIDE DEF s, size, at, v, w, first
<1>15. GatheredOf(g, first, Len(s)) = Read(m, at, v)
  BY <1>1, <1>12 DEF first, at, v
<1> DEFINE y == Read(m, at + v, w) \o s
<1>16. y \in Seq(Nat) /\ GatheredOf(Append(g, y), first, Len(s)) = Read(m, at, v + w)
  <2>1. s \in Seq(Nat) /\ m \in MemOf(size)
    BY <1>12
  <2>2. GathersOn(m, at, v, w, s, g, first)
    BY <1>10, <1>14, <1>15, <2>1, GatheredRead
  <2> QED
    BY <2>2 DEF GathersOn
<1>17. x = y
  BY <1>9, <1>11 DEF w
<1> HIDE DEF x, y
<1>18. x \in Seq(Nat) /\ GatheredOf(h, 2, 1) = Read(m, 16, 16 * (k + n))
  BY <1>11, <1>12, <1>16, <1>17 DEF first, at
<1>19. h[1] = g[1]
  BY <1>13, <1>18, AppendProperties
<1> HIDE DEF h
<1>20. GotT3t(m, h)
  BY <1>2, <1>11, <1>18, <1>19 DEF GotT3t
<1> QED
  BY <1>18, <1>20 DEF h, x, q, s, bl, n, next, last

(* READ BINARY after READ BINARY of the NDEF file gives the message from   *)
(* its start on.                                                           *)
LEMMA T4tStep ==
  ASSUME NEW m, NEW c, NEW g \in Seq(Seq(Nat)), HeldT4t(m, c), GotT4t(m, c, g, "NDEF"),
         Len(g) >= 5, ~(Len(GatheredOf(g, 6, 2)) >= Len(c.msg))
  PROVE  LET have == Len(GatheredOf(g, 6, 2))
             left == Len(c.msg) - have
             n == IF left < MLe THEN left ELSE MLe
             x == Read(m, FileAt["NDEF"] + (2 + have), n) \o Sw(144, 0)
         IN  /\ 2 + have + n <= FileSize["NDEF"]
             /\ x \in Seq(Nat) /\ GotT4t(m, c, Append(g, x), "NDEF")
<1> DEFINE have == Len(GatheredOf(g, 6, 2))
           left == Len(c.msg) - have
           n == IF left < MLe THEN left ELSE MLe
           s == Sw(144, 0)  x == Read(m, FileAt["NDEF"] + (2 + have), n) \o s  f == Append(g, x)
           size == 1039  at == 17  l == Len(c.msg)
<1>1. s \in Seq(Nat) /\ Len(s) = 2 /\ m \in MemOf(size)
  BY DEF Sw, HeldT4t
<1>2. PICK h \in 0..l : GatheredOf(g, 6, 2) = Read(m, 17, h)
  BY DEF GotT4t
<1>3. c.ndef = TRUE /\ g[3] = Read(m, 0, 15) \o s /\ g[5] = Read(m, 15, 2) \o s
  <2>1. Len(g) \in Nat
    BY LenProperties
  <2>2. Len(g) >= 3 /\ Len(g) >= 4 /\ Len(g) >= 5
    BY <2>1
  <2> QED
    BY <2>2 DEF GotT4t
<1>4. l \in Nat /\ l <= 1021
  <2>1. c # NoNdef
    BY <1>3 DEF NoNdef
  <2>2. AMessage(c) /\ Len(c.msg) <= 1021
    BY <2>1 DEF HeldT4t, NoMessage
  <2> QED
    BY <2>2, LenProperties DEF AMessage
<1> HIDE DEF s, l, have
<1>5. size \in Nat /\ at \in Nat /\ h \in Nat /\ at + h <= size
  BY <1>4
<1>6. have = h
  <2> HIDE DEF size, at
  <2>1. Len(Read(m, at, h)) = h
    BY <1>1, <1>5, ReadBytes
  <2> QED
    BY <1>2, <2>1 DEF at, have
<1>7. ~(h >= l)
  BY <1>6 DEF l, have
<1>8. n \in Nat /\ h + n <= l
  <2>1. n = IF l - h < 59 THEN l - h ELSE 59
    BY <1>6 DEF MLe, l
  <2> QED
    BY <1>4, <1>5, <1>7, <2>1
<1> HIDE DEF n
<1>9. at + h + n <= size /\ 2 + h + n <= 1024 /\ h + n \in 0..l /\ 15 + (2 + h) = at + h
  BY <1>4, <1>5, <1>8
<1> DEFINE first == 6
<1>10. Len(g) \in Nat /\ 5 <= Len(g) /\ first \in Nat /\ 1 <= first /\ first <= Len(g) + 1
  BY LenProperties
<1> HIDE DEF size, at, first
<1>11. GatheredOf(g, first, Len(s)) = Read(m, at, h)
  BY <1>1, <1>2 DEF at, first
<1> DEFINE y == Read(m, at + h, n) \o s
<1>12. y \in Seq(Nat) /\ GatheredOf(Append(g, y), first, Len(s)) = Read(m, at, h + n)
  <2>1. s \in Seq(Nat) /\ m \in MemOf(size)
    BY <1>1
  <2>2. n \in Nat /\ at + h + n <= size
    BY <1>8, <1>9
  <2>3. size \in Nat /\ at \in Nat /\ h \in Nat
    BY <1>5
  <2>4. first \in Nat /\ 1 <= first /\ first <= Len(g) + 1
    BY <1>10
  <2>5. GathersOn(m, at, h, n, s, g, first)
    BY <1>11, <2>1, <2>2, <2>3, <2>4, GatheredRead
  <2> QED
    BY <2>5 DEF GathersOn
<1>13. x = y
  <2>1. FileAt["NDEF"] + (2 + have) = at + h
    BY <1>6, <1>9 DEF FileAt, DataAt
  <2> QED
    BY <2>1
<1> HIDE DEF x, y
<1>14. x \in Seq(Nat) /\ GatheredOf(f, 6, 2) = Read(m, 17, h + n)
  BY <1>1, <1>12, <1>13 DEF first, at
<1>15. Len(f) \in Nat /\ Len(f) >= 5 /\ f[3] = g[3] /\ f[5] = g[5]
  <2>1. Len(f) = Len(g) + 1 /\ \A i \in 1..Len(g) : f[i] = g[i]
    BY <1>14, AppendProperties
  <2>2. 3 \in 1..Len(g) /\ 5 \in 1..Len(g)
    BY <1>10
  <2> HIDE DEF f
  <2> QED
    BY <1>10, <2>1, <2>2
<1>16. Len(f) \notin 2..3
  BY <1>10, <1>14, AppendProperties
<1> HIDE DEF f
<1>17. GotT4t(m, c, f, "NDEF")
  BY <1>3, <1>9, <1>14, <1>15, <1>16 DEF GotT4t, s, l
<1>18. 2 + have + n <= FileSize["NDEF"]
  BY <1>6, <1>9 DEF FileSize, DataSize
<1> QED
  BY <1>14, <1>17, <1>18 DEF f, x, s, n, have, l

(* Every tag begins formatted. *)
LEMMA TagInitInv == TagInit => TagInv
<1> SUFFICES ASSUME TagInit PROVE TagInv
  OBVIOUS
<1>1. tag_type \in TagTypes /\ got = <<>> /\ tag_end = "none" /\ t4t_file_sel = "NONE"
  BY DEF TagInit
<1>2. mem = Formatted(tag_type) /\ content = FormattedContent(tag_type)
  BY DEF TagInit
<1>3. /\ GotT1t(mem, got) /\ GotT2t(mem, got) /\ GotT3t(mem, got)
      /\ GotT4t(mem, content, got, t4t_file_sel)
  BY <1>1, GotNothing
<1>4. CASE tag_type = "T1T"
  BY <1>1, <1>2, <1>3, <1>4, FormattedT1tHeld DEF TagInv, Files
<1>5. CASE tag_type = "T2T"
  BY <1>1, <1>2, <1>3, <1>5, FormattedT2tHeld DEF TagInv, Files
<1>6. CASE tag_type = "T3T"
  BY <1>1, <1>2, <1>3, <1>6, FormattedT3tHeld DEF TagInv, Files
<1>7. CASE tag_type = "T4T"
  BY <1>1, <1>2, <1>3, <1>7, FormattedT4tHeld DEF TagInv, Files
<1> QED
  BY <1>1, <1>4, <1>5, <1>6, <1>7 DEF TagTypes

(* `tag format' leaves the tag as it began. *)
LEMMA TagFormatInv == TagInv /\ OperatorFormatsTag => TagInv'
<1> SUFFICES ASSUME TagInv, OperatorFormatsTag PROVE TagInv'
  OBVIOUS
<1>1. /\ tag_type' \in TagTypes /\ got' = <<>> /\ t4t_file_sel' \in Files
      /\ tag_end' \in {"none", "assert", "overrun"}
  BY DEF TagInv, OperatorFormatsTag, Changed
<1>2. mem' = Formatted(tag_type') /\ content' = FormattedContent(tag_type')
  BY DEF OperatorFormatsTag, Changed
<1>3. /\ GotT1t(mem', got') /\ GotT2t(mem', got') /\ GotT3t(mem', got')
      /\ GotT4t(mem', content', got', t4t_file_sel')
  BY <1>1, GotNothing
<1>4. CASE tag_type' = "T1T"
  BY <1>1, <1>2, <1>3, <1>4, FormattedT1tHeld DEF TagInv
<1>5. CASE tag_type' = "T2T"
  BY <1>1, <1>2, <1>3, <1>5, FormattedT2tHeld DEF TagInv
<1>6. CASE tag_type' = "T3T"
  BY <1>1, <1>2, <1>3, <1>6, FormattedT3tHeld DEF TagInv
<1>7. CASE tag_type' = "T4T"
  BY <1>1, <1>2, <1>3, <1>7, FormattedT4tHeld DEF TagInv
<1> QED
  BY <1>1, <1>4, <1>5, <1>6, <1>7 DEF TagTypes

(* A message is bytes of its length. *)
LEMMA NdefMsgType ==
  ASSUME NEW key \in Nat, NEW len \in Nat
  PROVE  NdefMsg(key, len) \in Seq(Nat) /\ Len(NdefMsg(key, len)) = len
<1>1. \A i \in 1..len : 1000 * key + 256 + i \in Nat
  OBVIOUS
<1> QED
  BY <1>1 DEF NdefMsg

(* `tag set' keeps the memory in step with the content, or ends it all. *)
LEMMA TagSetInv == TagInv /\ OperatorSetsTag => TagInv'
<1> SUFFICES ASSUME TagInv, OperatorSetsTag PROVE TagInv'
  OBVIOUS
<1>1. PICK key \in MsgKeys, len \in MsgLens[tag_type] \cup {0} :
        /\ \/ \E how \in {"assert", "overrun"} : TagStops(how)
           \/ /\ Accepts(tag_type, len) /\ Fits(tag_type, len)
              /\ Changed(SetData(mem, tag_type, NdefMsg(key, len)), Holds(NdefMsg(key, len)))
              /\ UNCHANGED tag_end
        /\ UNCHANGED <<tag_type, t4t_file_sel>>
  BY DEF OperatorSetsTag
<1> DEFINE msg == NdefMsg(key, len)
<1>2. /\ tag_type \in TagTypes /\ tag_type' = tag_type /\ t4t_file_sel \in Files
      /\ t4t_file_sel' = t4t_file_sel
  BY <1>1 DEF TagInv
<1>3. msg \in Seq(Nat) /\ Len(msg) = len /\ len \in Nat
  <2>1. len \in Nat /\ key \in Nat
    BY <1>2, TagAssumption
  <2> QED
    BY <2>1, NdefMsgType
<1> HIDE DEF msg
<1>4. CASE \E how \in {"assert", "overrun"} : TagStops(how)
  BY <1>2, <1>4 DEF TagInv, TagStops
<1>5. CASE /\ Accepts(tag_type, len) /\ Fits(tag_type, len)
           /\ Changed(SetData(mem, tag_type, msg), Holds(msg))
           /\ UNCHANGED tag_end
  <2>1. /\ mem' = SetData(mem, tag_type, msg) /\ content' = Holds(msg) /\ got' = <<>>
        /\ tag_end' \in {"none", "assert", "overrun"}
    BY <1>5 DEF Changed, TagInv
  <2>2. /\ GotT1t(mem', got') /\ GotT2t(mem', got') /\ GotT3t(mem', got')
        /\ GotT4t(mem', content', got', t4t_file_sel')
    BY <2>1, GotNothing
  <2>3. got' \in Seq(Seq(Nat))
    BY <2>1
  <2>4. CASE tag_type = "T1T"
    <3>1. mem \in MemOf(120)
      BY <2>4 DEF TagInv, HeldT1t
    <3>2. len + 7 <= 96
      BY <1>5, <2>4 DEF Fits, DataSize
    <3>3. Len(msg) <= 89
      BY <1>3, <3>2
    <3>4. HeldT1t(SetT1t(mem, msg), Holds(msg))
      BY <1>3, <3>1, <3>3, SetT1tHeld
    <3>5. HeldT1t(mem', content')
      BY <2>1, <2>4, <3>4 DEF SetData
    <3> QED
      BY <1>2, <2>1, <2>2, <2>3, <2>4, <3>5 DEF TagInv
  <2>5. CASE tag_type = "T2T"
    <3>1. mem \in MemOf(64)
      BY <2>5 DEF TagInv, HeldT2t
    <3>2. len + 3 <= 48
      BY <1>5, <2>5 DEF Fits, DataSize
    <3>3. Len(msg) <= 45
      BY <1>3, <3>2
    <3>4. HeldT2t(SetT2t(mem, msg), Holds(msg))
      BY <1>3, <3>1, <3>3, SetT2tHeld
    <3>5. HeldT2t(mem', content')
      BY <2>1, <2>5, <3>4 DEF SetData
    <3> QED
      BY <1>2, <2>1, <2>2, <2>3, <2>5, <3>5 DEF TagInv
  <2>6. CASE tag_type = "T3T"
    <3>1. mem \in MemOf(1024)
      BY <2>6 DEF TagInv, HeldT3t
    <3>2. len + 0 < 1008
      BY <1>5, <2>6 DEF Accepts, DataSize
    <3>3. Len(msg) <= 1007
      BY <1>3, <3>2
    <3>4. HeldT3t(SetT3t(mem, msg), Holds(msg))
      BY <1>3, <3>1, <3>3, SetT3tHeld
    <3>5. HeldT3t(mem', content')
      BY <2>1, <2>6, <3>4 DEF SetData
    <3> QED
      BY <1>2, <2>1, <2>2, <2>3, <2>6, <3>5 DEF TagInv
  <2>7. CASE tag_type = "T4T"
    <3>1. mem \in MemOf(1039)
      BY <2>7 DEF TagInv, HeldT4t
    <3>2. len + 2 < 1024
      BY <1>5, <2>7 DEF Accepts, DataSize
    <3>3. Len(msg) <= 1021
      BY <1>3, <3>2
    <3>4. HeldT4t(SetT4t(mem, msg), Holds(msg))
      BY <1>3, <3>1, <3>3, SetT4tHeld
    <3>5. HeldT4t(mem', content')
      BY <2>1, <2>7, <3>4 DEF SetData
    <3> QED
      BY <1>2, <2>1, <2>2, <2>3, <2>7, <3>5 DEF TagInv
  <2> QED
    BY <1>2, <2>4, <2>5, <2>6, <2>7 DEF TagTypes
<1> QED
  BY <1>1, <1>4, <1>5 DEF msg

(* A reading begun anew has nothing yet. *)
LEMMA TagOverInv == TagInv /\ HostStartsOver => TagInv'
<1> SUFFICES ASSUME TagInv, HostStartsOver PROVE TagInv'
  OBVIOUS
<1>1. UNCHANGED <<tag_type, mem, t4t_file_sel, content, tag_end>> /\ got' = <<>>
  BY DEF HostStartsOver
<1>2. /\ GotT1t(mem', got') /\ GotT2t(mem', got') /\ GotT3t(mem', got')
      /\ GotT4t(mem', content', got', t4t_file_sel')
  BY <1>1, GotNothing
<1> QED
  BY <1>1, <1>2 DEF TagInv

(* Where the tag stays, so does the invariant. *)
LEMMA TagStutterInv == TagInv /\ UNCHANGED tagVars => TagInv'
BY DEF TagInv, tagVars

(* RID and RALL of a Type 1 Tag keep in step what the host has. *)
LEMMA ReadT1tInv ==
  TagInv /\ HostReadsTag /\ tag_type = "T1T" => TagInv'
<1> SUFFICES ASSUME TagInv, HostReadsTag, tag_type = "T1T" PROVE TagInv'
  OBVIOUS
<1>1. /\ UNCHANGED <<tag_type, mem, content, t4t_file_sel>> /\ Len(got) # 2
      /\ IF got = <<>> THEN T1tRid ELSE T1tRall
  BY DEF HostReadsTag, ReadDone, HostReadsT1t, HostReadsT2t, HostReadsT3t, HostReadsT4t
<1>2. /\ HeldT1t(mem, content) /\ GotT1t(mem, got) /\ got \in Seq(Seq(Nat))
      /\ t4t_file_sel \in Files /\ tag_end \in {"none", "assert", "overrun"}
  BY DEF TagInv
<1>3. Len(got) \in Nat /\ Len(got) <= 1
  <2>1. Len(got) \in Nat /\ Len(got) <= 2
    BY <1>2, LenProperties DEF GotT1t
  <2> QED
    BY <1>1, <2>1
<1>4. mem \in MemOf(120)
  BY <1>2 DEF HeldT1t
<1>5. CASE got = <<>>
  <2> DEFINE x == HR \o Read(mem, 0, 4) \o <<0>>  h == Append(got, x)
  <2>1. got' = h /\ tag_end' = tag_end
    BY <1>1, <1>5 DEF T1tRid, Answers
  <2>2. x \in Seq(Nat)
    <3> DEFINE size == 120  at == 0  n == 4
    <3>1. size \in Nat /\ at \in Nat /\ n \in Nat /\ at + n <= size /\ mem \in MemOf(size)
      BY <1>4
    <3> HIDE DEF size, at, n
    <3>2. Read(mem, at, n) \in Seq(Nat)
      BY <3>1, ReadBytes
    <3>3. Read(mem, 0, 4) \in Seq(Nat) /\ HR \in Seq(Nat) /\ <<0>> \in Seq(Nat)
      BY <3>2 DEF at, n, HR
    <3> DEFINE r == Read(mem, 0, 4)  z == <<0>>  u == HR \o r
    <3> HIDE DEF r, z
    <3>4. u \in Seq(Nat)
      BY <3>3, ConcatProperties DEF r
    <3> HIDE DEF u
    <3>5. u \o z \in Seq(Nat)
      BY <3>3, <3>4, ConcatProperties DEF z
    <3> QED
      BY <3>5 DEF u, r, z
  <2> HIDE DEF x
  <2>3. h \in Seq(Seq(Nat)) /\ Len(h) = 1
    BY <1>2, <1>5, <2>2, AppendProperties
  <2> HIDE DEF h
  <2>4. GotT1t(mem, h)
    BY <2>3 DEF GotT1t
  <2> QED
    BY <1>1, <1>2, <2>1, <2>3, <2>4 DEF TagInv, TagTypes
<1>6. CASE got # <<>>
  <2> DEFINE x == HR \o Read(mem, 0, TagSize["T1T"]) \o <<0>>  h == Append(got, x)
  <2>1. got' = h /\ tag_end' = tag_end
    BY <1>1, <1>6 DEF T1tRall, Answers
  <2>2. x = HR \o Read(mem, 0, 120) \o <<0>>
    BY DEF TagSize
  <2>3. x \in Seq(Nat)
    <3>1. HasAll(mem, x)
      BY <1>4, <2>2, RallBytes
    <3> QED
      BY <3>1 DEF HasAll
  <2> HIDE DEF x
  <2>4. Len(got) = 1
    BY <1>2, <1>3, <1>6, EmptySeq
  <2>5. h \in Seq(Seq(Nat)) /\ Len(h) = 2 /\ h[2] = x
    <3>1. got \in Seq(Seq(Nat)) /\ x \in Seq(Nat)
      BY <1>2, <2>3
    <3>2. h \in Seq(Seq(Nat)) /\ Len(h) = Len(got) + 1 /\ h[Len(got) + 1] = x
      BY <3>1, AppendProperties
    <3> HIDE DEF h
    <3> QED
      BY <2>4, <3>2
  <2> HIDE DEF h
  <2>6. GotT1t(mem, h)
    BY <2>2, <2>5 DEF GotT1t
  <2> QED
    BY <1>1, <1>2, <2>1, <2>5, <2>6 DEF TagInv, TagTypes
<1> QED
  BY <1>5, <1>6

(* The READs of a Type 2 Tag. *)
LEMMA ReadT2tInv ==
  TagInv /\ HostReadsTag /\ tag_type = "T2T" => TagInv'
<1> SUFFICES ASSUME TagInv, HostReadsTag, tag_type = "T2T" PROVE TagInv'
  OBVIOUS
<1> DEFINE x == Read(mem, 4 * (4 * Len(got)), 16) \o <<0>>  h == Append(got, x)
<1>1. /\ UNCHANGED <<tag_type, mem, content, t4t_file_sel>> /\ Len(got) # 4
      /\ got' = h /\ tag_end' = tag_end
  BY DEF HostReadsTag, ReadDone, HostReadsT1t, HostReadsT2t, HostReadsT3t, HostReadsT4t,
         T2tRead, Answers
<1>2. /\ HeldT2t(mem, content) /\ GotT2t(mem, got) /\ got \in Seq(Seq(Nat))
      /\ t4t_file_sel \in Files /\ tag_end \in {"none", "assert", "overrun"}
  BY DEF TagInv
<1>3. mem \in MemOf(64)
  BY <1>2 DEF HeldT2t
<1>4. x \in Seq(Nat) /\ GotT2t(mem, h)
  BY <1>1, <1>2, <1>3, T2tStep
<1> HIDE DEF x
<1>5. h \in Seq(Seq(Nat))
  BY <1>2, <1>4, AppendProperties
<1> HIDE DEF h
<1> QED
  BY <1>1, <1>2, <1>4, <1>5 DEF TagInv, TagTypes

(* What the attributes of a Type 3 Tag say *)
LEMMA T3tLength ==
  ASSUME TagInv, tag_type = "T3T", got # <<>>
  PROVE  T3tLn = Len(content.msg) /\ T3tLn \in Nat /\ T3tLn <= 1007
<1>1. HeldT3t(mem, content) /\ GotT3t(mem, got)
  BY DEF TagInv
<1>2. T3tLn = Len(content.msg)
  BY <1>1, T3tContent DEF T3tLn
<1>3. Len(content.msg) \in Nat /\ Len(content.msg) <= 1007
  BY <1>1, LenProperties DEF HeldT3t, AMessage
<1> QED
  BY <1>2, <1>3

(* The CHECKs of a Type 3 Tag. *)
LEMMA ReadT3tInv ==
  TagInv /\ HostReadsTag /\ tag_type = "T3T" => TagInv'
<1> SUFFICES ASSUME TagInv, HostReadsTag, tag_type = "T3T" PROVE TagInv'
  OBVIOUS
<1>1. /\ UNCHANGED <<tag_type, mem, content, t4t_file_sel>>
      /\ ~(got # <<>> /\ Len(GatheredOf(got, 2, 1)) >= T3tLn)
      /\ HostReadsT3t
  BY DEF HostReadsTag, ReadDone, HostReadsT1t, HostReadsT2t, HostReadsT4t, Gathered, GatheredOf
<1>2. /\ HeldT3t(mem, content) /\ GotT3t(mem, got) /\ got \in Seq(Seq(Nat))
      /\ t4t_file_sel \in Files /\ tag_end \in {"none", "assert", "overrun"}
  BY DEF TagInv
<1>3. mem \in MemOf(1024)
  BY <1>2 DEF HeldT3t
<1>4. SUFFICES \E x \in Seq(Nat) : /\ got' = Append(got, x) /\ tag_end' = tag_end
                                   /\ GotT3t(mem, Append(got, x))
  <2> SUFFICES ASSUME NEW x \in Seq(Nat), got' = Append(got, x), tag_end' = tag_end,
                      GotT3t(mem, Append(got, x))
               PROVE  TagInv'
    OBVIOUS
  <2>1. got' \in Seq(Seq(Nat))
    BY <1>2, AppendProperties
  <2> QED
    BY <1>1, <1>2, <2>1 DEF TagInv, TagTypes
<1>5. CASE got = <<>>
  <2> DEFINE bl == <<0>>
             x == FlattenSeq([i \in 1..Len(bl) |-> Read(mem, T3tBlock * bl[i], T3tBlock)]) \o <<0>>
  <2>1. got' = Append(got, x) /\ tag_end' = tag_end
    BY <1>1, <1>5 DEF HostReadsT3t, T3tCheck, Answers
  <2>2. x \in Seq(Nat) /\ GotT3t(mem, Append(got, x))
    BY <1>3, <1>5, T3tFirst
  <2> QED
    BY <2>1, <2>2
<1>6. CASE got # <<>>
  <2> DEFINE next == Len(GatheredOf(got, 2, 1)) \div T3tBlock + 1
             last == (T3tLn + T3tBlock - 1) \div T3tBlock
             n == IF last - next + 1 < T3tMax THEN last - next + 1 ELSE T3tMax
             bl == [i \in 1..n |-> next + i - 1]
             x == FlattenSeq([i \in 1..Len(bl) |-> Read(mem, T3tBlock * bl[i], T3tBlock)]) \o <<0>>
  <2>1. got' = Append(got, x) /\ tag_end' = tag_end
    BY <1>1, <1>6 DEF HostReadsT3t, T3tCheck, Answers, Gathered, GatheredOf
  <2>2. T3tLn \in Nat /\ T3tLn <= 1007
    BY <1>6, T3tLength
  <2>3. ~(Len(GatheredOf(got, 2, 1)) >= T3tLn)
    BY <1>1, <1>6
  <2>4. x \in Seq(Nat) /\ GotT3t(mem, Append(got, x))
    <3>1. got \in Seq(Seq(Nat)) /\ GotT3t(mem, got)
      BY <1>2
    <3>2. T3tNext(mem, got, T3tLn)
      <4> HIDE DEF x, bl, n, last, next
      <4> QED
        BY <1>3, <1>6, <2>2, <2>3, <3>1, T3tStep
    <3> QED
      BY <3>2 DEF T3tNext
  <2> HIDE DEF x
  <2> QED
    BY <2>1, <2>4
<1> QED
  BY <1>5, <1>6

(* The stages of the reading of a Type 4 Tag, before the message: what is  *)
(* selected from sel on, and what the next response is                     *)
Stage(m, g, sel, sel2, x) ==
  \/ Len(g) = 0
  \/ Len(g) = 1 /\ sel2 = "CC"
  \/ Len(g) = 2 /\ sel2 = sel /\ x = Read(m, 0, 15) \o Sw(144, 0)
  \/ Len(g) = 3 /\ sel2 = "NDEF" /\ g[3][8] = NdefFile
  \/ Len(g) = 4 /\ sel2 = sel /\ x = Read(m, 15, 2) \o Sw(144, 0)

(* They keep in step what the host has. *)
LEMMA T4tStages ==
  ASSUME NEW m, NEW c, NEW g \in Seq(Seq(Nat)), NEW sel, NEW sel2, NEW x \in Seq(Nat),
         HeldT4t(m, c), GotT4t(m, c, g, sel), Stage(m, g, sel, sel2, x)
  PROVE  GotT4t(m, c, Append(g, x), sel2)
<1> DEFINE h == Append(g, x)  l == Len(g)
<1>1. /\ l \in Nat /\ Len(h) = l + 1 /\ h[l + 1] = x /\ \A i \in 1..l : h[i] = g[i]
  BY LenProperties, AppendProperties
<1>2. l = 3 => (g[3][8] = NdefFile => c.ndef = TRUE)
  <2>1. GivesT4t(c, g)
    BY <1>1, T4tContent
  <2> QED
    BY <2>1 DEF GivesT4t
<1>3. l = 4 => sel = "NDEF" /\ c.ndef = TRUE
  BY DEF GotT4t
<1>4. l = 2 => sel = "CC"
  BY DEF GotT4t
<1>5. l = 3 \/ l = 4 => g[3] = Read(m, 0, 15) \o Sw(144, 0)
  BY DEF GotT4t
<1> HIDE DEF h
<1>7. CASE Len(g) = 0
  <2>1. Len(h) = 1
    BY <1>1, <1>7
  <2> QED
    BY <2>1 DEF GotT4t, h
<1>8. CASE Len(g) = 1 /\ sel2 = "CC"
  <2>1. Len(h) = 2 /\ sel2 = "CC"
    BY <1>1, <1>8
  <2> QED
    BY <2>1 DEF GotT4t, h
<1>9. CASE Len(g) = 2 /\ sel2 = sel /\ x = Read(m, 0, 15) \o Sw(144, 0)
  <2>1. Len(h) = 3 /\ sel2 = "CC" /\ h[3] = Read(m, 0, 15) \o Sw(144, 0)
    BY <1>1, <1>4, <1>9
  <2> QED
    BY <2>1 DEF GotT4t, h
<1>10. CASE Len(g) = 3 /\ sel2 = "NDEF" /\ g[3][8] = NdefFile
  <2>1. Len(h) = 4 /\ h[3] = g[3]
    BY <1>1, <1>10
  <2>2. sel2 = "NDEF" /\ c.ndef = TRUE /\ g[3] = Read(m, 0, 15) \o Sw(144, 0)
    BY <1>2, <1>5, <1>10
  <2> QED
    BY <2>1, <2>2 DEF GotT4t, h
<1>11. CASE Len(g) = 4 /\ sel2 = sel /\ x = Read(m, 15, 2) \o Sw(144, 0)
  <2>1. Len(h) = 5 /\ h[3] = g[3] /\ h[5] = x
    BY <1>1, <1>11
  <2>2. /\ sel2 = "NDEF" /\ c.ndef = TRUE /\ g[3] = Read(m, 0, 15) \o Sw(144, 0)
        /\ x = Read(m, 15, 2) \o Sw(144, 0)
    BY <1>3, <1>5, <1>11
  <2>3. GatheredOf(h, 6, 2) = <<>>
    <3>1. Len(h) \in Nat /\ 6 \in Nat /\ Len(h) < 6
      BY <2>1
    <3> QED
      BY <3>1, GatheredNone
  <2>4. Read(m, 17, 0) = <<>>
    BY ReadNone
  <2>5. Len(c.msg) \in Nat
    <3>1. c # NoNdef
      BY <2>2 DEF NoNdef
    <3>2. c.msg \in Seq(Nat)
      BY <3>1 DEF HeldT4t, NoMessage, AMessage
    <3> QED
      BY <3>2, LenProperties
  <2>6. 0 \in 0..Len(c.msg)
    BY <2>5
  <2>7. \E k \in 0..Len(c.msg) : GatheredOf(h, 6, 2) = Read(m, 17, k)
    BY <2>3, <2>4, <2>6
  <2> QED
    BY <2>1, <2>2, <2>7 DEF GotT4t, h
<1> QED
  BY <1>7, <1>8, <1>9, <1>10, <1>11 DEF h, Stage

(* A part of the memory with a status behind it. *)
LEMMA AnswerType ==
  ASSUME NEW m \in MemOf(1039), NEW at \in Nat, NEW n \in Nat, at + n <= 1039
  PROVE  Read(m, at, n) \o Sw(144, 0) \in Seq(Nat)
<1> DEFINE r == Read(m, at, n)  s == Sw(144, 0)  size == 1039
<1>1. size \in Nat /\ m \in MemOf(size) /\ at + n <= size
  OBVIOUS
<1> HIDE DEF size
<1>2. r \in Seq(Nat)
  BY <1>1, ReadBytes
<1>3. s \in Seq(Nat)
  BY DEF Sw
<1> HIDE DEF r, s
<1>4. r \o s \in Seq(Nat)
  BY <1>2, <1>3, ConcatProperties
<1> QED
  BY <1>4 DEF r, s

(* The SELECTs and READ BINARYs of a Type 4 Tag. *)
LEMMA ReadT4tInv ==
  TagInv /\ HostReadsTag /\ tag_type = "T4T" => TagInv'
<1> SUFFICES ASSUME TagInv, HostReadsTag, tag_type = "T4T" PROVE TagInv'
  OBVIOUS
<1>1. /\ UNCHANGED <<tag_type, mem, content>> /\ ~ReadDone /\ HostReadsT4t
  BY DEF HostReadsTag, HostReadsT1t, HostReadsT2t, HostReadsT3t
<1>2. /\ HeldT4t(mem, content) /\ GotT4t(mem, content, got, t4t_file_sel)
      /\ got \in Seq(Seq(Nat))
      /\ t4t_file_sel \in Files /\ tag_end \in {"none", "assert", "overrun"}
  BY DEF TagInv
<1>3. mem \in MemOf(1039) /\ Len(got) \in Nat
  BY <1>2, LenProperties DEF HeldT4t
<1>4. SUFFICES \E x \in Seq(Nat) : /\ got' = Append(got, x) /\ tag_end' = tag_end
                                   /\ t4t_file_sel' \in Files
                                   /\ GotT4t(mem, content, Append(got, x), t4t_file_sel')
  <2> SUFFICES ASSUME NEW x \in Seq(Nat), got' = Append(got, x), tag_end' = tag_end,
                      t4t_file_sel' \in Files,
                      GotT4t(mem, content, Append(got, x), t4t_file_sel')
               PROVE  TagInv'
    OBVIOUS
  <2>1. got' \in Seq(Seq(Nat))
    BY <1>2, AppendProperties
  <2> QED
    BY <1>1, <1>2, <2>1 DEF TagInv, TagTypes
<1>5. CASE Len(got) = 0
  <2>1. PICK x : /\ x = Sw(144, 0) \/ x = Sw(106, 130)
                 /\ got' = Append(got, x) /\ tag_end' = tag_end /\ t4t_file_sel' \in Files
    <3>1. T4tAppSelect \/ \E exists \in BOOLEAN : T4tNdefSelect(exists)
      BY <1>1, <1>5 DEF HostReadsT4t
    <3> QED
      BY <1>2, <3>1 DEF T4tAppSelect, T4tNdefSelect, Answers, Files
  <2>2. x \in Seq(Nat)
    <3>1. <<144, 0>> \in Seq(Nat) /\ <<106, 130>> \in Seq(Nat)
      OBVIOUS
    <3> QED
      BY <2>1, <3>1 DEF Sw
  <2>3. GotT4t(mem, content, Append(got, x), t4t_file_sel')
    <3>1. Stage(mem, got, t4t_file_sel, t4t_file_sel', x)
      BY <1>2, <1>5, <2>2 DEF Stage
    <3> QED
      BY <1>2, <2>2, <3>1, T4tStages
  <2> QED
    BY <2>1, <2>2, <2>3
<1>6. CASE Len(got) = 1
  <2> DEFINE x == Sw(144, 0)
  <2>1. got' = Append(got, x) /\ tag_end' = tag_end /\ t4t_file_sel' = "CC"
    BY <1>1, <1>6 DEF HostReadsT4t, T4tCcSelect, Answers
  <2>2. x \in Seq(Nat)
    BY DEF Sw
  <2> HIDE DEF x
  <2>3. GotT4t(mem, content, Append(got, x), t4t_file_sel')
    <3>1. Stage(mem, got, t4t_file_sel, t4t_file_sel', x)
      BY <1>2, <1>6, <2>1, <2>2 DEF Stage
    <3> QED
      BY <1>2, <2>2, <3>1, T4tStages
  <2> QED
    BY <2>1, <2>2, <2>3 DEF Files
<1>7. CASE Len(got) = 2
  <2> DEFINE x == Read(mem, 0, 15) \o Sw(144, 0)
  <2>1. t4t_file_sel = "CC"
    BY <1>2, <1>7 DEF GotT4t
  <2>2. T4tReadBinary(0, FileSize["CC"])
    BY <1>1, <1>7 DEF HostReadsT4t
  <2>3. got' = Append(got, x) /\ tag_end' = tag_end /\ t4t_file_sel' = t4t_file_sel
    BY <2>1, <2>2 DEF T4tReadBinary, FileSize, FileAt, Answers
  <2>4. x \in Seq(Nat)
    BY <1>3, AnswerType
  <2>5. GotT4t(mem, content, Append(got, x), t4t_file_sel')
    <3>1. Stage(mem, got, t4t_file_sel, t4t_file_sel', x)
      BY <1>2, <1>7, <2>3, <2>4 DEF Stage
    <3> QED
      BY <1>2, <2>4, <3>1, T4tStages
  <2> QED
    BY <1>2, <2>3, <2>4, <2>5
<1>8. CASE Len(got) = 3
  <2> DEFINE x == Sw(144, 0)
  <2>1. got' = Append(got, x) /\ tag_end' = tag_end /\ t4t_file_sel' = "NDEF"
    BY <1>1, <1>8 DEF HostReadsT4t, T4tNdefSelect, Answers
  <2>2. x \in Seq(Nat)
    BY DEF Sw
  <2>3. got[3][8] = NdefFile
    BY <1>1, <1>8 DEF ReadDone
  <2> HIDE DEF x
  <2>4. GotT4t(mem, content, Append(got, x), t4t_file_sel')
    <3>1. Stage(mem, got, t4t_file_sel, t4t_file_sel', x)
      BY <1>2, <1>8, <2>1, <2>2, <2>3 DEF Stage
    <3> QED
      BY <1>2, <2>2, <3>1, T4tStages
  <2> QED
    BY <2>1, <2>2, <2>4 DEF Files
<1>9. CASE Len(got) = 4
  <2> DEFINE x == Read(mem, 15, 2) \o Sw(144, 0)
  <2>1. t4t_file_sel = "NDEF"
    BY <1>2, <1>9 DEF GotT4t
  <2>2. T4tReadBinary(0, 2)
    BY <1>1, <1>9 DEF HostReadsT4t
  <2>3. got' = Append(got, x) /\ tag_end' = tag_end /\ t4t_file_sel' = t4t_file_sel
    BY <2>1, <2>2 DEF T4tReadBinary, FileSize, FileAt, DataSize, DataAt, Answers
  <2>4. x \in Seq(Nat)
    BY <1>3, AnswerType
  <2>5. GotT4t(mem, content, Append(got, x), t4t_file_sel')
    <3>1. Stage(mem, got, t4t_file_sel, t4t_file_sel', x)
      BY <1>2, <1>9, <2>3, <2>4 DEF Stage
    <3> QED
      BY <1>2, <2>4, <3>1, T4tStages
  <2> QED
    BY <1>2, <2>3, <2>4, <2>5
<1>10. CASE Len(got) >= 5
  <2> DEFINE have == Len(GatheredOf(got, 6, 2))
             left == Len(content.msg) - have
             n == IF left < MLe THEN left ELSE MLe
             x == Read(mem, FileAt["NDEF"] + (2 + have), n) \o Sw(144, 0)
  <2>1. t4t_file_sel = "NDEF"
    BY <1>2, <1>3, <1>10 DEF GotT4t
  <2>2. T4tNlen = Len(content.msg)
    <3>1. GivesT4t(content, got)
      BY <1>2, <1>3, T4tContent
    <3> QED
      BY <1>10, <3>1 DEF T4tNlen, GivesT4t
  <2>3. ~(have >= Len(content.msg))
    BY <1>1, <1>10, <2>2 DEF ReadDone, Gathered, GatheredOf
  <2>4. T4tReadBinary(2 + have, n)
    <3>1. ~(Len(got) = 0) /\ ~(Len(got) = 1) /\ ~(Len(got) = 2) /\ ~(Len(got) = 3) /\ ~(Len(got) = 4)
      <4> DEFINE l == Len(got)
      <4>1. l \in Nat /\ l >= 5
        BY <1>3, <1>10
      <4> HIDE DEF l
      <4>2. ~(l = 0) /\ ~(l = 1) /\ ~(l = 2) /\ ~(l = 3) /\ ~(l = 4)
        BY <4>1
      <4> QED
        BY <4>2 DEF l
    <3> QED
      BY <1>1, <2>2, <3>1 DEF HostReadsT4t, Gathered, GatheredOf
  <2>5. 2 + have + n <= FileSize["NDEF"] /\ x \in Seq(Nat) /\ GotT4t(mem, content, Append(got, x), "NDEF")
    BY <1>2, <1>10, <2>1, <2>3, T4tStep
  <2> HIDE DEF have, n
  <2>6. got' = Append(got, x) /\ tag_end' = tag_end /\ t4t_file_sel' = t4t_file_sel
    BY <2>1, <2>4, <2>5 DEF T4tReadBinary, Answers
  <2> HIDE DEF x
  <2> QED
    BY <1>2, <2>1, <2>5, <2>6
<1>11. Len(got) = 0 \/ Len(got) = 1 \/ Len(got) = 2 \/ Len(got) = 3 \/ Len(got) = 4 \/ Len(got) >= 5
  <2> DEFINE l == Len(got)
  <2>1. l \in Nat
    BY <1>3
  <2> HIDE DEF l
  <2>2. l = 0 \/ l = 1 \/ l = 2 \/ l = 3 \/ l = 4 \/ l >= 5
    BY <2>1
  <2> QED
    BY <2>2 DEF l
<1> QED
  BY <1>5, <1>6, <1>7, <1>8, <1>9, <1>10, <1>11

(* Every step of the tag keeps the invariant. *)
LEMMA TagStepInv == TagInv /\ TagNext => TagInv'
<1> SUFFICES ASSUME TagInv, TagNext PROVE TagInv'
  OBVIOUS
<1>1. OperatorSetsTag \/ OperatorFormatsTag \/ HostReadsTag \/ HostStartsOver
  BY DEF TagNext
<1>2. CASE HostReadsTag
  <2>1. tag_type = "T1T" \/ tag_type = "T2T" \/ tag_type = "T3T" \/ tag_type = "T4T"
    BY DEF TagInv, TagTypes
  <2> QED
    BY <1>2, <2>1, ReadT1tInv, ReadT2tInv, ReadT3tInv, ReadT4tInv
<1> QED
  BY <1>1, <1>2, TagSetInv, TagFormatInv, TagOverInv

(* TagInv holds in every state. *)
THEOREM TagInvariant == DataSpec => []TagInv
<1>1. DataInit => TagInv
  BY TagInitInv DEF DataInit
<1>2. TagInv /\ [DataNext]_dataVars => TagInv'
  <2> SUFFICES ASSUME TagInv, [DataNext]_dataVars PROVE TagInv'
    OBVIOUS
  <2>1. CASE OnTag
    BY <2>1, TagStepInv DEF OnTag
  <2>2. CASE OnSnep
    BY <2>2, TagStutterInv DEF OnSnep
  <2>3. CASE OnConfig
    BY <2>3, TagStutterInv DEF OnConfig
  <2>4. CASE UNCHANGED dataVars
    BY <2>4, TagStutterInv DEF dataVars
  <2> QED
    BY <2>1, <2>2, <2>3, <2>4 DEF DataNext
<1> QED
  BY <1>1, <1>2, PTL DEF DataSpec

(* A finished reading has given the content. *)
LEMMA ReadGivesContent == TagInv /\ ReadDone => ContentRead = content
<1> SUFFICES ASSUME TagInv, ReadDone PROVE ContentRead = content
  OBVIOUS
<1>1. CASE tag_type = "T1T"
  <2>1. HeldT1t(mem, content) /\ GotT1t(mem, got) /\ Len(got) = 2
    BY <1>1 DEF TagInv, ReadDone
  <2>2. (IF SubSeq(got[2], 11, 14) # T1tCc THEN NoNdef
         ELSE IF SubSeq(got[2], 15, 122)[1] # TlvNdef THEN NoNdef
         ELSE Holds(SubSeq(SubSeq(got[2], 15, 122), 3, 2 + SubSeq(got[2], 15, 122)[2]))) = content
    BY <2>1, T1tContent
  <2> QED
    BY <1>1, <2>2 DEF ContentRead
<1>2. CASE tag_type = "T2T"
  <2> DEFINE b == SubSeq(GatheredOf(got, 1, 1), 17, 64)
  <2>1. HeldT2t(mem, content) /\ GotT2t(mem, got) /\ Len(got) = 4
    BY <1>2 DEF TagInv, ReadDone
  <2>2. (IF b[1] # TlvNdef THEN NoNdef ELSE Holds(SubSeq(b, 3, 2 + b[2]))) = content
    BY <2>1, T2tContent
  <2>3. b = SubSeq(Gathered(1, 1), 17, 64)
    BY DEF Gathered, GatheredOf
  <2> HIDE DEF b
  <2> QED
    BY <1>2, <2>2, <2>3 DEF ContentRead
<1>3. CASE tag_type = "T3T"
  <2>1. /\ HeldT3t(mem, content) /\ GotT3t(mem, got) /\ got # <<>>
        /\ Len(GatheredOf(got, 2, 1)) >= T3tLn
    BY <1>3 DEF TagInv, ReadDone, Gathered, GatheredOf
  <2>2. (IF Checksum(SubSeq(got[1], 1, AttrSize)) # T3tSum THEN NoNdef
         ELSE Holds(SubSeq(GatheredOf(got, 2, 1), 1, T3tLn))) = content
    BY <2>1, T3tContent DEF T3tSum, T3tLn
  <2> QED
    BY <1>3, <2>2 DEF ContentRead, Gathered, GatheredOf
<1>4. CASE tag_type = "T4T"
  <2>1. /\ HeldT4t(mem, content) /\ GotT4t(mem, content, got, t4t_file_sel)
        /\ got \in Seq(Seq(Nat))
    BY <1>4 DEF TagInv
  <2>2. GivesT4t(content, got) /\ Len(got) \in Nat
    BY <2>1, LenProperties, T4tContent
  <2>3. CASE Len(got) = 3 /\ got[3][8] # NdefFile
    BY <1>4, <2>2, <2>3 DEF GivesT4t, ContentRead
  <2>4. CASE Len(got) >= 5 /\ Len(Gathered(6, 2)) >= T4tNlen
    <3>1. /\ T4tNlen = Len(content.msg) /\ content = Holds(content.msg)
          /\ SubSeq(GatheredOf(got, 6, 2), 1, Len(content.msg)) = content.msg
      BY <2>2, <2>4 DEF GivesT4t, T4tNlen, Gathered, GatheredOf
    <3>2. SubSeq(Gathered(6, 2), 1, T4tNlen) = content.msg
      BY <3>1 DEF Gathered, GatheredOf
    <3>3. Len(got) # 3
      <4> DEFINE l == Len(got)
      <4>1. l \in Nat /\ l >= 5
        BY <2>2, <2>4
      <4> HIDE DEF l
      <4>2. l # 3
        BY <4>1
      <4> QED
        BY <4>2 DEF l
    <3>4. ContentRead = Holds(SubSeq(Gathered(6, 2), 1, T4tNlen))
      BY <1>4, <3>3 DEF ContentRead
    <3> QED
      BY <3>1, <3>2, <3>4
  <2> QED
    BY <1>4, <2>3, <2>4 DEF ReadDone
<1> QED
  BY <1>1, <1>2, <1>3, <1>4 DEF TagInv, TagTypes

(* Whatever messages the operator sets, clears or formats away, in whatever *)
(* order and with whatever readings given up before: a host that reads the *)
(* tag to the end finds the message set last, and no READ BINARY it sends  *)
(* fails the assertion of process_t4t_read_binary.                         *)
THEOREM ReadsWhatWasSetAlways == DataSpec => []ReadsWhatWasSet
<1>1. TagInv => ReadsWhatWasSet
  <2>1. TagInv => tag_end # "read"
    BY DEF TagInv
  <2> QED
    BY <2>1, ReadGivesContent DEF ReadsWhatWasSet
<1> QED
  BY <1>1, TagInvariant, PTL

===============================================================================
