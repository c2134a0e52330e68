--------------------------- MODULE SnepServerProofs ---------------------------
(***************************************************************************)
(* Proofs about the SNEP server and what it rests on: what encode_base64   *)
(* and decode_base64 do to every sequence of bytes, which bytes an NDEF    *)
(* message has and where, what the console shows of them, and what         *)
(* build_ndef_msg builds of what the operator types.                       *)
(***************************************************************************)
EXTENDS TagConfigProofs

(* The four characters of a group *)
GroupOf(x, y, z) ==
  LET w == (x * 256 + y) * 256 + z
  IN  /\ (w \div 64^3) % 64 = x \div 4
      /\ (w \div 64^2) % 64 = (x % 4) * 16 + y \div 16
      /\ (w \div 64^1) % 64 = (y % 16) * 4 + z \div 64
      /\ (w \div 64^0) % 64 = z % 64

(* A group of three bytes, cut into four characters. *)
LEMMA GroupCut ==
  ASSUME NEW x \in 0..255, NEW y \in 0..255, NEW z \in 0..255
  PROVE  GroupOf(x, y, z)
<1> DEFINE w == (x * 256 + y) * 256 + z
<1>1. (w \div 262144) % 64 = x \div 4
  OBVIOUS
<1>2. (w \div 4096) % 64 = (x % 4) * 16 + y \div 16
  <2>1. w \div 4096 = 16 * x + y \div 16
    OBVIOUS
  <2>2. PICK a \in 0..63, b \in 0..3 : x = 4 * a + b
    <3>1. x = 4 * (x \div 4) + (x % 4) /\ x \div 4 \in 0..63 /\ x % 4 \in 0..3
      OBVIOUS
    <3> QED
      BY <3>1
  <2>3. x % 4 = b
    BY <2>2
  <2>4. PICK c \in 0..15 : c = y \div 16
    OBVIOUS
  <2>5. 16 * x + c = 64 * a + (16 * b + c) /\ 16 * b + c \in 0..63
    BY <2>2
  <2>6. (16 * x + c) % 64 = 16 * b + c
    BY <2>5
  <2> QED
    BY <2>1, <2>3, <2>4, <2>6
<1>3. (w \div 64) % 64 = (y % 16) * 4 + z \div 64
  OBVIOUS
<1>4. (w \div 1) % 64 = z % 64
  OBVIOUS
<1>5. 64^3 = 262144 /\ 64^2 = 4096 /\ 64^1 = 64 /\ 64^0 = 1
  OBVIOUS
<1> HIDE DEF w
<1>6. /\ (w \div 64^3) % 64 = x \div 4
      /\ (w \div 64^2) % 64 = (x % 4) * 16 + y \div 16
      /\ (w \div 64^1) % 64 = (y % 16) * 4 + z \div 64
      /\ (w \div 64^0) % 64 = z % 64
  BY <1>1, <1>2, <1>3, <1>4, <1>5
<1> QED
  BY <1>6 DEF w, GroupOf

(* The g-th character of the Base64 of b *)
CharOf(b, g) == (Group(b, (g - 1) \div 4) \div 64^(3 - ((g - 1) % 4))) % 64

(* The bytes of b are bytes, and so are those behind it. *)
LEMMA ByteAtType ==
  ASSUME NEW b \in Seq(Byte), NEW i \in Nat
  PROVE  ByteAt(b, i) \in 0..255
<1>1. CASE i \in 1..Len(b)
  BY <1>1, ElementOfSeq DEF ByteAt, Byte
<1>2. CASE i \notin 1..Len(b)
  BY <1>2 DEF ByteAt
<1> QED
  BY <1>1, <1>2

(* The characters of the k-th group, from its bytes. *)
LEMMA CharsOfGroup ==
  ASSUME NEW b \in Seq(Byte), NEW k \in Nat
  PROVE  /\ CharOf(b, 4 * k + 1) = ByteAt(b, 3 * k + 1) \div 4
         /\ CharOf(b, 4 * k + 2) = (ByteAt(b, 3 * k + 1) % 4) * 16 + ByteAt(b, 3 * k + 2) \div 16
         /\ CharOf(b, 4 * k + 3) = (ByteAt(b, 3 * k + 2) % 16) * 4 + ByteAt(b, 3 * k + 3) \div 64
         /\ CharOf(b, 4 * k + 4) = ByteAt(b, 3 * k + 3) % 64
<1> DEFINE x == ByteAt(b, 3 * k + 1)  y == ByteAt(b, 3 * k + 2)  z == ByteAt(b, 3 * k + 3)
           w == (x * 256 + y) * 256 + z
           p0 == 64^0  p1 == 64^1  p2 == 64^2  p3 == 64^3
<1>1. x \in 0..255 /\ y \in 0..255 /\ z \in 0..255
  <2>1. 3 * k + 1 \in Nat /\ 3 * k + 2 \in Nat /\ 3 * k + 3 \in Nat
    OBVIOUS
  <2> QED
    BY <2>1, ByteAtType
<1>2. Group(b, k) = w
  BY DEF Group
<1>3. /\ ((4 * k + 1) - 1) \div 4 = k /\ ((4 * k + 1) - 1) % 4 = 0
      /\ ((4 * k + 2) - 1) \div 4 = k /\ ((4 * k + 2) - 1) % 4 = 1
      /\ ((4 * k + 3) - 1) \div 4 = k /\ ((4 * k + 3) - 1) % 4 = 2
      /\ ((4 * k + 4) - 1) \div 4 = k /\ ((4 * k + 4) - 1) % 4 = 3
  OBVIOUS
<1>4. 3 - 0 = 3 /\ 3 - 1 = 2 /\ 3 - 2 = 1 /\ 3 - 3 = 0
  OBVIOUS
<1>5. 64^3 = p3 /\ 64^2 = p2 /\ 64^1 = p1 /\ 64^0 = p0
  OBVIOUS
<1>6. w \in Nat
  <2> HIDE DEF x, y, z
  <2> QED
    BY <1>1
<1>7. /\ (w \div p3) % 64 = x \div 4
      /\ (w \div p2) % 64 = (x % 4) * 16 + y \div 16
      /\ (w \div p1) % 64 = (y % 16) * 4 + z \div 64
      /\ (w \div p0) % 64 = z % 64
  <2>1. GroupOf(x, y, z)
    <3> HIDE DEF x, y, z
    <3> QED
      BY <1>1, GroupCut, Zenon
  <2> HIDE DEF x, y, z
  <2> QED
    BY <1>1, <2>1 DEF GroupOf
<1> HIDE DEF w, p0, p1, p2, p3
<1>8. /\ CharOf(b, 4 * k + 1) = (w \div p3) % 64
      /\ CharOf(b, 4 * k + 2) = (w \div p2) % 64
      /\ CharOf(b, 4 * k + 3) = (w \div p1) % 64
      /\ CharOf(b, 4 * k + 4) = (w \div p0) % 64
  BY <1>2, <1>3, <1>4, <1>5 DEF CharOf
<1> QED
  BY <1>7, <1>8

(* t is the first l characters of the Base64 of b. *)
IsText(b, t, l) ==
  t \in Seq(Sextet) /\ Len(t) = l /\ \A g \in 1..l : t[g] = CharOf(b, g)

(* The next character makes it one longer. *)
LEMMA TextAppend ==
  ASSUME NEW b, NEW l \in Nat, NEW t, IsText(b, t, l),
         NEW c \in Sextet, c = CharOf(b, l + 1)
  PROVE  IsText(b, Append(t, c), l + 1)
<1> DEFINE u == Append(t, c)
<1>1. t \in Seq(Sextet) /\ Len(t) = l
  BY DEF IsText
<1>2. u \in Seq(Sextet) /\ Len(u) = l + 1 /\ (\A g \in 1..l : u[g] = t[g]) /\ u[l + 1] = c
  BY <1>1, AppendProperties
<1> HIDE DEF u
<1>3. ASSUME NEW g \in 1..(l + 1) PROVE u[g] = CharOf(b, g)
  <2>1. CASE g = l + 1
    BY <1>2, <2>1
  <2>2. CASE g # l + 1
    <3>1. g \in 1..l
      BY <2>2
    <3> QED
      BY <1>2, <3>1 DEF IsText
  <2> QED
    BY <2>1, <2>2
<1> QED
  BY <1>2, <1>3 DEF IsText, u

------------------------------------------------------------------------------
EncState == [text : Seq(Sextet), rest : Sextet, shift : {0, 2, 4, 6}]

(* What encode_base64 has of b after i bytes; a group is done when the     *)
(* next begins.                                                            *)
EncGood(b, i, e) ==
  \/ i = 0 /\ IsText(b, e.text, 0) /\ e.rest = 0 /\ e.shift = 2
  \/ \E k \in Nat :
       \/ i = 3 * k + 1 /\ IsText(b, e.text, 4 * k + 1) /\ e.shift = 4
                        /\ e.rest = (b[i] % 4) * 16
       \/ i = 3 * k + 2 /\ IsText(b, e.text, 4 * k + 2) /\ e.shift = 6
                        /\ e.rest = (b[i] % 16) * 4
       \/ i = 3 * k + 3 /\ IsText(b, e.text, 4 * k + 3) /\ e.shift = 0
                        /\ e.rest = b[i] % 64

(* Where a group begins, nothing is left of the one before. *)
LEMMA FlushedGood ==
  ASSUME NEW b \in Seq(Byte), NEW k \in Nat, NEW e \in EncState, 3 * k <= Len(b),
         EncGood(b, 3 * k, e)
  PROVE  /\ IsText(b, Flushed(e).text, 4 * k)
         /\ Flushed(e).rest = 0 /\ Flushed(e).shift = 2
<1>1. CASE k = 0
  <2>1. 3 * k = 0 /\ \A j \in Nat : 3 * k # 3 * j + 1 /\ 3 * k # 3 * j + 2 /\ 3 * k # 3 * j + 3
    BY <1>1
  <2>2. IsText(b, e.text, 0) /\ e.rest = 0 /\ e.shift = 2
    BY <2>1 DEF EncGood
  <2>3. Flushed(e) = e
    BY <2>2 DEF Flushed
  <2>4. 4 * k = 0
    BY <1>1
  <2> QED
    BY <2>2, <2>3, <2>4
<1>2. CASE k # 0
  <2>1. PICK j \in Nat : j = k - 1
    BY <1>2
  <2>2. /\ 3 * k # 0 /\ 3 * k = 3 * j + 3 /\ 4 * k = (4 * j + 3) + 1
        /\ \A m \in Nat : /\ 3 * k # 3 * m + 1 /\ 3 * k # 3 * m + 2
                          /\ 3 * k = 3 * m + 3 => m = j
    BY <1>2, <2>1
  <2>3. IsText(b, e.text, 4 * j + 3) /\ e.shift = 0 /\ e.rest = b[3 * k] % 64
    BY <2>2 DEF EncGood
  <2>4. 3 * j + 3 \in 1..Len(b)
    <3>1. Len(b) \in Nat
      BY LenProperties
    <3> HIDE DEF Sextet
    <3> QED
      BY <2>1, <2>2, <3>1
  <2>5. ByteAt(b, 3 * j + 3) = b[3 * k]
    BY <2>2, <2>4 DEF ByteAt
  <2>6. CharOf(b, (4 * j + 3) + 1) = b[3 * k] % 64
    <3>1. (4 * j + 3) + 1 = 4 * j + 4
      BY <2>1
    <3>2. CharOf(b, 4 * j + 4) = ByteAt(b, 3 * j + 3) % 64
      BY CharsOfGroup
    <3> QED
      BY <2>5, <3>1, <3>2
  <2>7. Flushed(e) = [text |-> Append(e.text, e.rest), rest |-> 0, shift |-> 2]
    BY <2>3 DEF Flushed
  <2>8. e.rest \in Sextet
    BY DEF EncState
  <2>9. IsText(b, Append(e.text, e.rest), (4 * j + 3) + 1)
    <3> DEFINE l == 4 * j + 3  t == e.text  c == e.rest
    <3>1. l \in Nat /\ IsText(b, t, l) /\ c \in Sextet /\ c = CharOf(b, l + 1)
      BY <2>3, <2>6, <2>8
    <3> HIDE DEF l, t, c
    <3>2. IsText(b, Append(t, c), l + 1)
      BY <3>1, TextAppend
    <3> QED
      BY <3>2 DEF l, t, c
  <2> QED
    BY <2>2, <2>7, <2>9
<1> QED
  BY <1>1, <1>2

(* A byte is encoded as it is to be. *)
LEMMA EncodedGood ==
  ASSUME NEW b \in Seq(Byte), NEW i \in 1..Len(b), NEW e \in EncState, EncGood(b, i - 1, e)
  PROVE  Encoded(Flushed(e), b[i]) \in EncState /\ EncGood(b, i, Encoded(Flushed(e), b[i]))
<1> DEFINE c == b[i]  f == Encoded(Flushed(e), c)
<1>1. c \in 0..255 /\ Len(b) \in Nat
  BY LenProperties, ElementOfSeq DEF Byte
<1>2. PICK k \in Nat : i = 3 * k + 1 \/ i = 3 * k + 2 \/ i = 3 * k + 3
  <2> HIDE DEF c, f
  <2>1. LET k == (i - 1) \div 3
        IN  k \in Nat /\ (i = 3 * k + 1 \/ i = 3 * k + 2 \/ i = 3 * k + 3)
    BY <1>1
  <2> QED
    BY <2>1
<1> DEFINE t == Flushed(e).text  rest == Flushed(e).rest
<1>3. CASE i = 3 * k + 1
  <2>1. 3 * k = i - 1 /\ 3 * k <= Len(b)
    BY <1>1, <1>3
  <2>2. IsText(b, t, 4 * k) /\ rest = 0 /\ Flushed(e).shift = 2
    BY <2>1, FlushedGood
  <2>3. f = [text |-> Append(t, 0 + c \div 4), rest |-> (c % 4) * 16, shift |-> 4]
    <3>1. 2 + 2 = 4 /\ 4 % 8 = 4 /\ 6 - 2 = 4
      OBVIOUS
    <3>2. 2^2 = 4 /\ 2^4 = 16
      OBVIOUS
    <3> HIDE DEF c, t
    <3> QED
      BY <2>2, <3>1, <3>2, Zenon DEF Encoded, f, t
  <2>4. 0 + c \div 4 \in Sextet /\ (c % 4) * 16 \in Sextet
    <3> HIDE DEF c
    <3> QED
      BY <1>1 DEF Sextet
  <2>5. 0 + c \div 4 = CharOf(b, 4 * k + 1)
    <3>1. ByteAt(b, 3 * k + 1) = c
      BY <1>3 DEF ByteAt
    <3>2. c \div 4 = CharOf(b, 4 * k + 1)
      BY <3>1, CharsOfGroup
    <3> HIDE DEF c
    <3> QED
      BY <1>1, <3>2
  <2> DEFINE l == 4 * k  s == 0 + c \div 4
  <2>6. IsText(b, Append(t, s), l + 1)
    <3>1. l \in Nat /\ IsText(b, t, l) /\ s \in Sextet /\ s = CharOf(b, l + 1)
      BY <2>2, <2>4, <2>5
    <3> HIDE DEF l, s, t
    <3> QED
      BY <3>1, TextAppend
  <2>7. f.text = Append(t, s) /\ f.rest = (c % 4) * 16 /\ f.shift = 4
    BY <2>3
  <2>8. f \in EncState
    <3>1. Append(t, s) \in Seq(Sextet)
      BY <2>6 DEF IsText
    <3> HIDE DEF c, t, s
    <3> QED
      BY <2>3, <2>4, <3>1 DEF EncState, s
  <2>9. EncGood(b, i, f)
    <3> HIDE DEF t, f
    <3> QED
      BY <1>3, <2>6, <2>7 DEF EncGood
  <2> QED
    BY <2>8, <2>9
<1>4. CASE i = 3 * k + 2
  <2>1. i - 1 = 3 * k + 1 /\ i - 1 \in 1..Len(b)
    BY <1>1, <1>4
  <2>2. IsText(b, e.text, 4 * k + 1) /\ e.shift = 4 /\ e.rest = (b[i - 1] % 4) * 16
    <3>1. /\ 3 * k + 1 # 0
          /\ \A j \in Nat : /\ 3 * k + 1 # 3 * j + 2 /\ 3 * k + 1 # 3 * j + 3
                            /\ 3 * k + 1 = 3 * j + 1 => j = k
      OBVIOUS
    <3> QED
      BY <2>1, <3>1 DEF EncGood
  <2> DEFINE d == b[i - 1]  s == (d % 4) * 16 + c \div 16  l == 4 * k + 1  u == e.text
  <2>3. d \in 0..255
    BY <2>1, ElementOfSeq DEF Byte
  <2>4. f = [text |-> Append(u, s), rest |-> (c % 16) * 4, shift |-> 6]
    <3>1. 4 + 2 = 6 /\ 6 % 8 = 6 /\ 6 - 4 = 2 /\ 4 # 0
      OBVIOUS
    <3>2. 2^4 = 16 /\ 2^2 = 4
      OBVIOUS
    <3>3. Flushed(e) = e
      BY <2>2, <3>1 DEF Flushed
    <3> HIDE DEF c, d
    <3> QED
      BY <2>2, <3>1, <3>2, <3>3, Zenon DEF Encoded, f, s, u, d
  <2>5. s \in Sextet /\ (c % 16) * 4 \in Sextet /\ (c % 16) * 4 = (c % 16) * 4
    <3> HIDE DEF c, d
    <3> QED
      BY <1>1, <2>3 DEF Sextet
  <2>6. s = CharOf(b, l + 1)
    <3>1. ByteAt(b, 3 * k + 1) = d /\ ByteAt(b, 3 * k + 2) = c
      BY <1>4, <2>1 DEF ByteAt
    <3>2. CharOf(b, 4 * k + 2) = (ByteAt(b, 3 * k + 1) % 4) * 16 + ByteAt(b, 3 * k + 2) \div 16
      BY CharsOfGroup
    <3>3. (4 * k + 1) + 1 = 4 * k + 2
      OBVIOUS
    <3> HIDE DEF c, d
    <3> QED
      BY <3>1, <3>2, <3>3
  <2>7. IsText(b, Append(u, s), l + 1) /\ l + 1 = 4 * k + 2
    <3>1. l \in Nat /\ IsText(b, u, l) /\ l + 1 = 4 * k + 2
      BY <2>2
    <3>2. s \in Sextet /\ s = CharOf(b, l + 1)
      BY <2>5, <2>6
    <3> HIDE DEF l, s, u
    <3> QED
      BY <3>1, <3>2, TextAppend
  <2>8. f.text = Append(u, s) /\ f.rest = (c % 16) * 4 /\ f.shift = 6
    <3> HIDE DEF f, c, s, u
    <3> QED
      BY <2>4, <2>5
  <2>9. f \in EncState
    <3>1. Append(u, s) \in Seq(Sextet)
      BY <2>7 DEF IsText
    <3> HIDE DEF f, c, u, s
    <3> QED
      BY <2>4, <2>5, <3>1 DEF EncState
  <2>10. EncGood(b, i, f)
    <3>1. IsText(b, f.text, 4 * k + 2)
      BY <2>7, <2>8
    <3> HIDE DEF f, s, u, l
    <3> QED
      BY <1>4, <2>8, <3>1 DEF EncGood
  <2> QED
    BY <2>9, <2>10
<1>5. CASE i = 3 * k + 3
  <2>1. i - 1 = 3 * k + 2 /\ i - 1 \in 1..Len(b)
    BY <1>1, <1>5
  <2>2. IsText(b, e.text, 4 * k + 2) /\ e.shift = 6 /\ e.rest = (b[i - 1] % 16) * 4
    <3>1. /\ 3 * k + 2 # 0
          /\ \A j \in Nat : /\ 3 * k + 2 # 3 * j + 3 /\ 3 * k + 2 # 3 * j + 1
                            /\ 3 * k + 2 = 3 * j + 2 => j = k
      OBVIOUS
    <3> QED
      BY <2>1, <3>1 DEF EncGood
  <2> DEFINE d == b[i - 1]  s == (d % 16) * 4 + c \div 64  l == 4 * k + 2  u == e.text
  <2>3. d \in 0..255
    BY <2>1, ElementOfSeq DEF Byte
  <2>4. f = [text |-> Append(u, s), rest |-> (c % 64) * 1, shift |-> 0]
    <3>1. 6 + 2 = 8 /\ 8 % 8 = 0 /\ 6 - 6 = 0 /\ 6 # 0
      OBVIOUS
    <3>2. 2^6 = 64 /\ 2^0 = 1
      OBVIOUS
    <3>3. Flushed(e) = e
      BY <2>2, <3>1 DEF Flushed
    <3> HIDE DEF c, d
    <3> QED
      BY <2>2, <3>1, <3>2, <3>3, ZenonT(60) DEF Encoded, f, s, u, d
  <2>5. s \in Sextet /\ (c % 64) * 1 \in Sextet /\ (c % 64) * 1 = c % 64
    <3> HIDE DEF c, d
    <3> QED
      BY <1>1, <2>3 DEF Sextet
  <2>6. s = CharOf(b, l + 1)
    <3>1. ByteAt(b, 3 * k + 2) = d /\ ByteAt(b, 3 * k + 3) = c
      BY <1>5, <2>1 DEF ByteAt
    <3>2. CharOf(b, 4 * k + 3) = (ByteAt(b, 3 * k + 2) % 16) * 4 + ByteAt(b, 3 * k + 3) \div 64
      BY CharsOfGroup
    <3>3. (4 * k + 2) + 1 = 4 * k + 3
      OBVIOUS
    <3> HIDE DEF c, d
    <3> QED
      BY <3>1, <3>2, <3>3
  <2>7. IsText(b, Append(u, s), l + 1) /\ l + 1 = 4 * k + 3
    <3>1. l \in Nat /\ IsText(b, u, l) /\ l + 1 = 4 * k + 3
      BY <2>2
    <3>2. s \in Sextet /\ s = CharOf(b, l + 1)
      BY <2>5, <2>6
    <3> HIDE DEF l, s, u
    <3> QED
      BY <3>1, <3>2, TextAppend
  <2>8. f.text = Append(u, s) /\ f.rest = c % 64 /\ f.shift = 0
    <3> HIDE DEF f, c, s, u
    <3> QED
      BY <2>4, <2>5
  <2>9. f \in EncState
    <3>1. Append(u, s) \in Seq(Sextet)
      BY <2>7 DEF IsText
    <3> HIDE DEF f, c, u, s
    <3> QED
      BY <2>4, <2>5, <3>1 DEF EncState
  <2>10. EncGood(b, i, f)
    <3>1. IsText(b, f.text, 4 * k + 3)
      BY <2>7, <2>8
    <3> HIDE DEF f, s, u, l
    <3> QED
      BY <1>5, <2>8, <3>1 DEF EncGood
  <2> QED
    BY <2>9, <2>10
<1> QED
  BY <1>2, <1>3, <1>4, <1>5

(* What encode_base64 has after the last byte. *)
LEMMA EncodeEnd ==
  ASSUME NEW b \in Seq(Byte)
  PROVE  \E e \in EncState :
           /\ EncGood(b, Len(b), e)
           /\ LET text == IF e.rest # 0 THEN Append(e.text, e.rest) ELSE e.text
              IN  EncodeBase64(b) = text \o Padding(text)
<1> DEFINE n == Len(b)
           base == [text |-> <<>>, rest |-> 0, shift |-> 2]
           D == [i \in 0..n |-> {e \in EncState : EncGood(b, i, e)}]
           step == [x \in (1..n) \X EncState |-> Encoded(Flushed(x[2]), b[x[1]])]
           Is(F) == F = [i \in 0..n |-> IF i = 0 THEN base ELSE Encoded(Flushed(F[i - 1]), b[i])]
           G == CHOOSE F : Is(F)
<1>1. n \in Nat
  BY LenProperties
<1>2. base \in EncState /\ EncGood(b, 0, base)
  <2>1. <<>> \in Seq(Sextet) /\ Len(<<>>) = 0
    BY EmptySeq
  <2>2. IsText(b, <<>>, 0)
    BY <2>1 DEF IsText
  <2>3. 0 \in Sextet
    BY DEF Sextet
  <2> QED
    BY <2>1, <2>2, <2>3 DEF EncState, EncGood
<1> HIDE DEF base
<1>3. \A i \in 1..n : \A e \in D[i - 1] :
         e \in EncState /\ step[<<i, e>>] = Encoded(Flushed(e), b[i]) /\ step[<<i, e>>] \in D[i]
  <2> TAKE i \in 1..n
  <2>1. i \in 0..n /\ i - 1 \in 0..n
    BY <1>1
  <2> TAKE e \in D[i - 1]
  <2>2. e \in EncState /\ EncGood(b, i - 1, e)
    BY <2>1
  <2>3. Encoded(Flushed(e), b[i]) \in EncState /\ EncGood(b, i, Encoded(Flushed(e), b[i]))
    BY <2>2, EncodedGood
  <2>4. step[<<i, e>>] = Encoded(Flushed(e), b[i])
    BY <2>2
  <2>5. D[i] = {v \in EncState : EncGood(b, i, v)}
    BY <2>1
  <2> HIDE DEF step, D
  <2> QED
    BY <2>2, <2>3, <2>4, <2>5
<1> HIDE DEF step
<1>4. PICK f : Recursion(f, n, base, step, D)
  <2>1. base \in D[0]
    BY <1>1, <1>2
  <2>2. \A i \in 1..n : \A v \in D[i - 1] : step[<<i, v>>] \in D[i]
    BY <1>3
  <2> HIDE DEF D, n
  <2> QED
    BY <1>1, <2>1, <2>2, RecursionExists
<1>5. f = [i \in 0..n |-> f[i]] /\ f[0] = base /\ \A i \in 0..n : f[i] \in D[i]
  BY <1>4 DEF Recursion
<1> HIDE DEF D
<1>6. ASSUME NEW i \in 1..n PROVE f[i] = Encoded(Flushed(f[i - 1]), b[i])
  <2>1. i - 1 \in 0..n
    BY <1>1
  <2>2. f[i - 1] \in D[i - 1]
    BY <1>5, <2>1
  <2>3. f[i] = step[<<i, f[i - 1]>>]
    BY <1>4 DEF Recursion
  <2> QED
    BY <1>3, <2>2, <2>3
<1>7. Is(f)
  <2>1. ASSUME NEW i \in 0..n
        PROVE  f[i] = IF i = 0 THEN base ELSE Encoded(Flushed(f[i - 1]), b[i])
    <3>1. CASE i = 0
      BY <1>5, <3>1
    <3>2. CASE i # 0
      <4>1. i \in 1..n
        BY <1>1, <3>2
      <4> HIDE DEF n
      <4> QED
        BY <1>6, <3>2, <4>1, Zenon
    <3> QED
      BY <3>1, <3>2
  <2> HIDE DEF n
  <2> QED
    BY <1>5, <2>1, Zenon
<1>8. Is(G)
  <2> HIDE DEF Is
  <2> QED
    BY <1>7
<1>9. LET text == IF G[n].rest # 0 THEN Append(G[n].text, G[n].rest) ELSE G[n].text
      IN  EncodeBase64(b) = text \o Padding(text)
  BY DEF EncodeBase64, base
<1> HIDE DEF G
<1>10. G[0] = base /\ \A i \in 1..n : G[i] = Encoded(Flushed(G[i - 1]), b[i])
  BY <1>1, <1>8
<1>11. \A i \in 0..n : f[i] = G[i]
  <2>1. StepAlike(f, G, n)
    BY <1>5, <1>6, <1>10 DEF StepAlike
  <2>2. Alike(f, G, n)
    BY <1>1, <2>1, RecursionUnique
  <2> HIDE DEF n
  <2> QED
    BY <2>2 DEF Alike
<1>12. G[n] \in EncState /\ EncGood(b, n, G[n])
  <2>1. n \in 0..n /\ f[n] = G[n]
    BY <1>1, <1>11
  <2>2. D[n] = {e \in EncState : EncGood(b, n, e)}
    BY <2>1 DEF D
  <2> HIDE DEF n
  <2> QED
    BY <1>5, <2>1, <2>2
<1> HIDE DEF n
<1> QED
  BY <1>9, <1>12 DEF n

(* Characters of the Base64 of b are of the alphabet. *)
LEMMA CharOfType ==
  ASSUME NEW b \in Seq(Byte), NEW g \in Nat \ {0}
  PROVE  CharOf(b, g) \in Sextet
<1>1. PICK k \in Nat : g = 4 * k + 1 \/ g = 4 * k + 2 \/ g = 4 * k + 3 \/ g = 4 * k + 4
  <2>1. LET k == (g - 1) \div 4
        IN  k \in Nat /\ (g = 4 * k + 1 \/ g = 4 * k + 2 \/ g = 4 * k + 3 \/ g = 4 * k + 4)
    OBVIOUS
  <2> QED
    BY <2>1
<1> DEFINE x == ByteAt(b, 3 * k + 1)  y == ByteAt(b, 3 * k + 2)  z == ByteAt(b, 3 * k + 3)
<1>2. x \in 0..255 /\ y \in 0..255 /\ z \in 0..255
  <2>1. 3 * k + 1 \in Nat /\ 3 * k + 2 \in Nat /\ 3 * k + 3 \in Nat
    OBVIOUS
  <2> QED
    BY <2>1, ByteAtType
<1>3. /\ CharOf(b, 4 * k + 1) = x \div 4
      /\ CharOf(b, 4 * k + 2) = (x % 4) * 16 + y \div 16
      /\ CharOf(b, 4 * k + 3) = (y % 16) * 4 + z \div 64
      /\ CharOf(b, 4 * k + 4) = z % 64
  BY CharsOfGroup
<1> HIDE DEF x, y, z
<1>4. /\ x \div 4 \in Sextet /\ (x % 4) * 16 + y \div 16 \in Sextet
      /\ (y % 16) * 4 + z \div 64 \in Sextet /\ z % 64 \in Sextet
  BY <1>2 DEF Sextet
<1> QED
  BY <1>1, <1>3, <1>4

(* RfcChars are all characters of the Base64 of b. *)
LEMMA RfcCharsText ==
  ASSUME NEW b \in Seq(Byte), NEW l, l = (8 * Len(b) + 5) \div 6
  PROVE  l \in Nat /\ IsText(b, RfcChars(b), l)
<1> DEFINE n == Len(b)  m == (8 * n + 5) \div 6
<1>1. n \in Nat
  BY LenProperties
<1> HIDE DEF n
<1>2. m \in Nat
  BY <1>1
<1>3. l = m
  BY DEF n
<1> DEFINE c == [g \in 1..m |-> CharOf(b, g)]
<1>4. c = RfcChars(b)
  BY DEF RfcChars, CharOf, n
<1> HIDE DEF m
<1>5. \A g \in 1..m : CharOf(b, g) \in Sextet
  BY CharOfType
<1>6. c \in Seq(Sextet) /\ Len(c) = m /\ \A g \in 1..m : c[g] = CharOf(b, g)
  BY <1>2, <1>5
<1> HIDE DEF c
<1> QED
  BY <1>2, <1>3, <1>4, <1>6 DEF IsText

(* Two texts of the same length are the same. *)
LEMMA TextUnique ==
  ASSUME NEW b, NEW l, NEW t, NEW u, IsText(b, t, l), IsText(b, u, l)
  PROVE  t = u
BY SeqEqual DEF IsText

(* All but the last character *)
LEMMA TextFront ==
  ASSUME NEW b, NEW l \in Nat, NEW t, IsText(b, t, l + 1)
  PROVE  IsText(b, Front(t), l) /\ t # <<>> /\ t[Len(t)] = CharOf(b, l + 1)
<1>1. t \in Seq(Sextet) /\ Len(t) = l + 1 /\ \A g \in 1..(l + 1) : t[g] = CharOf(b, g)
  BY DEF IsText
<1>2. t # <<>>
  BY <1>1, EmptySeq
<1>3. (l + 1) - 1 = l /\ l + 1 \in 1..(l + 1) /\ \A g \in 1..l : g \in 1..(l + 1) /\ 1 + g - 1 = g
  OBVIOUS
<1>4. Front(t) = SubSeq(t, 1, l)
  BY <1>1, <1>3 DEF Front
<1>5. \A g \in 1..l : t[g] \in Sextet
  BY <1>1, <1>3, ElementOfSeq
<1> DEFINE u == SubSeq(t, 1, l)
<1>6. u \in Seq(Sextet) /\ Len(u) = l /\ \A g \in 1..l : u[g] = t[g]
  <2>1. /\ u \in Seq(Sextet) /\ Len(u) = IF 1 <= l THEN l - 1 + 1 ELSE 0
        /\ \A g \in 1..(l - 1 + 1) : u[g] = t[1 + g - 1]
    BY <1>5, SubSeqProperties
  <2> HIDE DEF u
  <2> QED
    BY <1>3, <2>1
<1> HIDE DEF u
<1>7. IsText(b, u, l)
  BY <1>1, <1>3, <1>6 DEF IsText
<1> QED
  BY <1>1, <1>2, <1>3, <1>4, <1>7 DEF u

(* encode_base64 computes the Base64 of its input but for a last character *)
(* of which all bits are zero.                                             *)
THEOREM EncodeIsTextOf ==
  ASSUME NEW b \in Seq(Byte)
  PROVE  EncodeBase64(b) = TextOf(b)
<1> DEFINE n == Len(b)  m == (8 * n + 5) \div 6  chars == RfcChars(b)
           kept == IF chars # <<>> /\ chars[Len(chars)] = 0 THEN Front(chars) ELSE chars
<1>1. n \in Nat /\ m \in Nat /\ IsText(b, chars, m)
  BY LenProperties, RfcCharsText
<1>2. PICK e \in EncState :
         /\ EncGood(b, n, e)
         /\ LET text == IF e.rest # 0 THEN Append(e.text, e.rest) ELSE e.text
            IN  EncodeBase64(b) = text \o Padding(text)
  BY EncodeEnd
<1> DEFINE text == IF e.rest # 0 THEN Append(e.text, e.rest) ELSE e.text
<1>3. EncodeBase64(b) = text \o Padding(text) /\ TextOf(b) = kept \o Padding(kept)
  BY <1>2 DEF TextOf
<1>4. CASE n = 0
  <2>1. \A k \in Nat : n # 3 * k + 1 /\ n # 3 * k + 2 /\ n # 3 * k + 3
    <3> HIDE DEF n
    <3> QED
      BY <1>4
  <2>2. IsText(b, e.text, 0) /\ e.rest = 0
    BY <1>2, <2>1 DEF EncGood
  <2>3. m = 0
    <3> HIDE DEF n
    <3> QED
      BY <1>4
  <2>4. e.text = chars
    <3> HIDE DEF chars, m
    <3> QED
      BY <1>1, <2>2, <2>3, TextUnique
  <2>5. chars = <<>>
    <3>1. chars \in Seq(Sextet) /\ Len(chars) = 0
      BY <1>1, <2>3 DEF IsText
    <3> HIDE DEF chars
    <3> QED
      BY <3>1, EmptySeq
  <2>6. text = kept
    <3> HIDE DEF chars
    <3> QED
      BY <2>2, <2>4, <2>5
  <2> HIDE DEF text, kept
  <2> QED
    BY <1>3, <2>6
<1>5. CASE n # 0
  <2>1. PICK l \in Nat : m = l + 1 /\ IsText(b, e.text, l) /\ e.rest = CharOf(b, l + 1)
    <3>1. PICK k \in Nat :
            \/ n = 3 * k + 1 /\ IsText(b, e.text, 4 * k + 1) /\ e.rest = (b[n] % 4) * 16
            \/ n = 3 * k + 2 /\ IsText(b, e.text, 4 * k + 2) /\ e.rest = (b[n] % 16) * 4
            \/ n = 3 * k + 3 /\ IsText(b, e.text, 4 * k + 3) /\ e.rest = b[n] % 64
      BY <1>2, <1>5 DEF EncGood
    <3> DEFINE c == b[n]
    <3>2. n \in 1..n /\ c \in 0..255
      <4>1. n \in 1..n
        BY <1>1, <1>5
      <4> QED
        BY <4>1, ElementOfSeq DEF Byte
    <3>3. ByteAt(b, n) = c /\ ByteAt(b, n + 1) = 0
      <4>1. n + 1 \notin 1..n
        BY <1>1
      <4> QED
        BY <3>2, <4>1 DEF ByteAt
    <3> HIDE DEF n, c
    <3>4. CASE n = 3 * k + 1 /\ IsText(b, e.text, 4 * k + 1) /\ e.rest = (b[n] % 4) * 16
      <4>1. m = (4 * k + 1) + 1 /\ n + 1 = 3 * k + 2 /\ (4 * k + 1) + 1 = 4 * k + 2
        BY <3>4
      <4>2. CharOf(b, 4 * k + 2) = (c % 4) * 16 + 0 \div 16
        <5>1. ByteAt(b, 3 * k + 1) = c /\ ByteAt(b, 3 * k + 2) = 0
          BY <3>3, <3>4, <4>1
        <5>2. CharOf(b, 4 * k + 2) = (ByteAt(b, 3 * k + 1) % 4) * 16 + ByteAt(b, 3 * k + 2) \div 16
          BY CharsOfGroup
        <5> QED
          BY <5>1, <5>2
      <4>3. e.rest = CharOf(b, (4 * k + 1) + 1)
        <5>1. e.rest = (c % 4) * 16
          BY <3>4 DEF c
        <5>2. (c % 4) * 16 + 0 \div 16 = (c % 4) * 16
          BY <3>2
        <5> QED
          BY <4>1, <4>2, <5>1, <5>2
      <4> QED
        BY <3>4, <4>1, <4>3
    <3>5. CASE n = 3 * k + 2 /\ IsText(b, e.text, 4 * k + 2) /\ e.rest = (b[n] % 16) * 4
      <4>1. m = (4 * k + 2) + 1 /\ n + 1 = 3 * k + 3 /\ (4 * k + 2) + 1 = 4 * k + 3
        BY <3>5
      <4>2. CharOf(b, 4 * k + 3) = (c % 16) * 4 + 0 \div 64
        <5>1. ByteAt(b, 3 * k + 2) = c /\ ByteAt(b, 3 * k + 3) = 0
          BY <3>3, <3>5, <4>1
        <5>2. CharOf(b, 4 * k + 3) = (ByteAt(b, 3 * k + 2) % 16) * 4 + ByteAt(b, 3 * k + 3) \div 64
          BY CharsOfGroup
        <5> QED
          BY <5>1, <5>2
      <4>3. e.rest = CharOf(b, (4 * k + 2) + 1)
        <5>1. e.rest = (c % 16) * 4
          BY <3>5 DEF c
        <5>2. (c % 16) * 4 + 0 \div 64 = (c % 16) * 4
          BY <3>2
        <5> QED
          BY <4>1, <4>2, <5>1, <5>2
      <4> QED
        BY <3>5, <4>1, <4>3
    <3>6. CASE n = 3 * k + 3 /\ IsText(b, e.text, 4 * k + 3) /\ e.rest = b[n] % 64
      <4>1. m = (4 * k + 3) + 1 /\ (4 * k + 3) + 1 = 4 * k + 4
        BY <3>6
      <4>2. CharOf(b, 4 * k + 4) = c % 64
        <5>1. ByteAt(b, 3 * k + 3) = c
          BY <3>3, <3>6
        <5>2. CharOf(b, 4 * k + 4) = ByteAt(b, 3 * k + 3) % 64
          BY CharsOfGroup
        <5> QED
          BY <5>1, <5>2
      <4>3. e.rest = CharOf(b, (4 * k + 3) + 1)
        BY <3>6, <4>1, <4>2 DEF c
      <4> QED
        BY <3>6, <4>1, <4>3
    <3> QED
      BY <3>1, <3>4, <3>5, <3>6
  <2>2. IsText(b, Front(chars), l) /\ chars # <<>> /\ chars[Len(chars)] = e.rest
    <3>1. IsText(b, chars, l + 1)
      BY <1>1, <2>1
    <3> HIDE DEF chars
    <3> QED
      BY <2>1, <3>1, TextFront
  <2>3. CASE e.rest = 0
    <3>1. e.text = Front(chars)
      <4> HIDE DEF chars
      <4> QED
        BY <2>1, <2>2, TextUnique
    <3>2. text = kept
      <4> HIDE DEF chars
      <4> QED
        BY <2>2, <2>3, <3>1
    <3> HIDE DEF text, kept
    <3> QED
      BY <1>3, <3>2
  <2>4. CASE e.rest # 0
    <3>1. Append(e.text, e.rest) = chars
      <4> DEFINE t == e.text  c == e.rest
      <4>1. c \in Sextet /\ IsText(b, t, l) /\ c = CharOf(b, l + 1)
        BY <2>1 DEF EncState
      <4>2. IsText(b, chars, l + 1)
        BY <1>1, <2>1
      <4> HIDE DEF t, c, chars
      <4>3. IsText(b, Append(t, c), l + 1)
        BY <4>1, TextAppend
      <4>4. Append(t, c) = chars
        BY <4>2, <4>3, TextUnique
      <4> QED
        BY <4>4 DEF t, c
    <3>2. text = kept
      <4> HIDE DEF chars
      <4> QED
        BY <2>2, <2>4, <3>1
    <3> HIDE DEF text, kept
    <3> QED
      BY <1>3, <3>2
  <2> QED
    BY <2>3, <2>4
<1> QED
  BY <1>4, <1>5


(* The first byte of a record says what the accessors ask of it. *)
LEMMA FlagFacts ==
  ASSUME NEW f \in SUBSET FlagBits, NEW t \in Tnfs
  PROVE  LET b == FlagByte(f) + t
         IN  /\ b \in 0..255 /\ Tnf(b) = t
             /\ SR \in Flags(b) <=> SR \in f
             /\ IL \in Flags(b) <=> IL \in f
<1>1. PICK a \in 0..1, e \in 0..1, c \in 0..1, s \in 0..1, i \in 0..1 :
        /\ FlagByte(f) = 128 * a + 64 * e + 32 * c + 16 * s + 8 * i
        /\ s = 1 <=> SR \in f
        /\ i = 1 <=> IL \in f
  <2> DEFINE On(x) == IF x \in f THEN 1 ELSE 0
  <2>1. /\ On(MB) \in 0..1 /\ On(ME) \in 0..1 /\ On(CF) \in 0..1 /\ On(SR) \in 0..1 /\ On(IL) \in 0..1
        /\ On(SR) = 1 <=> SR \in f
        /\ On(IL) = 1 <=> IL \in f
    OBVIOUS
  <2>2. /\ Bit(MB, f) = 128 * On(MB) /\ Bit(ME, f) = 64 * On(ME) /\ Bit(CF, f) = 32 * On(CF)
        /\ Bit(SR, f) = 16 * On(SR) /\ Bit(IL, f) = 8 * On(IL)
    BY DEF Bit, MB, ME, CF, SR, IL
  <2>3. FlagByte(f) = 128 * On(MB) + 64 * On(ME) + 32 * On(CF) + 16 * On(SR) + 8 * On(IL)
    BY <2>2 DEF FlagByte
  <2> HIDE DEF On
  <2> QED
    BY <2>1, <2>3
<1> DEFINE b == 128 * a + 64 * e + 32 * c + 16 * s + 8 * i + t
<1>2. FlagByte(f) + t = b
  BY <1>1
<1>3. t \in 0..7
  BY DEF Tnfs
<1>4. b \in 0..255 /\ b % 8 = t /\ (b \div 16) % 2 = s /\ (b \div 8) % 2 = i
  BY <1>3
<1> HIDE DEF b
<1>5. Tnf(b) = t /\ (SR \in Flags(b) <=> s = 1) /\ (IL \in Flags(b) <=> i = 1)
  BY <1>4 DEF Tnf, Flags, FlagBits, SR, IL
<1> QED
  BY <1>1, <1>2, <1>4, <1>5

(* The parts of a record in its bytes *)
RecPlaces(b, r, f) ==
  LET h == HdrLen(f)  tl == Len(r.type)  behind == r.id \o r.payload
  IN  /\ b \in Seq(Byte) /\ h \in 3..7 /\ Len(b) = h + tl + Len(behind)
      /\ b[1] = FlagByte(f) + r.tnf /\ b[2] = tl
      /\ SR \in f => b[3] = Len(r.payload) /\ (IL \in f => b[4] = Len(r.id))
      /\ SR \notin f => /\ b[3] = 0 /\ b[4] = 0 /\ b[5] = 0 /\ b[6] = Len(r.payload)
                        /\ IL \in f => b[7] = Len(r.id)
      /\ \A j \in 1..tl : b[h + j] = r.type[j]
      /\ \A j \in 1..Len(behind) : b[h + tl + j] = behind[j]

(* A field's length fits a byte. *)
LEMMA FieldLen ==
  ASSUME NEW w \in Field
  PROVE  Len(w) \in 0..255
<1> DEFINE l == Len(w)
<1>1. w \in Seq(Byte) /\ l < 256
  BY DEF Field
<1>2. l \in Nat /\ l < 256
  BY <1>1, LenProperties
<1> HIDE DEF l
<1>3. l \in 0..255
  BY <1>2
<1> QED
  BY <1>3 DEF l

(* The header of a record meant *)
HeaderOf(r, f) ==
  <<FlagByte(f) + r.tnf, Len(r.type)>>
    \o (IF SR \in f THEN <<>> ELSE <<0, 0, 0>>) \o <<Len(r.payload)>>
    \o (IF IL \in f THEN <<Len(r.id)>> ELSE <<>>)

(* Its length and its bytes *)
LEMMA HeaderPlaces ==
  ASSUME NEW r \in NdefRecord, NEW f \in SUBSET FlagBits
  PROVE  LET b == HeaderOf(r, f)
         IN  /\ b \in Seq(Byte) /\ HdrLen(f) \in 3..7 /\ Len(b) = HdrLen(f)
             /\ b[1] = FlagByte(f) + r.tnf /\ b[2] = Len(r.type)
             /\ SR \in f => b[3] = Len(r.payload) /\ (IL \in f => b[4] = Len(r.id))
             /\ SR \notin f => /\ b[3] = 0 /\ b[4] = 0 /\ b[5] = 0 /\ b[6] = Len(r.payload)
                               /\ IL \in f => b[7] = Len(r.id)
<1> DEFINE x == FlagByte(f) + r.tnf  y == Len(r.type)  z == Len(r.payload)  u == Len(r.id)
<1>1. x \in Byte /\ y \in Byte /\ z \in Byte /\ u \in Byte /\ 0 \in Byte
  <2>1. r.tnf \in Tnfs /\ r.type \in Field /\ r.id \in Field /\ r.payload \in Field
    BY DEF NdefRecord
  <2>2. x \in 0..255
    BY <2>1, FlagFacts
  <2> QED
    BY <2>1, <2>2, FieldLen DEF Byte
<1> HIDE DEF x, y, z, u
<1>2. CASE SR \in f /\ IL \in f
  <2> DEFINE b == <<x, y>> \o <<>> \o <<z>> \o <<u>>
  <2>1. HeaderOf(r, f) = b
    BY <1>2 DEF HeaderOf, x, y, z, u
  <2>2. HdrLen(f) = 4
    BY <1>2 DEF HdrLen
  <2>3. b \in Seq(Byte)
    BY <1>1
  <2>4. /\ Len(b) = 4
        /\ b[1] = x /\ b[2] = y /\ b[3] = z /\ b[4] = u
    BY <1>1
  <2> HIDE DEF b
  <2> QED
    BY <1>2, <2>1, <2>2, <2>3, <2>4 DEF x, y, z, u
<1>3. CASE SR \in f /\ IL \notin f
  <2> DEFINE b == <<x, y>> \o <<>> \o <<z>> \o <<>>
  <2>1. HeaderOf(r, f) = b
    BY <1>3 DEF HeaderOf, x, y, z, u
  <2>2. HdrLen(f) = 3
    BY <1>3 DEF HdrLen
  <2>3. b \in Seq(Byte)
    BY <1>1
  <2>4. /\ Len(b) = 3
        /\ b[1] = x /\ b[2] = y /\ b[3] = z
    BY <1>1
  <2> HIDE DEF b
  <2> QED
    BY <1>3, <2>1, <2>2, <2>3, <2>4 DEF x, y, z, u
<1>4. CASE SR \notin f /\ IL \in f
  <2> DEFINE b == <<x, y>> \o <<0, 0, 0>> \o <<z>> \o <<u>>
  <2>1. HeaderOf(r, f) = b
    BY <1>4 DEF HeaderOf, x, y, z, u
  <2>2. HdrLen(f) = 7
    BY <1>4 DEF HdrLen
  <2>3. b \in Seq(Byte)
    BY <1>1
  <2>4. /\ Len(b) = 7
        /\ b[1] = x /\ b[2] = y /\ b[3] = 0 /\ b[4] = 0 /\ b[5] = 0 /\ b[6] = z /\ b[7] = u
    BY <1>1
  <2> HIDE DEF b
  <2> QED
    BY <1>4, <2>1, <2>2, <2>3, <2>4 DEF x, y, z, u
<1>5. CASE SR \notin f /\ IL \notin f
  <2> DEFINE b == <<x, y>> \o <<0, 0, 0>> \o <<z>> \o <<>>
  <2>1. HeaderOf(r, f) = b
    BY <1>5 DEF HeaderOf, x, y, z, u
  <2>2. HdrLen(f) = 6
    BY <1>5 DEF HdrLen
  <2>3. b \in Seq(Byte)
    BY <1>1
  <2>4. /\ Len(b) = 6
        /\ b[1] = x /\ b[2] = y /\ b[3] = 0 /\ b[4] = 0 /\ b[5] = 0 /\ b[6] = z
    BY <1>1
  <2> HIDE DEF b
  <2> QED
    BY <1>5, <2>1, <2>2, <2>3, <2>4 DEF x, y, z, u
<1> QED
  BY <1>2, <1>3, <1>4, <1>5

(* A record's bytes are its header, its type, and what is behind that. *)
LEMMA RecHas ==
  ASSUME NEW r \in NdefRecord, NEW f \in SUBSET FlagBits, IL \notin f => r.id = <<>>
  PROVE  RecPlaces(RecBytes(r, f), r, f)
<1> DEFINE h == HeaderOf(r, f)  t == r.type  d == r.id  p == r.payload
           ht == h \o t  w == d \o p  b == ht \o w
<1>1. t \in Seq(Byte) /\ d \in Seq(Byte) /\ p \in Seq(Byte)
  BY DEF NdefRecord, Field
<1>2. /\ h \in Seq(Byte) /\ HdrLen(f) \in 3..7 /\ Len(h) = HdrLen(f)
      /\ h[1] = FlagByte(f) + r.tnf /\ h[2] = Len(r.type)
      /\ SR \in f => h[3] = Len(r.payload) /\ (IL \in f => h[4] = Len(r.id))
      /\ SR \notin f => /\ h[3] = 0 /\ h[4] = 0 /\ h[5] = 0 /\ h[6] = Len(r.payload)
                        /\ IL \in f => h[7] = Len(r.id)
  BY HeaderPlaces
<1>3. RecBytes(r, f) = ((h \o t) \o d) \o p
  BY DEF RecBytes, HeaderOf
<1> HIDE DEF h, t, d, p, ht
<1>4. /\ Len(h) \in Nat /\ Len(t) \in Nat /\ ht \in Seq(Byte) /\ Len(ht) = Len(h) + Len(t)
      /\ \A j \in 1..Len(h) : ht[j] = h[j]
      /\ \A j \in 1..Len(t) : ht[Len(h) + j] = t[j]
  <2>1. h \in Seq(Byte) /\ t \in Seq(Byte)
    BY <1>1, <1>2
  <2> QED
    BY <2>1, ConcatPlaces DEF ht
<1>5. w \in Seq(Byte)
  BY <1>1, ConcatPlaces
<1>6. ((h \o t) \o d) \o p = b
  <2>1. (ht \o d) \o p = ht \o (d \o p)
    <3>1. ht \in Seq(Byte) /\ d \in Seq(Byte) /\ p \in Seq(Byte)
      BY <1>1, <1>4
    <3> QED
      BY <3>1, ConcatAssociative
  <2> QED
    BY <2>1 DEF ht
<1> HIDE DEF w
<1>7. /\ Len(ht) \in Nat /\ Len(w) \in Nat
      /\ b \in Seq(Byte) /\ Len(b) = Len(ht) + Len(w)
      /\ \A j \in 1..Len(ht) : b[j] = ht[j]
      /\ \A j \in 1..Len(w) : b[Len(ht) + j] = w[j]
  <2>1. ht \in Seq(Byte) /\ w \in Seq(Byte)
    BY <1>4, <1>5
  <2> QED
    BY <2>1, ConcatPlaces
<1> HIDE DEF b
<1> DEFINE n == HdrLen(f)  l == Len(t)
<1>8. l \in Nat /\ n \in 3..7 /\ Len(ht) = n + l
  BY <1>2, <1>4
<1> HIDE DEF n, l
<1>9. \A j \in 1..n : b[j] = h[j]
  <2> TAKE j \in 1..n
  <2>1. j \in 1..(n + l)
    BY <1>8
  <2>2. b[j] = ht[j]
    BY <1>7, <1>8, <2>1
  <2>3. ht[j] = h[j]
    BY <1>2, <1>4 DEF n
  <2> QED
    BY <2>2, <2>3
<1>10. \A j \in 1..l : b[n + j] = t[j]
  <2> TAKE j \in 1..l
  <2>1. n + j \in 1..(n + l)
    BY <1>8
  <2>2. b[n + j] = ht[n + j]
    BY <1>7, <1>8, <2>1
  <2>3. ht[n + j] = t[j]
    BY <1>2, <1>4 DEF n, l
  <2> QED
    BY <2>2, <2>3
<1>11. /\ 1 \in 1..n /\ 2 \in 1..n /\ 3 \in 1..n
       /\ SR \in f /\ IL \in f => 4 \in 1..n
       /\ SR \notin f => 4 \in 1..n /\ 5 \in 1..n /\ 6 \in 1..n
       /\ SR \notin f /\ IL \in f => 7 \in 1..n
  BY <1>8 DEF n, HdrLen
<1>12. /\ b[1] = FlagByte(f) + r.tnf /\ b[2] = Len(r.type)
       /\ SR \in f => b[3] = Len(r.payload) /\ (IL \in f => b[4] = Len(r.id))
       /\ SR \notin f => /\ b[3] = 0 /\ b[4] = 0 /\ b[5] = 0 /\ b[6] = Len(r.payload)
                         /\ IL \in f => b[7] = Len(r.id)
  BY <1>2, <1>9, <1>11, Zenon
<1>13. Len(b) = n + l + Len(w)
  BY <1>7, <1>8
<1>14. \A j \in 1..Len(w) : b[n + l + j] = w[j]
  BY <1>7, <1>8, Zenon
<1>15. RecPlaces(b, r, f)
  BY <1>7, <1>8, <1>10, <1>12, <1>13, <1>14 DEF RecPlaces, n, l, w, t, d, p
<1> QED
  BY <1>3, <1>6, <1>15

(* Memory m has the bytes b from o on. *)
HasAt(m, o, b) == \A j \in 1..Len(b) : m[o + j - 1] = b[j]

(* What the accessors find of record r at o *)
FoundAt(m, o, r) ==
  /\ Tnf(m[o]) = r.tnf
  /\ TypeLen(m, o) = Len(r.type) /\ PayloadLen(m, o) = Len(r.payload) /\ IdLen(m, o) = Len(r.id)

(* The lengths in a header are those of the record. *)
LEMMA LengthsFound ==
  ASSUME NEW r \in NdefRecord, NEW f \in SUBSET FlagBits, IL \notin f => r.id = <<>>,
         NEW m, NEW o \in Nat, NEW b, RecPlaces(b, r, f), HasAt(m, o, b)
  PROVE  /\ FoundAt(m, o, r)
         /\ RecLen(m, o) = HdrLen(f) + Len(r.type) + Len(r.payload) + Len(r.id)
         /\ TypeOff(m, o) = o + HdrLen(f)
<1> DEFINE n == HdrLen(f)  tl == Len(r.type)  pl == Len(r.payload)  il == Len(r.id)
           w == r.id \o r.payload
<1>1. r.tnf \in Tnfs /\ tl \in Nat /\ pl \in Nat /\ il \in Nat /\ Len(w) \in Nat
  <2>1. r.type \in Seq(Byte) /\ r.id \in Seq(Byte) /\ r.payload \in Seq(Byte)
    BY DEF NdefRecord, Field
  <2>2. w \in Seq(Byte)
    BY <2>1, ConcatPlaces
  <2> QED
    BY <2>1, <2>2, LenProperties DEF NdefRecord
<1>2. /\ n \in 3..7 /\ Len(b) = n + tl + Len(w)
      /\ b[1] = FlagByte(f) + r.tnf /\ b[2] = tl
      /\ SR \in f => b[3] = pl /\ (IL \in f => b[4] = il)
      /\ SR \notin f => /\ b[3] = 0 /\ b[4] = 0 /\ b[5] = 0 /\ b[6] = pl
                        /\ IL \in f => b[7] = il
  BY DEF RecPlaces
<1> DEFINE l == Len(b)
<1> HIDE DEF w
<1>3. l \in Nat /\ l >= n
  BY <1>1, <1>2
<1>4. \A j \in 1..n : m[o + j - 1] = b[j]
  <2> TAKE j \in 1..n
  <2>1. j \in 1..l
    BY <1>2, <1>3
  <2> QED
    BY <2>1 DEF HasAt
<1>5. /\ o + 1 - 1 = o /\ o + 2 - 1 = o + 1 /\ o + 3 - 1 = o + 2 /\ o + 4 - 1 = o + 3
      /\ o + 5 - 1 = o + 4 /\ o + 6 - 1 = o + 5 /\ o + 7 - 1 = o + 6
  OBVIOUS
<1>6. n = 3 + (IF SR \in f THEN 0 ELSE 3) + (IF IL \in f THEN 1 ELSE 0)
  BY DEF HdrLen
<1>7. /\ 1 \in 1..n /\ 2 \in 1..n /\ 3 \in 1..n
      /\ SR \in f /\ IL \in f => 4 \in 1..n
      /\ SR \notin f => 4 \in 1..n /\ 5 \in 1..n /\ 6 \in 1..n
      /\ SR \notin f /\ IL \in f => 7 \in 1..n
  BY <1>6
<1> DEFINE x == FlagByte(f) + r.tnf
<1>8. /\ Tnf(x) = r.tnf
      /\ SR \in Flags(x) <=> SR \in f
      /\ IL \in Flags(x) <=> IL \in f
  BY <1>1, FlagFacts
<1> HIDE DEF n, x, l
<1>9. m[o] = x /\ m[o + 1] = tl
  <2>1. m[o] = b[1] /\ m[o + 1] = b[2]
    BY <1>4, <1>5, <1>7
  <2> QED
    BY <1>2, <2>1 DEF x
<1>10. SR \in f => /\ m[o + 2] = pl
                   /\ IL \in f => m[o + 3] = il
  <2>1. SR \in f => m[o + 2] = b[3] /\ (IL \in f => m[o + 3] = b[4])
    BY <1>4, <1>5, <1>7
  <2> QED
    BY <1>2, <2>1
<1>11. SR \notin f => /\ m[o + 2] = 0 /\ m[o + 3] = 0 /\ m[o + 4] = 0 /\ m[o + 5] = pl
                      /\ IL \in f => m[o + 6] = il
  <2>1. SR \notin f => /\ m[o + 2] = b[3] /\ m[o + 3] = b[4] /\ m[o + 4] = b[5]
                       /\ m[o + 5] = b[6]
                       /\ IL \in f => m[o + 6] = b[7]
    BY <1>4, <1>5, <1>7
  <2> QED
    BY <1>2, <2>1
<1>12. IL \notin f => il = 0
  BY EmptySeq
<1> HIDE DEF tl, pl, il
<1>13. /\ SR \in Flags(m[o]) <=> SR \in f
       /\ IL \in Flags(m[o]) <=> IL \in f
  BY <1>8, <1>9
<1>14. TypeLen(m, o) = tl
  BY <1>9 DEF TypeLen
<1>15. PayloadLen(m, o) = pl
  <2> DEFINE a == m[o + 2]  c == m[o + 3]  d == m[o + 4]  e == m[o + 5]
  <2>1. PayloadLen(m, o) = IF SR \in f THEN a ELSE e + 256 * (d + 256 * (c + 256 * a))
    BY <1>13 DEF PayloadLen
  <2>2. SR \in f => a = pl
    BY <1>10
  <2>3. SR \notin f => a = 0 /\ c = 0 /\ d = 0 /\ e = pl
    BY <1>11
  <2> HIDE DEF a, c, d, e
  <2>4. pl + 256 * (0 + 256 * (0 + 256 * 0)) = pl
    BY <1>1 DEF pl
  <2> QED
    BY <2>1, <2>2, <2>3, <2>4
<1>16. IdLen(m, o) = il
  <2> DEFINE a == m[o + 3]  c == m[o + 6]
  <2>1. IdLen(m, o) = IF IL \notin f THEN 0 ELSE IF SR \in f THEN a ELSE c
    BY <1>13 DEF IdLen
  <2>2. SR \in f /\ IL \in f => a = il
    BY <1>10
  <2>3. SR \notin f /\ IL \in f => c = il
    BY <1>11
  <2> HIDE DEF a, c
  <2> QED
    BY <1>12, <2>1, <2>2, <2>3
<1>17. TypeOff(m, o) = o + n
  <2>1. TypeOff(m, o) = o + 7 - (IF SR \in f THEN 3 ELSE 0) - (IF IL \in f THEN 0 ELSE 1)
    BY <1>13 DEF TypeOff
  <2> QED
    BY <1>6, <2>1
<1>18. HdrLen(Flags(m[o])) = n
  BY <1>13 DEF HdrLen, n
<1>19. RecLen(m, o) = n + tl + pl + il
  BY <1>14, <1>15, <1>16, <1>18 DEF RecLen
<1> QED
  BY <1>8, <1>9, <1>14, <1>15, <1>16, <1>17, <1>19 DEF FoundAt, n, tl, pl, il

(* The text shown for bytes that lie in memory *)
LEMMA FieldText ==
  ASSUME NEW m, NEW a \in Int, NEW t \in Seq(Byte), HasAt(m, a, t)
  PROVE  EncodeBase64([i \in 1..Len(t) |-> m[a + i - 1]]) = TextOf(t)
<1>1. t = [i \in 1..Len(t) |-> t[i]]
  BY LenProperties
<1>2. [i \in 1..Len(t) |-> m[a + i - 1]] = [i \in 1..Len(t) |-> t[i]]
  BY DEF HasAt
<1>3. EncodeBase64(t) = TextOf(t)
  BY EncodeIsTextOf
<1> QED
  BY <1>1, <1>2, <1>3

(* What the console shows of a record meant *)
ShownAs(r) ==
  LET behind == r.id \o r.payload
      plen   == Len(r.payload)
  IN  [tnf     |-> r.tnf,
       type    |-> TextOf(r.type),
       id      |-> TextOf(SubSeq(behind, plen + 1, Len(behind))),
       payload |-> TextOf(SubSeq(behind, 1, plen))]

(* It shows this of a record that lies in memory. *)
LEMMA RecordShown ==
  ASSUME NEW r \in NdefRecord, NEW f \in SUBSET FlagBits, IL \notin f => r.id = <<>>,
         NEW m, NEW o \in Nat, NEW b, RecPlaces(b, r, f), HasAt(m, o, b)
  PROVE  ShownRec(m, o) = ShownAs(r) /\ RecLen(m, o) = Len(b)
<1> DEFINE n == HdrLen(f)  tl == Len(r.type)  pl == Len(r.payload)  il == Len(r.id)
           w == r.id \o r.payload  t == r.type
<1>1. /\ t \in Seq(Byte) /\ w \in Seq(Byte)
      /\ tl \in Nat /\ pl \in Nat /\ il \in Nat /\ Len(w) = il + pl
  <2>1. r.type \in Seq(Byte) /\ r.id \in Seq(Byte) /\ r.payload \in Seq(Byte)
    BY DEF NdefRecord, Field
  <2>2. w \in Seq(Byte) /\ Len(w) = il + pl
    BY <2>1, ConcatPlaces
  <2> QED
    BY <2>1, <2>2, LenProperties
<1>2. /\ n \in 3..7 /\ Len(b) = n + tl + Len(w)
      /\ \A j \in 1..tl : b[n + j] = t[j]
      /\ \A j \in 1..Len(w) : b[n + tl + j] = w[j]
  BY DEF RecPlaces
<1>3. /\ Tnf(m[o]) = r.tnf
      /\ TypeLen(m, o) = tl /\ PayloadLen(m, o) = pl /\ IdLen(m, o) = il
      /\ RecLen(m, o) = n + tl + pl + il /\ TypeOff(m, o) = o + n
  <2>1. FoundAt(m, o, r) /\ RecLen(m, o) = n + tl + pl + il /\ TypeOff(m, o) = o + n
    BY LengthsFound
  <2> QED
    BY <2>1 DEF FoundAt
<1> DEFINE l == Len(b)
<1>4. \A j \in 1..l : m[o + j - 1] = b[j]
  BY DEF HasAt
<1>5. l = n + tl + (il + pl)
  BY <1>1, <1>2
<1> HIDE DEF n, tl, pl, il, w, t, l
<1>6. l = n + tl + pl + il
  BY <1>1, <1>2, <1>5
<1>7. \A j \in 1..tl : m[o + n + j - 1] = t[j]
  <2> TAKE j \in 1..tl
  <2>1. n + j \in 1..l /\ o + n + j - 1 = o + (n + j) - 1
    BY <1>1, <1>2, <1>5
  <2>2. m[o + (n + j) - 1] = b[n + j]
    BY <1>4, <2>1
  <2> QED
    BY <1>2, <2>1, <2>2
<1>8. \A j \in 1..(il + pl) : m[o + n + tl + j - 1] = w[j]
  <2> TAKE j \in 1..(il + pl)
  <2>1. n + tl + j \in 1..l /\ o + n + tl + j - 1 = o + (n + tl + j) - 1
    BY <1>1, <1>2, <1>5
  <2>2. m[o + (n + tl + j) - 1] = b[n + tl + j]
    BY <1>4, <2>1
  <2>3. b[n + tl + j] = w[j]
    BY <1>1, <1>2
  <2> QED
    BY <2>1, <2>2, <2>3
<1> DEFINE u == SubSeq(w, 1, pl)  v == SubSeq(w, pl + 1, il + pl)
<1>9. u \in Seq(Byte) /\ Len(u) = pl /\ \A j \in 1..pl : u[j] = w[j]
  <2>1. /\ u \in Seq(Byte) /\ Len(u) = pl - 1 + 1
        /\ \A j \in 1..(pl - 1 + 1) : u[j] = w[1 + j - 1]
    <3>1. 1 \in Int /\ pl \in Int /\ 1 <= pl + 1 /\ pl <= Len(w) /\ 1 <= 1
      BY <1>1
    <3> QED
      BY <1>1, <3>1, SubSeqPlaces
  <2> HIDE DEF u
  <2>2. pl - 1 + 1 = pl /\ \A j \in 1..pl : 1 + j - 1 = j
    BY <1>1
  <2> QED
    BY <2>1, <2>2
<1>10. v \in Seq(Byte) /\ Len(v) = il /\ \A j \in 1..il : v[j] = w[pl + j]
  <2>1. /\ v \in Seq(Byte) /\ Len(v) = (il + pl) - (pl + 1) + 1
        /\ \A j \in 1..((il + pl) - (pl + 1) + 1) : v[j] = w[(pl + 1) + j - 1]
    <3>1. /\ pl + 1 \in Int /\ il + pl \in Int /\ 1 <= pl + 1
          /\ pl + 1 <= (il + pl) + 1 /\ il + pl <= Len(w)
      BY <1>1
    <3> QED
      BY <1>1, <3>1, SubSeqPlaces
  <2> HIDE DEF v
  <2>2. (il + pl) - (pl + 1) + 1 = il /\ \A j \in 1..il : (pl + 1) + j - 1 = pl + j
    BY <1>1
  <2> QED
    BY <2>1, <2>2
<1> HIDE DEF u, v
<1>11. EncodeBase64([i \in 1..tl |-> m[(o + n) + i - 1]]) = TextOf(t)
  <2>1. o + n \in Int /\ t \in Seq(Byte)
    BY <1>1, <1>2
  <2>2. HasAt(m, o + n, t)
    BY <1>7 DEF HasAt, tl, t
  <2>3. EncodeBase64([i \in 1..Len(t) |-> m[(o + n) + i - 1]]) = TextOf(t)
    BY <2>1, <2>2, FieldText
  <2> QED
    BY <2>3 DEF tl, t
<1>12. EncodeBase64([i \in 1..pl |-> m[(o + n + tl) + i - 1]]) = TextOf(u)
  <2>1. o + n + tl \in Int /\ u \in Seq(Byte)
    BY <1>1, <1>2, <1>9
  <2>2. \A j \in 1..pl : m[(o + n + tl) + j - 1] = u[j]
    BY <1>1, <1>8, <1>9
  <2>3. HasAt(m, o + n + tl, u)
    BY <1>9, <2>2 DEF HasAt
  <2>4. EncodeBase64([i \in 1..Len(u) |-> m[(o + n + tl) + i - 1]]) = TextOf(u)
    BY <2>1, <2>3, FieldText
  <2> QED
    BY <1>9, <2>4
<1>13. EncodeBase64([i \in 1..il |-> m[(o + n + tl + pl) + i - 1]]) = TextOf(v)
  <2>1. o + n + tl + pl \in Int /\ v \in Seq(Byte)
    BY <1>1, <1>2, <1>10
  <2>2. \A j \in 1..il : m[(o + n + tl + pl) + j - 1] = v[j]
    <3> TAKE j \in 1..il
    <3>1. pl + j \in 1..(il + pl) /\ (o + n + tl + pl) + j - 1 = o + n + tl + (pl + j) - 1
      BY <1>1, <1>2
    <3> QED
      BY <1>8, <1>10, <3>1
  <2>3. HasAt(m, o + n + tl + pl, v)
    BY <1>10, <2>2 DEF HasAt
  <2>4. EncodeBase64([i \in 1..Len(v) |-> m[(o + n + tl + pl) + i - 1]]) = TextOf(v)
    BY <2>1, <2>3, FieldText
  <2> QED
    BY <1>10, <2>4
<1>14. PayloadOff(m, o) = o + n + tl /\ IdOff(m, o) = o + n + tl + pl
  BY <1>3 DEF PayloadOff, IdOff
<1>15. ShownRec(m, o) = [tnf |-> r.tnf, type |-> TextOf(t), id |-> TextOf(v), payload |-> TextOf(u)]
  BY <1>3, <1>11, <1>12, <1>13, <1>14 DEF ShownRec
<1>16. ShownAs(r) = [tnf |-> r.tnf, type |-> TextOf(t), id |-> TextOf(v), payload |-> TextOf(u)]
  <2>1. Len(w) = il + pl
    BY <1>1
  <2> QED
    BY <2>1 DEF ShownAs, t, u, v, w, pl
<1> QED
  BY <1>3, <1>6, <1>15, <1>16 DEF l

(* The flags of a record in a message *)
LEMMA FlagsType ==
  ASSUME NEW recs \in Seq(NdefRecord), NEW i \in 1..Len(recs)
  PROVE  /\ recs[i] \in NdefRecord /\ RecFlags(recs, i) \in SUBSET FlagBits
         /\ IL \notin RecFlags(recs, i) => recs[i].id = <<>>
<1>1. recs[i] \in NdefRecord
  BY ElementOfSeq
<1>2. recs[i].flags \in SUBSET FlagBits
  BY <1>1 DEF NdefRecord
<1>3. MB \in FlagBits /\ ME \in FlagBits /\ IL \in FlagBits
  BY DEF FlagBits
<1> QED
  BY <1>1, <1>2, <1>3 DEF RecFlags

(* The records of a message lie one behind the other. *)
MessagePlaces(recs, o) ==
  /\ o \in [0..Len(recs) -> Nat] /\ o[0] = 0 /\ o[Len(recs)] = Len(NdefBytes(recs))
  /\ \A i \in 1..Len(recs) :
       LET b == RecBytes(recs[i], RecFlags(recs, i))
       IN  /\ RecPlaces(b, recs[i], RecFlags(recs, i))
           /\ o[i] = o[i - 1] + Len(b) /\ o[i] <= Len(NdefBytes(recs)) /\ o[i - 1] < o[i]
           /\ \A j \in 1..Len(b) : NdefBytes(recs)[o[i - 1] + j] = b[j]

(* The records of a message lie one behind the other in its bytes. *)
LEMMA MessageHas ==
  ASSUME NEW recs \in Seq(NdefRecord)
  PROVE  NdefBytes(recs) \in Seq(Byte) /\ \E o : MessagePlaces(recs, o)
<1> DEFINE k == Len(recs)
           rec(i) == RecBytes(recs[i], RecFlags(recs, i))
           q == [i \in 1..k |-> rec(i)]
<1>1. k \in Nat
  BY LenProperties
<1>2. \A i \in 1..k : RecPlaces(rec(i), recs[i], RecFlags(recs, i))
  BY FlagsType, RecHas
<1>3. \A i \in 1..k : rec(i) \in Seq(Byte) /\ Len(rec(i)) \in Nat \ {0}
  <2> TAKE i \in 1..k
  <2> DEFINE b == rec(i)  h == HdrLen(RecFlags(recs, i))  tl == Len(recs[i].type)
             w == recs[i].id \o recs[i].payload  l == Len(w)
  <2>1. b \in Seq(Byte) /\ h \in 3..7 /\ Len(b) = h + tl + l
    BY <1>2 DEF RecPlaces
  <2>2. tl \in Nat /\ l \in Nat
    <3>1. /\ recs[i].type \in Seq(Byte) /\ recs[i].id \in Seq(Byte)
          /\ recs[i].payload \in Seq(Byte)
      BY FlagsType DEF NdefRecord, Field
    <3>2. w \in Seq(Byte)
      BY <3>1, ConcatPlaces
    <3> HIDE DEF w
    <3> QED
      BY <3>1, <3>2, LenProperties
  <2> HIDE DEF h, tl, l
  <2>3. h + tl + l \in Nat \ {0}
    BY <2>1, <2>2
  <2> QED
    BY <2>1, <2>3
<1> HIDE DEF rec, k
<1>4. q \in Seq(Seq(Byte)) /\ Len(q) = k /\ \A i \in 1..k : q[i] = rec(i)
  BY <1>1, <1>3
<1>5. NdefBytes(recs) = FlattenSeq(q)
  BY DEF NdefBytes, k, rec
<1> HIDE DEF q
<1>6. PICK g : PrefixList(g, q, Byte)
  BY <1>4, FlattenPrefixes
<1>7. \A i \in 1..k : PlacedAt(g, q, i)
  BY <1>4, <1>6, FlattenPlaces
<1>8. /\ g \in [0..k -> Seq(Byte)] /\ g[0] = <<>> /\ g[k] = NdefBytes(recs)
  BY <1>4, <1>5, <1>6 DEF PrefixList
<1> DEFINE o == [i \in 0..k |-> Len(g[i])]  n == NdefBytes(recs)
<1>9. \A i \in 0..k : o[i] \in Nat
  BY <1>8, LenProperties
<1>10. n \in Seq(Byte) /\ o[0] = 0 /\ o[k] = Len(n)
  <2>1. 0 \in 0..k /\ k \in 0..k
    BY <1>1
  <2> QED
    BY <1>8, <2>1, EmptySeq
<1>11. ASSUME NEW i \in 1..k
       PROVE  /\ RecPlaces(rec(i), recs[i], RecFlags(recs, i))
              /\ o[i] = o[i - 1] + Len(rec(i)) /\ o[i] <= Len(n) /\ o[i - 1] < o[i]
              /\ \A j \in 1..Len(rec(i)) : n[o[i - 1] + j] = rec(i)[j]
  <2>1. i \in 0..k /\ i - 1 \in 0..k
    BY <1>1
  <2>2. o[i] = Len(g[i]) /\ o[i - 1] = Len(g[i - 1])
    BY <2>1
  <2> HIDE DEF o, n
  <2>3. /\ o[i - 1] + Len(rec(i)) = o[i] /\ o[i] <= Len(n)
        /\ \A j \in 1..Len(rec(i)) : n[o[i - 1] + j] = rec(i)[j]
    <3>1. /\ Len(g[i - 1]) + Len(q[i]) = Len(g[i]) /\ Len(g[i]) <= Len(g[Len(q)])
          /\ \A j \in 1..Len(q[i]) : g[Len(q)][Len(g[i - 1]) + j] = q[i][j]
      BY <1>7 DEF PlacedAt
    <3>2. g[Len(q)] = n /\ q[i] = rec(i)
      BY <1>4, <1>8 DEF n
    <3> QED
      BY <2>2, <3>1, <3>2, Zenon
  <2> DEFINE a == o[i - 1]  c == o[i]  l == Len(rec(i))
  <2>4. a \in Nat /\ c \in Nat /\ l \in Nat \ {0} /\ a + l = c
    BY <1>3, <1>9, <2>1, <2>3
  <2> HIDE DEF a, c, l
  <2>5. a < c
    BY <2>4
  <2> QED
    BY <1>2, <2>3, <2>5, Zenon DEF a, c
<1>12. o \in [0..k -> Nat]
  BY <1>9
<1> HIDE DEF o
<1>13. MessagePlaces(recs, o)
  BY <1>10, <1>11, <1>12, Zenon DEF MessagePlaces, n, rec, k
<1> QED
  BY <1>10, <1>13 DEF n

(* A message that lies in memory is shown record by record, to its end. *)
LEMMA MessageShown ==
  ASSUME NEW recs \in Seq(NdefRecord), NEW m, HasAt(m, 0, NdefBytes(recs))
  PROVE  Shown(m, Len(NdefBytes(recs))) =
           [recs |-> [i \in 1..Len(recs) |-> ShownAs(recs[i])], ok |-> TRUE]
<1> DEFINE k == Len(recs)  n == NdefBytes(recs)  l == Len(n)
<1>1. k \in Nat /\ l \in Nat
  BY MessageHas, LenProperties
<1>2. PICK o : MessagePlaces(recs, o)
  BY MessageHas
<1>3. /\ \A i \in 0..k : o[i] \in Nat
      /\ o[0] = 0 /\ o[k] = l
  BY <1>2 DEF MessagePlaces
<1>4. ASSUME NEW i \in 1..k
      PROVE  /\ o[i - 1] < o[i] /\ o[i] <= l
             /\ ShownRec(m, o[i - 1]) = ShownAs(recs[i])
             /\ o[i - 1] + RecLen(m, o[i - 1]) = o[i]
  <2> DEFINE r == recs[i]  f == RecFlags(recs, i)  b == RecBytes(r, f)  a == o[i - 1]
  <2>1. /\ RecPlaces(b, r, f) /\ o[i] = a + Len(b) /\ o[i] <= l /\ a < o[i]
        /\ \A j \in 1..Len(b) : n[a + j] = b[j]
    BY <1>2 DEF MessagePlaces
  <2>2. i - 1 \in 0..k /\ a \in Nat /\ i \in 0..k
    BY <1>1, <1>3
  <2>3. Len(b) \in Nat
    BY <2>1, LenProperties DEF RecPlaces
  <2> DEFINE y == Len(b)  z == o[i]
  <2>4. z \in Nat /\ y \in Nat /\ z = a + y /\ z <= l
    BY <1>3, <2>1, <2>2, <2>3
  <2>5. HasAt(m, a, b)
    <3>1. \A j \in 1..l : m[0 + j - 1] = n[j]
      BY DEF HasAt
    <3> HIDE DEF a, b, n, l, y, z
    <3>2. ASSUME NEW j \in 1..y PROVE m[a + j - 1] = b[j]
      <4>1. a + j \in 1..l /\ 0 + (a + j) - 1 = a + j - 1
        BY <1>1, <2>2, <2>4
      <4>2. m[0 + (a + j) - 1] = n[a + j]
        BY <3>1, <4>1
      <4>3. n[a + j] = b[j]
        BY <2>1 DEF y
      <4> QED
        BY <4>1, <4>2, <4>3
    <3> QED
      BY <3>2 DEF HasAt, y
  <2>6. ShownRec(m, a) = ShownAs(r) /\ RecLen(m, a) = Len(b)
    <3>1. r \in NdefRecord /\ f \in SUBSET FlagBits /\ (IL \notin f => r.id = <<>>)
      BY FlagsType
    <3> HIDE DEF r, f, b, a
    <3> QED
      BY <2>1, <2>2, <2>5, <3>1, RecordShown
  <2> QED
    BY <2>1, <2>6
<1> DEFINE S == [i \in 1..k |-> ShownAs(recs[i])]
           c(i) == IF i <= k THEN i ELSE k
           F == [i \in 0..l |-> [recs |-> [j \in 1..c(i) |-> S[j]], off |-> o[c(i)]]]
           Next1(w) == IF w.off < l
                       THEN [recs |-> Append(w.recs, ShownRec(m, w.off)),
                             off  |-> w.off + RecLen(m, w.off)]
                       ELSE w
           start == [recs |-> <<>>, off |-> 0]
           Is(f) == f = [i \in 0..l |-> IF i = 0 THEN start ELSE Next1(f[i - 1])]
           G == CHOOSE f : Is(f)
<1> HIDE DEF k, n, l
<1>5. k <= l
  <2> DEFINE T == {i \in 0..k : i <= o[i]}
  <2>1. 0 \in T
    BY <1>1, <1>3
  <2>2. ASSUME NEW i \in 1..k, i - 1 \in T PROVE i \in T
    <3>1. i \in 0..k /\ i - 1 \in 0..k /\ o[i] \in Nat /\ o[i - 1] \in Nat /\ i - 1 <= o[i - 1]
      BY <1>1, <1>3, <2>2
    <3>2. o[i - 1] < o[i]
      BY <1>4
    <3> DEFINE x == o[i]  y == o[i - 1]
    <3>3. x \in Nat /\ y \in Nat /\ i - 1 <= y /\ y < x
      BY <3>1, <3>2
    <3> HIDE DEF x, y
    <3>4. i <= x
      BY <3>3
    <3> QED
      BY <3>1, <3>4 DEF x
  <2>3. \A i \in 0..k : i \in T
    <3> HIDE DEF T
    <3> QED
      BY <1>1, <2>1, <2>2, InductionUpTo
  <2>4. k \in T
    BY <1>1, <2>3
  <2> QED
    BY <1>3, <2>4
<1>6. Shown(m, l) = [recs |-> G[l].recs, ok |-> G[l].off = l]
  BY DEF Shown
<1>7. F[0] = start
  <2>1. 0 \in 0..l /\ c(0) = 0
    BY <1>1
  <2>2. [j \in 1..0 |-> S[j]] = <<>>
    OBVIOUS
  <2> HIDE DEF S
  <2> QED
    BY <1>3, <2>1, <2>2
<1>8. ASSUME NEW i \in 1..l PROVE F[i] = Next1(F[i - 1])
  <2>1. i \in 0..l /\ i - 1 \in 0..l
    BY <1>1
  <2> DEFINE v == F[i - 1]
  <2>2. CASE i <= k
    <3>1. c(i) = i /\ c(i - 1) = i - 1 /\ i \in 1..k /\ i - 1 \in 0..k
      BY <1>1, <2>2
    <3>2. v = [recs |-> [j \in 1..(i - 1) |-> S[j]], off |-> o[i - 1]]
      BY <2>1, <3>1
    <3>3. F[i] = [recs |-> [j \in 1..i |-> S[j]], off |-> o[i]]
      BY <2>1, <3>1
    <3>4. o[i - 1] < l
      <4> DEFINE x == o[i]  y == o[i - 1]
      <4>1. x \in Nat /\ y \in Nat /\ y < x /\ x <= l
        BY <1>3, <1>4, <3>1
      <4> HIDE DEF x, y
      <4>2. y < l
        BY <1>1, <4>1
      <4> QED
        BY <4>2 DEF y
    <3>5. Append([j \in 1..(i - 1) |-> S[j]], S[i]) = [j \in 1..i |-> S[j]]
      <4> HIDE DEF S
      <4> QED
        BY <3>1
    <3>6. S[i] = ShownRec(m, o[i - 1]) /\ o[i - 1] + RecLen(m, o[i - 1]) = o[i]
      BY <1>4, <3>1
    <3> DEFINE before == [j \in 1..(i - 1) |-> S[j]]  now == [j \in 1..i |-> S[j]]
               y == o[i - 1]  z == o[i]
    <3>7. v = [recs |-> before, off |-> y]
      BY <3>2
    <3>8. F[i] = [recs |-> now, off |-> z]
      BY <3>3
    <3>9. y < l /\ Append(before, ShownRec(m, y)) = now /\ y + RecLen(m, y) = z
      BY <3>4, <3>5, <3>6
    <3> HIDE DEF F, S, before, now, y, z, v
    <3>10. v.off = y /\ v.recs = before
      BY <3>7
    <3>11. Next1(v) = [recs |-> now, off |-> z]
      BY <3>9, <3>10
    <3> QED
      BY <3>8, <3>11 DEF v
  <2>3. CASE ~(i <= k)
    <3>1. c(i) = k /\ c(i - 1) = k
      BY <1>1, <2>3
    <3>2. F[i] = v
      BY <2>1, <3>1
    <3>3. v.off = l
      BY <1>3, <2>1, <3>1
    <3> HIDE DEF F
    <3> QED
      BY <1>1, <3>2, <3>3
  <2> QED
    BY <2>2, <2>3
<1>9. Is(F)
  <2>1. F = [i \in 0..l |-> F[i]]
    OBVIOUS
  <2> HIDE DEF F, Next1, start
  <2> QED
    BY <1>1, <1>7, <1>8, <2>1
<1>10. Is(G)
  <2> HIDE DEF Is, F
  <2> QED
    BY <1>9
<1> HIDE DEF G
<1>11. G[0] = start /\ \A i \in 1..l : G[i] = Next1(G[i - 1])
  <2> HIDE DEF Next1, start
  <2> QED
    BY <1>1, <1>10
<1>12. G[l] = F[l]
  <2>1. StepAlike(F, G, l)
    <3> HIDE DEF F, Next1, start
    <3> QED
      BY <1>7, <1>8, <1>11 DEF StepAlike
  <2>2. Alike(F, G, l)
    BY <1>1, <2>1, RecursionUnique
  <2>3. l \in 0..l
    BY <1>1
  <2> HIDE DEF F
  <2> QED
    BY <2>2, <2>3 DEF Alike
<1>13. F[l] = [recs |-> S, off |-> l]
  <2>1. l \in 0..l /\ c(l) = k
    BY <1>1, <1>5
  <2>2. [j \in 1..k |-> S[j]] = S
    OBVIOUS
  <2> HIDE DEF S
  <2> QED
    BY <1>3, <2>1, <2>2
<1>14. Shown(m, l) = [recs |-> S, ok |-> TRUE]
  <2> HIDE DEF S, F
  <2> DEFINE w == G[l]
  <2>1. w = [recs |-> S, off |-> l]
    BY <1>12, <1>13
  <2>2. Shown(m, l) = [recs |-> w.recs, ok |-> w.off = l]
    BY <1>6
  <2> HIDE DEF w
  <2>3. w.recs = S /\ (w.off = l) = TRUE
    BY <2>1
  <2> QED
    BY <2>2, <2>3
<1> QED
  BY <1>14 DEF k, l, n

(* The receive buffer has the message stored last, whatever else it has. *)
RbufInv ==
  /\ rbuf \in [0..RbufSize-1 -> Byte] /\ response \in Responses
  /\ stored \in Seq(NdefRecord)
  /\ rlen = Len(NdefBytes(stored)) /\ rlen < RbufSize
  /\ HasAt(rbuf, 0, NdefBytes(stored))

(* No message has no bytes. *)
LEMMA NoBytes == NdefBytes(<<>>) = <<>> /\ <<>> \in Seq(NdefRecord)
<1> DEFINE recs == <<>>
<1>1. recs \in Seq(NdefRecord) /\ Len(recs) = 0
  OBVIOUS
<1> HIDE DEF recs
<1>2. PICK o : MessagePlaces(recs, o)
  BY <1>1, MessageHas
<1>3. Len(NdefBytes(recs)) = 0 /\ NdefBytes(recs) \in Seq(Byte)
  <2>1. o[0] = 0 /\ o[Len(recs)] = Len(NdefBytes(recs))
    BY <1>2 DEF MessagePlaces
  <2> QED
    BY <1>1, <2>1, MessageHas
<1>4. NdefBytes(recs) = <<>>
  BY <1>3, EmptySeq
<1> QED
  BY <1>1, <1>4 DEF recs

(* What lies in memory of no bytes lies there. *)
LEMMA NothingHas ==
  ASSUME NEW m PROVE Len(NdefBytes(<<>>)) = 0 /\ HasAt(m, 0, NdefBytes(<<>>))
BY NoBytes DEF HasAt

(* The buffer begins empty. *)
LEMMA RbufInitInv == SnepInit => RbufInv
<1> SUFFICES ASSUME SnepInit PROVE RbufInv
  OBVIOUS
<1>1. /\ rbuf \in [0..RbufSize-1 -> Byte] /\ response \in Responses /\ stored = <<>>
      /\ rlen = 0 /\ rlen < RbufSize
  BY DEF SnepInit, Byte, Responses, RbufSize
<1> QED
  BY <1>1, NoBytes, NothingHas DEF RbufInv

(* A message written to the buffer is there. *)
LEMMA WrittenHas ==
  ASSUME rbuf \in [0..RbufSize-1 -> Byte], NEW b \in Seq(Byte), Len(b) < RbufSize, WriteRbuf(b)
  PROVE  /\ rbuf' \in [0..RbufSize-1 -> Byte] /\ rlen' = Len(b)
         /\ HasAt(rbuf', 0, b)
<1> DEFINE n == Len(b)
<1>1. n \in Nat /\ n < 256 /\ \A j \in 1..n : b[j] \in Byte
  BY LenProperties, ElementOfSeq DEF RbufSize
<1>2. rlen' = n /\ rbuf' = [a \in 0..255 |-> IF a < n THEN b[a + 1] ELSE rbuf[a]]
  BY DEF WriteRbuf, RbufSize
<1>3. rbuf \in [0..255 -> Byte]
  BY DEF RbufSize
<1> HIDE DEF n
<1>4. \A a \in 0..255 : (IF a < n THEN b[a + 1] ELSE rbuf[a]) \in Byte
  <2> TAKE a \in 0..255
  <2>1. a < n => a + 1 \in 1..n
    BY <1>1
  <2> QED
    BY <1>1, <1>3, <2>1
<1>5. rbuf' \in [0..255 -> Byte]
  BY <1>2, <1>4
<1>6. \A j \in 1..n : rbuf'[0 + j - 1] = b[j]
  <2> TAKE j \in 1..n
  <2>1. 0 + j - 1 \in 0..255 /\ 0 + j - 1 < n /\ (0 + j - 1) + 1 = j
    BY <1>1
  <2> QED
    BY <1>2, <2>1
<1>7. rbuf' \in [0..RbufSize-1 -> Byte]
  BY <1>5 DEF RbufSize
<1>8. HasAt(rbuf', 0, b)
  BY <1>6 DEF HasAt, n
<1> QED
  BY <1>2, <1>7, <1>8 DEF n

(* A message of the host replaces the one in the buffer, or leaves it. *)
LEMMA HostSendsInv ==
  ASSUME RbufInv, HostSendsSnep
  PROVE  RbufInv'
<1>1. PICK version \in {16, 17}, msg \in {SNEP_REQ_GET, SNEP_REQ_PUT, SNEP_RSP_SUCCESS},
           wrong \in {0, 1}, recs \in HostMsgs : LlcpSapSnep(version, msg, wrong, recs)
  BY DEF HostSendsSnep
<1> DEFINE info == NdefBytes(recs)  answer == Answer(version, msg, Len(info) + wrong, info)
<1>2. /\ response' = answer
      /\ IF answer = SNEP_RSP_SUCCESS
         THEN WriteRbuf(info) /\ stored' = recs
         ELSE UNCHANGED <<rbuf, rlen, stored>>
  BY <1>1 DEF LlcpSapSnep, HostInfo
<1>3. recs \in Seq(NdefRecord) /\ info \in Seq(Byte)
  <2>1. recs \in Seq(NdefRecord)
    BY SnepAssumption
  <2> QED
    BY <2>1, MessageHas
<1>4. answer \in Responses
  BY DEF Answer, Responses
<1>5. CASE answer = SNEP_RSP_SUCCESS
  <2>1. Len(info) < RbufSize
    BY <1>5 DEF Answer, SNEP_RSP_SUCCESS, SNEP_RSP_EXCESS_DATA, SNEP_RSP_UNSUPPORTED_VERSION,
                SNEP_RSP_NOT_IMPLEMENTED, NoResponse
  <2>2. WriteRbuf(info) /\ stored' = recs
    BY <1>2, <1>5
  <2> HIDE DEF info, answer
  <2>3. /\ rbuf' \in [0..RbufSize-1 -> Byte] /\ rlen' = Len(info)
        /\ HasAt(rbuf', 0, info)
    <3>1. rbuf \in [0..RbufSize-1 -> Byte]
      BY DEF RbufInv
    <3> QED
      BY <1>3, <2>1, <2>2, <3>1, WrittenHas
  <2> QED
    BY <1>2, <1>3, <1>4, <2>1, <2>2, <2>3 DEF RbufInv, HasAt, info
<1>6. CASE answer # SNEP_RSP_SUCCESS
  <2>1. UNCHANGED <<rbuf, rlen, stored>>
    BY <1>2, <1>6
  <2> HIDE DEF answer, info
  <2> QED
    BY <1>2, <1>4, <2>1 DEF RbufInv, HasAt
<1> QED
  BY <1>5, <1>6

(* Clearing the data link forgets the message. *)
LEMMA ClearRbufInv ==
  ASSUME RbufInv, ClearRbuf
  PROVE  RbufInv'
<1>1. rbuf' = rbuf /\ rlen' = 0 /\ stored' = <<>> /\ response' = NoResponse
  BY DEF ClearRbuf
<1>2. NoResponse \in Responses /\ 0 < RbufSize
  BY DEF Responses, RbufSize
<1> QED
  BY <1>1, <1>2, NoBytes, NothingHas DEF RbufInv, HasAt

(* What does not touch the buffer leaves the invariant. *)
LEMMA RbufStutterInv ==
  ASSUME RbufInv, UNCHANGED <<rbuf, rlen, response, stored>>
  PROVE  RbufInv'
BY DEF RbufInv, HasAt

(* RbufInv holds in every state. *)
THEOREM RbufInvariant == DataSpec => []RbufInv
<1>1. DataInit => RbufInv
  BY RbufInitInv DEF DataInit
<1>2. RbufInv /\ [DataNext]_dataVars => RbufInv'
  <2> SUFFICES ASSUME RbufInv, [DataNext]_dataVars PROVE RbufInv'
    OBVIOUS
  <2>1. CASE HostSendsSnep
    BY <2>1, HostSendsInv
  <2>2. CASE ClearRbuf
    BY <2>2, ClearRbufInv
  <2>3. CASE UNCHANGED <<rbuf, rlen, response, stored>>
    BY <2>3, RbufStutterInv
  <2>4. \/ HostSendsSnep \/ ClearRbuf
        \/ UNCHANGED <<rbuf, rlen, response, stored>>
    BY DEF DataNext, OnTag, OnConfig, OnSnep, SnepNext, OperatorPutsSnep, snepVars, dataVars
  <2> QED
    BY <2>1, <2>2, <2>3, <2>4
<1> QED
  BY <1>1, <1>2, PTL DEF DataSpec

(* Whatever lies behind it in the buffer, and whatever requests were       *)
(* turned down since, the console shows the records of the message that    *)
(* was acknowledged last, one for one.                                     *)
THEOREM LastPutShownAlways == DataSpec => []LastPutShown
<1>1. RbufInv => LastPutShown
  <2> SUFFICES ASSUME RbufInv PROVE LastPutShown
    OBVIOUS
  <2>1. stored \in Seq(NdefRecord) /\ HasAt(rbuf, 0, NdefBytes(stored))
        /\ rlen = Len(NdefBytes(stored))
    BY DEF RbufInv
  <2> DEFINE S == [i \in 1..Len(stored) |-> ShownAs(stored[i])]
  <2>2. Shown(rbuf, rlen) = [recs |-> S, ok |-> TRUE]
    BY <2>1, MessageShown
  <2>3. Len(stored) \in Nat /\ Len(S) = Len(stored)
    BY <2>1, LenProperties
  <2>4. \A i \in 1..Len(stored) : S[i] = ShownAs(stored[i])
    OBVIOUS
  <2> DEFINE shown == Shown(rbuf, rlen)
  <2> HIDE DEF S, shown
  <2>5. shown = [recs |-> S, ok |-> TRUE]
    BY <2>2 DEF shown
  <2>6. shown.ok /\ shown.recs = S
    BY <2>5
  <2>7. /\ Len(shown.recs) = Len(stored)
        /\ \A i \in 1..Len(stored) : shown.recs[i] = ShownAs(stored[i])
    BY <2>3, <2>4, <2>6
  <2> QED
    BY <2>6, <2>7, Zenon DEF LastPutShown, ShownAs, shown
<1> QED
  BY <1>1, RbufInvariant, PTL

(* What two characters of a group have of a byte *)
JoinedOf(x, y, z) ==
  /\ (x \div 4) * 4 + ((x % 4) * 16 + y \div 16) \div 16 = x
  /\ (((x % 4) * 16 + y \div 16) * 16) % 256 = (y \div 16) * 16
  /\ (y \div 16) * 16 + ((y % 16) * 4 + z \div 64) \div 4 = y
  /\ (((y % 16) * 4 + z \div 64) * 64) % 256 = (z \div 64) * 64
  /\ (z \div 64) * 64 + (z % 64) = z

(* The four characters of a group give its three bytes back. *)
LEMMA GroupJoined ==
  ASSUME NEW x \in 0..255, NEW y \in 0..255, NEW z \in 0..255
  PROVE  JoinedOf(x, y, z)
<1>1. PICK a \in 0..63, p \in 0..3 : x = 4 * a + p
  <2>1. x = 4 * (x \div 4) + (x % 4) /\ x \div 4 \in 0..63 /\ x % 4 \in 0..3
    OBVIOUS
  <2> QED
    BY <2>1
<1>2. PICK c \in 0..15, q \in 0..15 : y = 16 * c + q
  <2>1. y = 16 * (y \div 16) + (y % 16) /\ y \div 16 \in 0..15 /\ y % 16 \in 0..15
    OBVIOUS
  <2> QED
    BY <2>1
<1>3. PICK e \in 0..3, s \in 0..63 : z = 64 * e + s
  <2>1. z = 64 * (z \div 64) + (z % 64) /\ z \div 64 \in 0..3 /\ z % 64 \in 0..63
    OBVIOUS
  <2> QED
    BY <2>1
<1>4. /\ x \div 4 = a /\ x % 4 = p
      /\ y \div 16 = c /\ y % 16 = q
      /\ z \div 64 = e /\ z % 64 = s
  BY <1>1, <1>2, <1>3
<1>5. /\ (p * 16 + c) \div 16 = p /\ (q * 4 + e) \div 4 = q
  OBVIOUS
<1>6. ((p * 16 + c) * 16) % 256 = c * 16
  <2>1. (p * 16 + c) * 16 = 256 * p + c * 16 /\ c * 16 \in 0..255
    OBVIOUS
  <2> QED
    BY <2>1
<1>7. ((q * 4 + e) * 64) % 256 = e * 64
  <2>1. (q * 4 + e) * 64 = 256 * q + e * 64 /\ e * 64 \in 0..255
    OBVIOUS
  <2> QED
    BY <2>1
<1>8. a * 4 + p = x /\ c * 16 + q = y /\ e * 64 + s = z
  BY <1>1, <1>2, <1>3
<1> QED
  BY <1>4, <1>5, <1>6, <1>7, <1>8 DEF JoinedOf

(* s is the first l bytes of b. *)
IsFront(b, s, l) ==
  s \in Seq(Nat) /\ Len(s) = l /\ \A j \in 1..l : s[j] = ByteAt(b, j)

(* The next byte makes it one longer. *)
LEMMA FrontAppend ==
  ASSUME NEW b, NEW l \in Nat, NEW s, IsFront(b, s, l), NEW v \in Nat, v = ByteAt(b, l + 1)
  PROVE  IsFront(b, Append(s, v), l + 1)
<1>1. s \in Seq(Nat) /\ Len(s) = l /\ \A j \in 1..l : s[j] = ByteAt(b, j)
  BY DEF IsFront
<1> DEFINE u == Append(s, v)
<1>2. u \in Seq(Nat) /\ Len(u) = l + 1 /\ u[l + 1] = v /\ \A j \in 1..l : u[j] = s[j]
  BY <1>1, AppendProperties
<1> HIDE DEF u
<1>3. \A j \in 1..(l + 1) : u[j] = ByteAt(b, j)
  <2> TAKE j \in 1..(l + 1)
  <2>1. j \in 1..l \/ j = l + 1
    OBVIOUS
  <2> QED
    BY <1>1, <1>2, <2>1
<1> QED
  BY <1>2, <1>3 DEF IsFront, u

(* The state of decode_base64 *)
DecState == [bytes : Seq(Nat), part : Nat, shift : Nat, room : Int,
             end : {"none", "padding", "error", "abort"}]

(* It has, after i characters of the Base64 of b, the bytes of which it has *)
(* all bits, and the upper bits of the next.                               *)
DecHas(b, i, d) ==
  \E k \in Nat :
    \/ i = 4 * k     /\ d.shift = 0 /\ IsFront(b, d.bytes, 3 * k)
    \/ /\ i = 4 * k + 1 /\ d.shift = 2 /\ IsFront(b, d.bytes, 3 * k)
       /\ d.part = (ByteAt(b, 3 * k + 1) \div 4) * 4
    \/ /\ i = 4 * k + 2 /\ d.shift = 4 /\ IsFront(b, d.bytes, 3 * k + 1)
       /\ d.part = (ByteAt(b, 3 * k + 2) \div 16) * 16
    \/ /\ i = 4 * k + 3 /\ d.shift = 6 /\ IsFront(b, d.bytes, 3 * k + 2)
       /\ d.part = (ByteAt(b, 3 * k + 3) \div 64) * 64

DecGood(b, i, d) ==
  /\ d \in DecState /\ d.end \in {"none", "abort"}
  /\ d.end = "none" => DecHas(b, i, d)

(* A character more: its bits join those that were left. *)
LEMMA DecodedGood ==
  ASSUME NEW b \in Seq(Byte), NEW i \in Nat, NEW d, DecGood(b, i, d)
  PROVE  DecGood(b, i + 1, Decoded(d, CharOf(b, i + 1)))
<1> DEFINE c == CharOf(b, i + 1)  e == Decoded(d, c)
<1>1. c \in 0..63
  <2>1. i + 1 \in Nat \ {0}
    OBVIOUS
  <2> QED
    BY <2>1, CharOfType DEF Sextet
<1>2. /\ d.bytes \in Seq(Nat) /\ d.part \in Nat /\ d.room \in Int
      /\ d.end \in {"none", "abort"} /\ d \in DecState
  BY DEF DecGood, DecState
<1>6. c # Pad /\ c # Other
  <2> HIDE DEF c
  <2> QED
    BY <1>1 DEF Pad, Other
<1>3. CASE d.end # "none"
  <2>1. e = d
    BY <1>3 DEF Decoded
  <2> QED
    BY <1>2, <1>3, <2>1 DEF DecGood
<1>4. CASE d.end = "none" /\ d.room = 0
  <2>1. e = [d EXCEPT !.end = "abort"]
    <3> HIDE DEF c
    <3> QED
      BY <1>4, <1>6, Zenon DEF Decoded, e
  <2> HIDE DEF c, e
  <2>2. e \in DecState /\ e.end = "abort"
    BY <1>2, <2>1 DEF DecState
  <2> QED
    BY <2>2 DEF DecGood, e, c
<1>5. CASE d.end = "none" /\ d.room # 0
  <2>1. PICK k \in Nat :
          \/ i = 4 * k     /\ d.shift = 0 /\ IsFront(b, d.bytes, 3 * k)
          \/ /\ i = 4 * k + 1 /\ d.shift = 2 /\ IsFront(b, d.bytes, 3 * k)
             /\ d.part = (ByteAt(b, 3 * k + 1) \div 4) * 4
          \/ /\ i = 4 * k + 2 /\ d.shift = 4 /\ IsFront(b, d.bytes, 3 * k + 1)
             /\ d.part = (ByteAt(b, 3 * k + 2) \div 16) * 16
          \/ /\ i = 4 * k + 3 /\ d.shift = 6 /\ IsFront(b, d.bytes, 3 * k + 2)
             /\ d.part = (ByteAt(b, 3 * k + 3) \div 64) * 64
    BY <1>5 DEF DecGood, DecHas
  <2> DEFINE x == ByteAt(b, 3 * k + 1)  y == ByteAt(b, 3 * k + 2)  z == ByteAt(b, 3 * k + 3)
  <2>2. x \in 0..255 /\ y \in 0..255 /\ z \in 0..255
    <3>1. 3 * k + 1 \in Nat /\ 3 * k + 2 \in Nat /\ 3 * k + 3 \in Nat
      OBVIOUS
    <3> QED
      BY <3>1, ByteAtType
  <2>3. /\ CharOf(b, 4 * k + 1) = x \div 4
        /\ CharOf(b, 4 * k + 2) = (x % 4) * 16 + y \div 16
        /\ CharOf(b, 4 * k + 3) = (y % 16) * 4 + z \div 64
        /\ CharOf(b, 4 * k + 4) = z % 64
    BY CharsOfGroup
  <2> DEFINE c1 == x \div 4  c2 == (x % 4) * 16 + y \div 16  c3 == (y % 16) * 4 + z \div 64
             c4 == z % 64
  <2>4. /\ c1 * 4 + c2 \div 16 = x /\ (c2 * 16) % 256 = (y \div 16) * 16
        /\ (y \div 16) * 16 + c3 \div 4 = y /\ (c3 * 64) % 256 = (z \div 64) * 64
        /\ (z \div 64) * 64 + c4 = z
    <3> HIDE DEF x, y, z
    <3>1. JoinedOf(x, y, z)
      BY <2>2, GroupJoined, Zenon
    <3> QED
      BY <3>1 DEF JoinedOf
  <2>5. 6 - 2 = 4 /\ 2 + 2 = 4 /\ 6 - 4 = 2 /\ 4 + 2 = 6 /\ 2^4 = 16 /\ 2^2 = 4 /\ 2^6 = 64
    OBVIOUS
  <2> DEFINE nb == Append(d.bytes, d.part + c \div 2^(6 - d.shift))
             np == (c * 2^(d.shift + 2)) % 256
             nr == d.room - 1
             ns == d.shift + 2
             ne == IF d.room = 1 THEN "abort" ELSE "none"
  <2>6. e = IF d.shift = 0 THEN [d EXCEPT !.part = c * 4, !.shift = 2]
            ELSE IF d.shift = 6
            THEN [d EXCEPT !.bytes = Append(d.bytes, d.part + c), !.room = nr, !.shift = 0]
            ELSE [d EXCEPT !.bytes = nb, !.room = nr, !.shift = ns, !.part = np, !.end = ne]
    <3> HIDE DEF c
    <3> QED
      BY <1>5, <1>6, Zenon DEF Decoded, e
  <2> HIDE DEF c, e, x, y, z, c1, c2, c3, c4
  <2>11. nr \in Int /\ ne \in {"none", "abort"}
    BY <1>2
  <2>7. CASE i = 4 * k /\ d.shift = 0 /\ IsFront(b, d.bytes, 3 * k)
    <3>1. c = c1
      BY <2>3, <2>7 DEF c, c1
    <3>2. e = [d EXCEPT !.part = c1 * 4, !.shift = 2]
      BY <2>6, <2>7, <3>1
    <3>3. c1 * 4 \in Nat
      BY <2>2 DEF c1
    <3>4. /\ e \in DecState /\ e.end = "none" /\ e.shift = 2 /\ e.bytes = d.bytes
          /\ e.part = c1 * 4
      BY <1>2, <1>5, <3>2, <3>3 DEF DecState
    <3>5. DecHas(b, i + 1, e)
      BY <2>7, <3>4 DEF DecHas, c1, x
    <3> QED
      BY <3>4, <3>5 DEF DecGood, e, c
  <2>8. CASE /\ i = 4 * k + 1 /\ d.shift = 2 /\ IsFront(b, d.bytes, 3 * k)
             /\ d.part = (ByteAt(b, 3 * k + 1) \div 4) * 4
    <3>1. c = c2
      <4>1. i + 1 = 4 * k + 2
        BY <2>8
      <4> QED
        BY <2>3, <4>1 DEF c, c2
    <3>2. d.part = c1 * 4 /\ d.shift = 2
      BY <2>8 DEF c1, x
    <3>3. d.part + c \div 2^(6 - d.shift) = x /\ (c * 2^(d.shift + 2)) % 256 = (y \div 16) * 16
      BY <2>4, <2>5, <3>1, <3>2
    <3>4. nb = Append(d.bytes, x) /\ np = (y \div 16) * 16 /\ ns = 4
      BY <2>5, <3>2, <3>3
    <3>5. (y \div 16) * 16 \in Nat /\ x \in Nat /\ 4 \in Nat
      BY <2>2
    <3> HIDE DEF nb, np, ns, nr, ne
    <3>9. nb \in Seq(Nat) /\ np \in Nat /\ ns \in Nat
      BY <1>2, <3>4, <3>5
    <3>10. e = [d EXCEPT !.bytes = nb, !.room = nr, !.shift = ns, !.part = np, !.end = ne]
      <4>1. d.shift # 0 /\ d.shift # 6
        BY <3>2
      <4> QED
        BY <2>6, <4>1
    <3>11. /\ e \in DecState /\ e.end = ne /\ e.shift = ns /\ e.bytes = nb /\ e.part = np
      BY <1>2, <2>11, <3>9, <3>10 DEF DecState
    <3>6. /\ e \in DecState /\ e.end \in {"none", "abort"} /\ e.shift = 4
          /\ e.bytes = Append(d.bytes, x) /\ e.part = (y \div 16) * 16
      BY <2>11, <3>4, <3>11
    <3>7. IsFront(b, Append(d.bytes, x), 3 * k + 1)
      <4>1. 3 * k \in Nat /\ IsFront(b, d.bytes, 3 * k) /\ x = ByteAt(b, 3 * k + 1)
        BY <2>8 DEF x
      <4> QED
        BY <3>5, <4>1, FrontAppend
    <3>8. DecHas(b, i + 1, e)
      <4>1. i + 1 = 4 * k + 2
        BY <2>8
      <4> QED
        BY <3>6, <3>7, <4>1 DEF DecHas, y
    <3> QED
      BY <3>6, <3>8 DEF DecGood, e, c
  <2>9. CASE /\ i = 4 * k + 2 /\ d.shift = 4 /\ IsFront(b, d.bytes, 3 * k + 1)
             /\ d.part = (ByteAt(b, 3 * k + 2) \div 16) * 16
    <3>1. c = c3
      <4>1. i + 1 = 4 * k + 3
        BY <2>9
      <4> QED
        BY <2>3, <4>1 DEF c, c3
    <3>2. d.part = (y \div 16) * 16 /\ d.shift = 4
      BY <2>9 DEF y
    <3>3. d.part + c \div 2^(6 - d.shift) = y /\ (c * 2^(d.shift + 2)) % 256 = (z \div 64) * 64
      BY <2>4, <2>5, <3>1, <3>2
    <3>4. nb = Append(d.bytes, y) /\ np = (z \div 64) * 64 /\ ns = 6
      BY <2>5, <3>2, <3>3
    <3>5. (z \div 64) * 64 \in Nat /\ y \in Nat /\ 6 \in Nat
      BY <2>2
    <3> HIDE DEF nb, np, ns, nr, ne
    <3>9. nb \in Seq(Nat) /\ np \in Nat /\ ns \in Nat
      BY <1>2, <3>4, <3>5
    <3>10. e = [d EXCEPT !.bytes = nb, !.room = nr, !.shift = ns, !.part = np, !.end = ne]
      <4>1. d.shift # 0 /\ d.shift # 6
        BY <3>2
      <4> QED
        BY <2>6, <4>1
    <3>11. /\ e \in DecState /\ e.end = ne /\ e.shift = ns /\ e.bytes = nb /\ e.part = np
      BY <1>2, <2>11, <3>9, <3>10 DEF DecState
    <3>6. /\ e \in DecState /\ e.end \in {"none", "abort"} /\ e.shift = 6
          /\ e.bytes = Append(d.bytes, y) /\ e.part = (z \div 64) * 64
      BY <2>11, <3>4, <3>11
    <3>7. IsFront(b, Append(d.bytes, y), 3 * k + 2)
      <4>1. 3 * k + 1 \in Nat /\ IsFront(b, d.bytes, 3 * k + 1) /\ (3 * k + 1) + 1 = 3 * k + 2
        BY <2>9
      <4>2. y = ByteAt(b, (3 * k + 1) + 1)
        BY <4>1 DEF y
      <4>3. IsFront(b, Append(d.bytes, y), (3 * k + 1) + 1)
        BY <3>5, <4>1, <4>2, FrontAppend
      <4> QED
        BY <4>1, <4>3
    <3>8. DecHas(b, i + 1, e)
      <4>1. i + 1 = 4 * k + 3
        BY <2>9
      <4> QED
        BY <3>6, <3>7, <4>1 DEF DecHas, z
    <3> QED
      BY <3>6, <3>8 DEF DecGood, e, c
  <2>10. CASE /\ i = 4 * k + 3 /\ d.shift = 6 /\ IsFront(b, d.bytes, 3 * k + 2)
              /\ d.part = (ByteAt(b, 3 * k + 3) \div 64) * 64
    <3>1. c = c4
      <4>1. i + 1 = 4 * k + 4
        BY <2>10
      <4> QED
        BY <2>3, <4>1 DEF c, c4
    <3>2. d.part = (z \div 64) * 64 /\ d.shift = 6
      BY <2>10 DEF z
    <3>3. d.part + c = z
      BY <2>4, <3>1, <3>2
    <3> DEFINE nz == Append(d.bytes, d.part + c)
    <3>4. nz = Append(d.bytes, z)
      BY <3>3
    <3>5. z \in Nat
      BY <2>2
    <3>9. nz \in Seq(Nat)
      BY <1>2, <3>4, <3>5
    <3> HIDE DEF nz, nr
    <3>10. e = [d EXCEPT !.bytes = nz, !.room = nr, !.shift = 0]
      <4>1. d.shift # 0 /\ d.shift = 6
        BY <3>2
      <4> QED
        BY <2>6, <4>1 DEF nz
    <3>6. /\ e \in DecState /\ e.end = "none" /\ e.shift = 0
          /\ e.bytes = Append(d.bytes, z)
      BY <1>2, <1>5, <2>11, <3>4, <3>9, <3>10 DEF DecState
    <3>7. IsFront(b, Append(d.bytes, z), 3 * (k + 1))
      <4>1. /\ 3 * k + 2 \in Nat /\ IsFront(b, d.bytes, 3 * k + 2)
            /\ (3 * k + 2) + 1 = 3 * k + 3 /\ 3 * (k + 1) = 3 * k + 3
        BY <2>10
      <4>2. z = ByteAt(b, (3 * k + 2) + 1)
        BY <4>1 DEF z
      <4>3. IsFront(b, Append(d.bytes, z), (3 * k + 2) + 1)
        BY <3>5, <4>1, <4>2, FrontAppend
      <4> QED
        BY <4>1, <4>3
    <3>8. DecHas(b, i + 1, e)
      <4>1. i + 1 = 4 * (k + 1) /\ k + 1 \in Nat
        BY <2>10
      <4> QED
        BY <3>6, <3>7, <4>1 DEF DecHas
    <3> QED
      BY <3>6, <3>8 DEF DecGood, e, c
  <2> QED
    BY <2>1, <2>7, <2>8, <2>9, <2>10
<1> QED
  BY <1>2, <1>3, <1>4, <1>5

(* A sequence of bytes is one of numbers. *)
LEMMA SeqSub == ASSUME NEW S, NEW T, S \subseteq T PROVE Seq(S) \subseteq Seq(T)
OBVIOUS

(* The same, of bytes. *)
LEMMA BytesNat == Seq(Byte) \subseteq Seq(Nat)
<1>1. Byte \subseteq Nat
  BY DEF Byte
<1> QED
  BY <1>1, SeqSub

(* The last character has the last bits: what comes is the whole of b. *)
LEMMA DecodedAll ==
  ASSUME NEW b \in Seq(Byte), NEW d, DecHas(b, (8 * Len(b) + 5) \div 6, d)
  PROVE  d.bytes = b
<1> DEFINE n == Len(b)  m == (8 * n + 5) \div 6
<1>1. n \in Nat /\ \A j \in 1..n : b[j] \in Byte
  BY LenProperties, ElementOfSeq
<1>2. PICK k \in Nat :
        \/ m = 4 * k     /\ IsFront(b, d.bytes, 3 * k)
        \/ m = 4 * k + 1
        \/ m = 4 * k + 2 /\ IsFront(b, d.bytes, 3 * k + 1)
        \/ m = 4 * k + 3 /\ IsFront(b, d.bytes, 3 * k + 2)
  BY DEF DecHas
<1> HIDE DEF n
<1>3. /\ m = 4 * k => n = 3 * k
      /\ m # 4 * k + 1
      /\ m = 4 * k + 2 => n = 3 * k + 1
      /\ m = 4 * k + 3 => n = 3 * k + 2
  BY <1>1
<1> HIDE DEF m
<1>4. IsFront(b, d.bytes, n)
  BY <1>2, <1>3
<1>5. d.bytes \in Seq(Nat) /\ Len(d.bytes) = n /\ \A j \in 1..n : d.bytes[j] = b[j]
  BY <1>4 DEF IsFront, ByteAt, n
<1>6. b \in Seq(Nat)
  BY BytesNat
<1> QED
  BY <1>5, <1>6, SeqEqual DEF n

(* Where the Base64 of b has its characters and its padding *)
LEMMA EncodePlaces ==
  ASSUME NEW b \in Seq(Byte)
  PROVE  LET m == (8 * Len(b) + 5) \div 6
         IN  /\ m \in Nat /\ Len(RfcEncode(b)) \in Nat /\ Len(RfcEncode(b)) >= m
             /\ \A i \in 1..Len(RfcEncode(b)) :
                  RfcEncode(b)[i] = IF i <= m THEN CharOf(b, i) ELSE Pad
<1> DEFINE m == (8 * Len(b) + 5) \div 6  t == RfcChars(b)  p == Padding(t)  q == (-m) % 4
<1>1. m \in Nat /\ t \in Seq(Sextet) /\ Len(t) = m /\ \A g \in 1..m : t[g] = CharOf(b, g)
  BY RfcCharsText DEF IsText
<1> HIDE DEF m, t
<1>2. q \in Nat
  BY <1>1
<1>3. p = [i \in 1..q |-> Pad]
  BY <1>1 DEF Padding
<1>4. p \in Seq(Char) /\ Len(p) = q /\ \A i \in 1..q : p[i] = Pad
  <2>1. Pad \in Char
    BY DEF Pad, Char
  <2> HIDE DEF q, p
  <2> QED
    BY <1>2, <1>3, <2>1
<1> HIDE DEF p, q
<1> DEFINE u == t \o p
<1>5. t \in Seq(Char)
  <2>1. Sextet \subseteq Char
    BY DEF Sextet, Char
  <2>2. t \in Seq(Sextet)
    BY <1>1
  <2> HIDE DEF u
  <2> QED
    BY <2>1, <2>2, SMT
<1>6. /\ u \in Seq(Char) /\ Len(u) = Len(t) + Len(p)
      /\ \A j \in 1..Len(t) : u[j] = t[j]
      /\ \A j \in 1..Len(p) : u[Len(t) + j] = p[j]
  BY <1>4, <1>5, ConcatPlaces
<1> HIDE DEF u
<1>7. Len(u) = m + q /\ m + q \in Nat /\ m + q >= m
  BY <1>1, <1>2, <1>4, <1>6
<1>8. \A i \in 1..(m + q) : u[i] = IF i <= m THEN CharOf(b, i) ELSE Pad
  <2> TAKE i \in 1..(m + q)
  <2>1. CASE i <= m
    <3>1. i \in 1..m
      BY <1>1, <2>1
    <3> QED
      BY <1>1, <1>6, <2>1, <3>1
  <2>2. CASE ~(i <= m)
    <3>1. i - m \in 1..q /\ m + (i - m) = i
      BY <1>1, <1>2, <2>2
    <3>2. u[m + (i - m)] = p[i - m]
      BY <1>1, <1>4, <1>6, <3>1
    <3> QED
      BY <1>4, <2>2, <3>1, <3>2
  <2> QED
    BY <2>1, <2>2
<1>9. RfcEncode(b) = u
  BY DEF RfcEncode, u, t, p
<1> QED
  BY <1>1, <1>7, <1>8, <1>9 DEF m

(* d is b decoded, unless there was no room for it. *)
DecodesTo(d, b) ==
  \/ d.end = "abort"
  \/ d.end \in {"none", "padding"} /\ d.bytes = b

(* decode_base64 gives back what was encoded, for every sequence of bytes. *)
THEOREM DecodeBack ==
  ASSUME NEW b \in Seq(Byte), NEW room \in Int
  PROVE  DecodesTo(DecodeBase64(RfcEncode(b), room), b)
<1> DEFINE t == RfcEncode(b)  l == Len(t)  m == (8 * Len(b) + 5) \div 6
           start == [bytes |-> <<>>, part |-> 0, shift |-> 0, room |-> room, end |-> "none"]
           Good(i, d) == /\ d \in DecState
                         /\ i <= m => DecGood(b, i, d)
                         /\ i > m => d.end = "abort" \/ (d.end = "padding" /\ d.bytes = b)
           D == [i \in 0..l |-> {d \in DecState : Good(i, d)}]
           step == [x \in (1..l) \X DecState |-> Decoded(x[2], t[x[1]])]
           Is(F) == F = [i \in 0..l |-> IF i = 0 THEN start ELSE Decoded(F[i - 1], t[i])]
           G == CHOOSE F : Is(F)
<1>1. /\ m \in Nat /\ l \in Nat /\ l >= m
      /\ \A i \in 1..l : t[i] = IF i <= m THEN CharOf(b, i) ELSE Pad
  BY EncodePlaces
<1>2. DecodeBase64(t, room) = G[l]
  BY DEF DecodeBase64
<1> HIDE DEF t, l
<1>3. Good(0, start)
  <2>1. start \in DecState
    BY DEF DecState
  <2>2. DecGood(b, 0, start)
    <3>1. IsFront(b, <<>>, 0)
      BY DEF IsFront
    <3>2. 0 \in Nat /\ 0 = 4 * 0 /\ 3 * 0 = 0
      OBVIOUS
    <3>3. DecHas(b, 0, start)
      BY <3>1, <3>2 DEF DecHas
    <3> QED
      BY <2>1, <3>3 DEF DecGood
  <2> HIDE DEF start, m
  <2> QED
    BY <1>1, <2>1, <2>2
<1>4. ASSUME NEW i \in 1..l, NEW d \in DecState, Good(i - 1, d)
      PROVE  Good(i, Decoded(d, t[i]))
  <2>1. CASE i <= m
    <3>1. t[i] = CharOf(b, i) /\ i - 1 \in Nat /\ i - 1 <= m /\ (i - 1) + 1 = i
      BY <1>1, <2>1
    <3>2. DecGood(b, i - 1, d)
      BY <1>4, <3>1
    <3>3. DecGood(b, (i - 1) + 1, Decoded(d, CharOf(b, (i - 1) + 1)))
      BY <3>1, <3>2, DecodedGood
    <3>4. DecGood(b, i, Decoded(d, t[i]))
      BY <3>1, <3>3
    <3> DEFINE e == Decoded(d, t[i])
    <3> HIDE DEF e, m
    <3>5. DecGood(b, i, e) /\ e \in DecState
      BY <3>4 DEF e, DecGood
    <3> QED
      BY <1>1, <2>1, <3>5 DEF e
  <2>2. CASE ~(i <= m)
    <3> DEFINE e == Decoded(d, t[i])
    <3>1. t[i] = Pad
      BY <1>1, <2>2
    <3>2. e = IF d.end # "none" THEN d ELSE [d EXCEPT !.end = "padding"]
      BY <3>1 DEF Decoded
    <3>3. d.end = "abort" \/ (d.end \in {"none", "padding"} /\ d.bytes = b)
      <4>1. CASE i - 1 = m
        <5>1. DecGood(b, m, d)
          <6> HIDE DEF m
          <6>1. m <= m
            BY <1>1
          <6> QED
            BY <1>4, <4>1, <6>1
        <5>2. d.end = "none" => DecHas(b, m, d)
          BY <5>1 DEF DecGood
        <5>3. d.end = "none" => d.bytes = b
          BY <5>2, DecodedAll
        <5>4. d.end \in {"none", "abort"}
          BY <5>1 DEF DecGood
        <5> QED
          BY <5>3, <5>4, Zenon
      <4>2. CASE i - 1 # m
        <5>1. i - 1 > m
          BY <1>1, <2>2, <4>2
        <5> QED
          BY <1>4, <5>1
      <4> QED
        BY <4>1, <4>2
    <3> HIDE DEF e, m
    <3>4. e \in DecState
      BY <3>2 DEF DecState
    <3>5. e.end = "abort" \/ (e.end = "padding" /\ e.bytes = b)
      BY <3>2, <3>3 DEF DecState
    <3> QED
      BY <2>2, <3>4, <3>5 DEF e
  <2> QED
    BY <2>1, <2>2
<1> HIDE DEF Good, start, m
<1>5. PICK f : Recursion(f, l, start, step, D)
  <2>1. start \in D[0]
    <3>1. 0 \in 0..l /\ start \in DecState
      BY <1>1, <1>3 DEF Good
    <3> QED
      BY <1>3, <3>1
  <2>2. \A i \in 1..l : \A v \in D[i - 1] : step[<<i, v>>] \in D[i]
    <3> TAKE i \in 1..l
    <3> TAKE v \in D[i - 1]
    <3>1. i \in 0..l /\ i - 1 \in 0..l
      BY <1>1
    <3>2. v \in DecState /\ Good(i - 1, v)
      BY <3>1
    <3>3. step[<<i, v>>] = Decoded(v, t[i])
      BY <3>2
    <3>4. D[i] = {d \in DecState : Good(i, d)}
      BY <3>1
    <3>5. Good(i, Decoded(v, t[i])) /\ Decoded(v, t[i]) \in DecState
      BY <1>4, <3>2 DEF Good
    <3> HIDE DEF step, D
    <3> QED
      BY <3>3, <3>4, <3>5
  <2> HIDE DEF step, D
  <2> QED
    BY <1>1, <2>1, <2>2, RecursionExists
<1>6. \A i \in 0..l : f[i] \in DecState /\ Good(i, f[i])
  BY <1>5 DEF Recursion
<1>7. f = [i \in 0..l |-> f[i]] /\ f[0] = start
  BY <1>5 DEF Recursion
<1>8. \A i \in 1..l : f[i] = Decoded(f[i - 1], t[i])
  <2> TAKE i \in 1..l
  <2>1. i - 1 \in 0..l
    BY <1>1
  <2>2. f[i] = step[<<i, f[i - 1]>>]
    BY <1>5 DEF Recursion
  <2>3. <<i, f[i - 1]>> \in (1..l) \X DecState
    BY <1>6, <2>1
  <2> QED
    BY <2>2, <2>3
<1>9. Is(f)
  <2>1. ASSUME NEW i \in 0..l
        PROVE  f[i] = IF i = 0 THEN start ELSE Decoded(f[i - 1], t[i])
    <3>2. l \in Nat
      BY <1>1
    <3>1. i = 0 \/ (i \in 1..l /\ i # 0)
      BY <3>2
    <3> QED
      BY <1>7, <1>8, <3>1, Zenon
  <2> QED
    BY <1>7, <2>1
<1>10. Is(G)
  <2> HIDE DEF Is
  <2> QED
    BY <1>9
<1> HIDE DEF G
<1>11. G[0] = start /\ \A i \in 1..l : G[i] = Decoded(G[i - 1], t[i])
  BY <1>1, <1>10
<1>12. f[l] = G[l]
  <2>1. StepAlike(f, G, l)
    BY <1>7, <1>8, <1>11 DEF StepAlike
  <2>2. Alike(f, G, l)
    BY <1>1, <2>1, RecursionUnique
  <2>3. l \in 0..l
    BY <1>1
  <2> QED
    BY <2>2, <2>3 DEF Alike
<1>13. G[l] \in DecState /\ Good(l, G[l])
  <2>1. l \in 0..l
    BY <1>1
  <2> QED
    BY <1>6, <1>12, <2>1
<1> DEFINE d == G[l]
<1> HIDE DEF d
<1>14. DecodesTo(d, b)
  <2>1. Good(l, d)
    BY <1>13 DEF d
  <2>2. CASE l <= m
    <3>1. l = m
      BY <1>1, <2>2
    <3>2. DecGood(b, m, d)
      BY <2>1, <2>2, <3>1 DEF Good
    <3>3. d.end = "none" => d.bytes = b
      BY <3>2, DecodedAll DEF DecGood, m
    <3>4. d.end \in {"none", "abort"}
      BY <3>2 DEF DecGood
    <3> QED
      BY <3>3, <3>4, Zenon DEF DecodesTo
  <2>3. CASE ~(l <= m)
    <3>1. l > m
      BY <1>1, <2>3
    <3> QED
      BY <2>1, <3>1 DEF Good, DecodesTo
  <2> QED
    BY <2>2, <2>3
<1> QED
  BY <1>2, <1>14 DEF d, t

(* Text that begins with no character of Base64 is refused. *)
LEMMA DecodeSpoilt ==
  ASSUME NEW t \in Seq(Char), NEW room
  PROVE  DecodeBase64(<<Other>> \o t, room).end = "error"
<1> DEFINE u == <<Other>> \o t  l == Len(u)
           start == [bytes |-> <<>>, part |-> 0, shift |-> 0, room |-> room, end |-> "none"]
           over == [bytes |-> <<>>, part |-> 0, shift |-> 0, room |-> room, end |-> "error"]
           F == [i \in 0..l |-> IF i = 0 THEN start ELSE over]
           Is(f) == f = [i \in 0..l |-> IF i = 0 THEN start ELSE Decoded(f[i - 1], u[i])]
           G == CHOOSE f : Is(f)
<1>1. l \in Nat \ {0} /\ u[1] = Other
  <2> DEFINE s == <<Other>>
  <2>1. s \in Seq(Char) /\ Len(s) = 1 /\ s[1] = Other
    BY DEF Other, Char
  <2> HIDE DEF s
  <2> DEFINE w == s \o t
  <2>2. Len(t) \in Nat /\ Len(w) = 1 + Len(t) /\ \A j \in 1..1 : w[j] = s[j]
    BY <2>1, ConcatPlaces
  <2> HIDE DEF w
  <2>3. Len(w) \in Nat \ {0} /\ w[1] = Other
    BY <2>1, <2>2
  <2> QED
    BY <2>3 DEF w, s
<1>2. DecodeBase64(u, room) = G[l]
  BY DEF DecodeBase64
<1> HIDE DEF u, l
<1>3. Decoded(start, Other) = over
  BY DEF Decoded, Other, Pad
<1>4. \A c : Decoded(over, c) = over
  BY DEF Decoded
<1>5. ASSUME NEW i \in 1..l PROVE F[i] = Decoded(F[i - 1], u[i])
  <2>1. i \in 0..l /\ i - 1 \in 0..l /\ i # 0
    BY <1>1
  <2>2. F[i] = over
    BY <2>1
  <2>3. CASE i = 1
    <3>1. F[i - 1] = start
      BY <2>1, <2>3
    <3> QED
      BY <1>1, <1>3, <2>2, <2>3, <3>1
  <2>4. CASE i # 1
    <3>1. F[i - 1] = over
      BY <2>1, <2>4
    <3> QED
      BY <1>4, <2>2, <3>1
  <2> QED
    BY <2>3, <2>4
<1>6. F[0] = start /\ F = [i \in 0..l |-> F[i]] /\ F[l] = over
  BY <1>1
<1> HIDE DEF start, over, F
<1>7. Is(F)
  <2>1. \A i \in 0..l : F[i] = IF i = 0 THEN start ELSE Decoded(F[i - 1], u[i])
    <3> TAKE i \in 0..l
    <3>1. l \in Nat
      BY <1>1
    <3>2. i = 0 \/ (i \in 1..l /\ i # 0)
      BY <3>1
    <3> QED
      BY <1>5, <1>6, <3>2, Zenon
  <2> QED
    BY <1>6, <2>1
<1>8. Is(G)
  <2> HIDE DEF Is
  <2> QED
    BY <1>7
<1> HIDE DEF G
<1>9. G[0] = start /\ \A i \in 1..l : G[i] = Decoded(G[i - 1], u[i])
  BY <1>1, <1>8
<1>10. F[l] = G[l]
  <2>1. StepAlike(F, G, l)
    BY <1>5, <1>6, <1>9 DEF StepAlike
  <2>2. Alike(F, G, l)
    BY <1>1, <2>1, RecursionUnique
  <2>3. l \in 0..l
    BY <1>1
  <2> QED
    BY <2>2, <2>3 DEF Alike
<1> QED
  BY <1>2, <1>6, <1>10 DEF over, u

(* The Base64 of b is text, and is empty only if b is. *)
LEMMA EncodeType ==
  ASSUME NEW b \in Seq(Byte)
  PROVE  RfcEncode(b) \in Seq(Char) /\ (RfcEncode(b) = <<>> <=> b = <<>>)
<1> DEFINE n == Len(b)  m == (8 * n + 5) \div 6  t == RfcEncode(b)  l == Len(t)
<1>1. n \in Nat
  BY LenProperties
<1>2. /\ m \in Nat /\ l \in Nat /\ l >= m
  BY EncodePlaces
<1>3. t \in Seq(Char) /\ (m = 0 => l = 0)
  <2> DEFINE u == RfcChars(b)  p == Padding(u)  q == (-m) % 4
  <2>1. u \in Seq(Sextet) /\ Len(u) = m
    BY RfcCharsText DEF IsText
  <2>2. Seq(Sextet) \subseteq Seq(Char)
    <3>1. Sextet \subseteq Char
      BY DEF Sextet, Char
    <3> QED
      BY <3>1, SeqSub
  <2>3. u \in Seq(Char)
    BY <2>1, <2>2
  <2>4. q \in Nat /\ (m = 0 => q = 0)
    <3> HIDE DEF m
    <3> QED
      BY <1>2
  <2>5. p = [i \in 1..q |-> Pad]
    BY <2>1 DEF Padding
  <2>6. p \in Seq(Char) /\ Len(p) = q
    <3>1. Pad \in Char
      BY DEF Pad, Char
    <3> HIDE DEF q, p
    <3> QED
      BY <2>4, <2>5, <3>1
  <2> HIDE DEF u, p, q, m
  <2> DEFINE w == u \o p
  <2>7. w \in Seq(Char) /\ Len(w) = Len(u) + Len(p)
    BY <2>3, <2>6, ConcatPlaces
  <2>8. t = w
    BY DEF RfcEncode, u, p
  <2> HIDE DEF w
  <2>9. m = 0 => Len(w) = 0
    BY <2>1, <2>4, <2>6, <2>7
  <2> QED
    BY <2>7, <2>8, <2>9
<1> HIDE DEF n, t, l
<1>4. n = 0 => m = 0
  BY <1>1
<1>5. n # 0 => m # 0
  BY <1>1
<1> HIDE DEF m
<1>6. l = 0 <=> n = 0
  BY <1>2, <1>3, <1>4, <1>5
<1>7. (t = <<>> <=> l = 0) /\ (b = <<>> <=> n = 0)
  BY <1>3, EmptySeq DEF l, n
<1> QED
  BY <1>3, <1>6, <1>7 DEF t

(* The state of build_ndef_msg *)
BuildState == [bytes : Seq(Byte), end : {"none", "error", "abort"}]

(* Record i of what is typed asks for record r with flags f. *)
Asks(msg, i, r, f) ==
  /\ RecFlags(msg, i) = f /\ msg[i].tnf = r.tnf
  /\ msg[i].type = RfcEncode(r.type) /\ msg[i].id = RfcEncode(r.id)

(* The header that is written is that of the record meant. *)
LEMMA HeaderWritten ==
  ASSUME NEW r \in NdefRecord, NEW f \in SUBSET FlagBits
  PROVE  Header(f, r.tnf, Len(r.type), Len(r.payload), Len(r.id)) = HeaderOf(r, f)
<1> DEFINE x == FlagByte(f) + r.tnf  y == Len(r.type)  z == Len(r.payload)  u == Len(r.id)
           h == Header(f, r.tnf, y, z, u)  g == HeaderOf(r, f)
<1>1. x \in Byte /\ y \in 0..255 /\ z \in 0..255 /\ u \in 0..255
  <2>1. r.tnf \in Tnfs /\ r.type \in Field /\ r.id \in Field /\ r.payload \in Field
    BY DEF NdefRecord
  <2>2. x \in 0..255
    BY <2>1, FlagFacts
  <2> QED
    BY <2>1, <2>2, FieldLen DEF Byte
<1>2. y % 256 = y /\ z % 256 = z /\ u % 256 = u
  <2> HIDE DEF y, z, u
  <2> QED
    BY <1>1, ByteMod
<1>3. g \in Seq(Byte) /\ Len(g) = HdrLen(f)
  BY HeaderPlaces
<1> HIDE DEF x, y, z, u, g
<1>4. h = <<x, y>> \o (IF SR \in f THEN <<z>> ELSE <<0, 0, 0, z>>)
                   \o (IF IL \in f THEN <<u>> ELSE <<>>)
  BY <1>2 DEF Header, x
<1>5. g = <<x, y>> \o (IF SR \in f THEN <<>> ELSE <<0, 0, 0>>) \o <<z>>
                   \o (IF IL \in f THEN <<u>> ELSE <<>>)
  BY DEF HeaderOf, g, x, y, z, u
<1>6. x \in Byte /\ y \in Byte /\ z \in Byte /\ u \in Byte /\ 0 \in Byte
  BY <1>1 DEF Byte
<1> HIDE DEF h
<1>7. CASE SR \in f /\ IL \in f
  <2> DEFINE v == <<x, y>> \o <<z>> \o <<u>>  w == <<x, y>> \o <<>> \o <<z>> \o <<u>>
  <2>1. h = v /\ g = w
    BY <1>4, <1>5, <1>7
  <2>2. /\ v \in Seq(Byte) /\ w \in Seq(Byte) /\ Len(v) = 4 /\ Len(w) = 4
        /\ v[1] = x /\ v[2] = y /\ v[3] = z /\ v[4] = u
        /\ w[1] = x /\ w[2] = y /\ w[3] = z /\ w[4] = u
    BY <1>6
  <2> HIDE DEF v, w
  <2>3. \A i \in 1..4 : v[i] = w[i]
    BY <2>2
  <2>4. v = w
    BY <2>2, <2>3, SeqEqual
  <2> QED
    BY <2>1, <2>4 DEF h, g, y, z, u
<1>8. CASE SR \in f /\ IL \notin f
  <2> DEFINE v == <<x, y>> \o <<z>> \o <<>>  w == <<x, y>> \o <<>> \o <<z>> \o <<>>
  <2>1. h = v /\ g = w
    BY <1>4, <1>5, <1>8
  <2>2. /\ v \in Seq(Byte) /\ w \in Seq(Byte) /\ Len(v) = 3 /\ Len(w) = 3
        /\ v[1] = x /\ v[2] = y /\ v[3] = z
        /\ w[1] = x /\ w[2] = y /\ w[3] = z
    BY <1>6
  <2> HIDE DEF v, w
  <2>3. \A i \in 1..3 : v[i] = w[i]
    BY <2>2
  <2>4. v = w
    BY <2>2, <2>3, SeqEqual
  <2> QED
    BY <2>1, <2>4 DEF h, g, y, z, u
<1>9. CASE SR \notin f /\ IL \in f
  <2> DEFINE v == <<x, y>> \o <<0, 0, 0, z>> \o <<u>>
             w == <<x, y>> \o <<0, 0, 0>> \o <<z>> \o <<u>>
  <2>1. h = v /\ g = w
    BY <1>4, <1>5, <1>9
  <2>2. /\ v \in Seq(Byte) /\ w \in Seq(Byte) /\ Len(v) = 7 /\ Len(w) = 7
        /\ v[1] = x /\ v[2] = y /\ v[3] = 0 /\ v[4] = 0 /\ v[5] = 0 /\ v[6] = z /\ v[7] = u
        /\ w[1] = x /\ w[2] = y /\ w[3] = 0 /\ w[4] = 0 /\ w[5] = 0 /\ w[6] = z /\ w[7] = u
    BY <1>6
  <2> HIDE DEF v, w
  <2>3. \A i \in 1..7 : v[i] = w[i]
    BY <2>2
  <2>4. v = w
    BY <2>2, <2>3, SeqEqual
  <2> QED
    BY <2>1, <2>4 DEF h, g, y, z, u
<1>10. CASE SR \notin f /\ IL \notin f
  <2> DEFINE v == <<x, y>> \o <<0, 0, 0, z>> \o <<>>
             w == <<x, y>> \o <<0, 0, 0>> \o <<z>> \o <<>>
  <2>1. h = v /\ g = w
    BY <1>4, <1>5, <1>10
  <2>2. /\ v \in Seq(Byte) /\ w \in Seq(Byte) /\ Len(v) = 6 /\ Len(w) = 6
        /\ v[1] = x /\ v[2] = y /\ v[3] = 0 /\ v[4] = 0 /\ v[5] = 0 /\ v[6] = z
        /\ w[1] = x /\ w[2] = y /\ w[3] = 0 /\ w[4] = 0 /\ w[5] = 0 /\ w[6] = z
    BY <1>6
  <2> HIDE DEF v, w
  <2>3. \A i \in 1..6 : v[i] = w[i]
    BY <2>2
  <2>4. v = w
    BY <2>2, <2>3, SeqEqual
  <2> QED
    BY <2>1, <2>4 DEF h, g, y, z, u
<1> QED
  BY <1>7, <1>8, <1>9, <1>10

(* The two ways to put three one behind the other are the same. *)
InOrder(s, t, u) == (s \o t) \o u = s \o (t \o u)

(* It does not matter which two of three are put together first. *)
LEMMA ConcatOrder ==
  ASSUME NEW S, NEW s \in Seq(S), NEW t \in Seq(S), NEW u \in Seq(S)
  PROVE  InOrder(s, t, u)
BY ConcatAssociative DEF InOrder

(* Putting one behind the other from the right or from the left is the same. *)
LEMMA ConcatFive ==
  ASSUME NEW S, NEW a \in Seq(S), NEW h \in Seq(S), NEW t \in Seq(S), NEW d \in Seq(S),
         NEW p \in Seq(S)
  PROVE  /\ (((a \o h) \o t) \o d) \o p = a \o (((h \o t) \o d) \o p)
         /\ a \o (((h \o t) \o d) \o p) \in Seq(S)
<1>1. PICK x \in Seq(S) : x = h \o t
  BY ConcatPlaces
<1>2. PICK y \in Seq(S) : y = x \o d
  BY ConcatPlaces
<1>3. PICK z \in Seq(S) : z = y \o p
  BY ConcatPlaces
<1>4. (a \o h) \o t = a \o x
  <2>1. InOrder(a, h, t)
    BY ConcatOrder
  <2> QED
    BY <1>1, <2>1 DEF InOrder
<1>5. (a \o x) \o d = a \o y
  <2>1. InOrder(a, x, d)
    BY ConcatOrder
  <2> QED
    BY <1>2, <2>1 DEF InOrder
<1>6. (a \o y) \o p = a \o z
  <2>1. InOrder(a, y, p)
    BY ConcatOrder
  <2> QED
    BY <1>3, <2>1 DEF InOrder
<1>7. a \o z \in Seq(S)
  BY ConcatPlaces
<1> QED
  BY <1>1, <1>2, <1>3, <1>4, <1>5, <1>6, <1>7, Zenon

(* A record more: what is built has it behind the others, or building ends. *)
LEMMA BuildRecGood ==
  ASSUME NEW msg, NEW i, NEW r \in NdefRecord, NEW f \in SUBSET FlagBits,
         IL \notin f => r.id = <<>>, Asks(msg, i, r, f),
         NEW b \in BuildState, b.end = "none", NEW room \in Int
  PROVE  /\ msg[i].payload = RfcEncode(r.payload) =>
              LET e == BuildRec(msg, room, b, i)
              IN  /\ e \in BuildState
                  /\ e.end = "none" => e.bytes = b.bytes \o RecBytes(r, f)
         /\ msg[i].payload = <<Other>> \o RfcEncode(r.payload) =>
              LET e == BuildRec(msg, room, b, i)
              IN  e \in BuildState /\ e.end # "none"
<1> DEFINE t == r.type  d == r.id  p == r.payload
           left == room - Len(b.bytes) - HdrLen(f)
           dt == DecodeBase64(RfcEncode(t), left)
           di == DecodeBase64(RfcEncode(d), left - Len(dt.bytes))
           dp == DecodeBase64(msg[i].payload, left - Len(dt.bytes) - Len(di.bytes))
           Fails(z) == z.end \in {"error", "abort"}
           hw == Header(f, r.tnf, Len(dt.bytes), Len(dp.bytes), Len(di.bytes))
           all == b.bytes \o hw \o dt.bytes \o di.bytes \o dp.bytes
           e == BuildRec(msg, room, b, i)
<1>1. t \in Seq(Byte) /\ d \in Seq(Byte) /\ p \in Seq(Byte) /\ Len(p) \in 0..255
  BY FieldLen DEF NdefRecord, Field
<1>2. b.bytes \in Seq(Byte) /\ Len(b.bytes) \in Nat
  BY LenProperties DEF BuildState
<1>3. HdrLen(f) \in Int
  BY HeaderPlaces
<1>4. left \in Int
  <2> DEFINE x == Len(b.bytes)  y == HdrLen(f)
  <2>1. x \in Nat /\ y \in Int
    BY <1>2, <1>3
  <2> HIDE DEF x, y
  <2>2. room - x - y \in Int
    BY <2>1
  <2> QED
    BY <2>2 DEF x, y
<1>5. (IF IL \in f THEN RfcEncode(d) ELSE <<>>) = RfcEncode(d)
  <2>1. CASE IL \in f
    BY <2>1
  <2>2. CASE IL \notin f
    BY <1>1, <2>2, EncodeType
  <2> QED
    BY <2>1, <2>2
<1>6. e = IF Fails(dt) THEN [b EXCEPT !.end = dt.end]
          ELSE IF Fails(di) THEN [b EXCEPT !.end = di.end]
          ELSE IF Fails(dp) THEN [b EXCEPT !.end = dp.end]
          ELSE IF SR \in f /\ Len(dp.bytes) > 255 THEN [b EXCEPT !.end = "error"]
          ELSE [b EXCEPT !.bytes = all]
  <2>1. /\ RecFlags(msg, i) = f /\ msg[i].tnf = r.tnf
        /\ msg[i].type = RfcEncode(t) /\ msg[i].id = RfcEncode(d)
    BY DEF Asks
  <2>2. (IF IL \in f THEN msg[i].id ELSE <<>>) = RfcEncode(d)
    BY <1>5, <2>1
  <2> QED
    BY <2>1, <2>2 DEF BuildRec
<1>7. DecodesTo(dt, t)
  BY <1>1, <1>4, DecodeBack
<1> HIDE DEF left, dt
<1>8. ASSUME dt.end # "abort"
      PROVE  /\ dt.end \in {"none", "padding"} /\ dt.bytes = t
             /\ DecodesTo(di, d)
  <2>1. dt.end \in {"none", "padding"} /\ dt.bytes = t
    BY <1>7, <1>8 DEF DecodesTo
  <2> DEFINE x == Len(t)
  <2>2. x \in Nat
    BY <1>1, LenProperties
  <2> HIDE DEF x
  <2>3. left - x \in Int
    BY <1>4, <2>2
  <2>4. left - Len(dt.bytes) \in Int
    BY <2>1, <2>3 DEF x
  <2> QED
    BY <1>1, <2>1, <2>4, DecodeBack
<1> HIDE DEF di, e, t, d, p
<1>9. ASSUME dt.end # "abort", di.end # "abort"
      PROVE  /\ di.end \in {"none", "padding"} /\ di.bytes = d
             /\ left - Len(dt.bytes) - Len(di.bytes) \in Int
  <2>1. di.end \in {"none", "padding"} /\ di.bytes = d /\ dt.bytes = t
    BY <1>8, <1>9 DEF DecodesTo
  <2> DEFINE x == Len(t)  y == Len(d)
  <2>2. x \in Nat /\ y \in Nat
    BY <1>1, LenProperties
  <2> HIDE DEF x, y
  <2>3. left - x - y \in Int
    BY <1>4, <2>2
  <2> QED
    BY <2>1, <2>3 DEF x, y
<1>10. CASE dt.end = "abort"
  <2>1. e = [b EXCEPT !.end = "abort"]
    BY <1>6, <1>10
  <2>2. e \in BuildState /\ e.end = "abort"
    BY <2>1 DEF BuildState
  <2> QED
    BY <2>2 DEF e
<1>11. CASE dt.end # "abort" /\ di.end = "abort"
  <2>1. dt.end \notin {"error", "abort"}
    BY <1>8, <1>11
  <2>2. e = [b EXCEPT !.end = "abort"]
    BY <1>6, <1>11, <2>1
  <2>3. e \in BuildState /\ e.end = "abort"
    BY <2>2 DEF BuildState
  <2> QED
    BY <2>3 DEF e
<1>12. CASE dt.end # "abort" /\ di.end # "abort"
  <2>1. ~Fails(dt) /\ ~Fails(di) /\ dt.bytes = t /\ di.bytes = d
    BY <1>8, <1>9, <1>12
  <2>2. left - Len(dt.bytes) - Len(di.bytes) \in Int
    BY <1>9, <1>12
  <2>3. ASSUME msg[i].payload = <<Other>> \o RfcEncode(p)
        PROVE  e \in BuildState /\ e.end # "none"
    <3>1. RfcEncode(p) \in Seq(Char)
      BY <1>1, EncodeType
    <3>2. dp.end = "error"
      BY <2>3, <3>1, DecodeSpoilt
    <3> HIDE DEF dp, all
    <3>3. e = [b EXCEPT !.end = "error"]
      BY <1>6, <2>1, <3>2
    <3> QED
      BY <3>3 DEF BuildState
  <2>4. ASSUME msg[i].payload = RfcEncode(p)
        PROVE  /\ e \in BuildState
               /\ e.end = "none" => e.bytes = b.bytes \o RecBytes(r, f)
    <3>1. DecodesTo(dp, p)
      BY <1>1, <2>2, <2>4, DecodeBack
    <3> HIDE DEF dp
    <3>2. CASE dp.end = "abort"
      <4> HIDE DEF all
      <4>1. e = [b EXCEPT !.end = "abort"]
        BY <1>6, <2>1, <3>2
      <4> QED
        BY <4>1 DEF BuildState
    <3>3. CASE dp.end # "abort"
      <4>1. dp.end \in {"none", "padding"} /\ dp.bytes = p
        BY <3>1, <3>3 DEF DecodesTo
      <4>2. ~Fails(dp) /\ ~(Len(dp.bytes) > 255)
        <5> DEFINE z == Len(p)
        <5>1. z \in 0..255
          BY <1>1
        <5> HIDE DEF z
        <5>2. ~(z > 255)
          BY <5>1
        <5> QED
          BY <4>1, <5>2 DEF z
      <4> DEFINE h == HeaderOf(r, f)
      <4>3. all = (((b.bytes \o h) \o t) \o d) \o p
        <5>1. hw = h
          <6>1. Header(f, r.tnf, Len(t), Len(p), Len(d)) = h
            BY HeaderWritten DEF t, d, p
          <6> QED
            BY <2>1, <4>1, <6>1
        <5> QED
          BY <2>1, <4>1, <5>1
      <4>4. RecBytes(r, f) = ((h \o t) \o d) \o p
        BY DEF RecBytes, HeaderOf, t, d, p
      <4>5. h \in Seq(Byte)
        BY HeaderPlaces
      <4> HIDE DEF h, all
      <4> DEFINE w == ((h \o t) \o d) \o p
      <4>6. /\ (((b.bytes \o h) \o t) \o d) \o p = b.bytes \o w
            /\ b.bytes \o w \in Seq(Byte)
        <5>1. /\ b.bytes \in Seq(Byte) /\ h \in Seq(Byte) /\ t \in Seq(Byte)
              /\ d \in Seq(Byte) /\ p \in Seq(Byte)
          BY <1>1, <1>2, <4>5
        <5> QED
          BY <5>1, ConcatFive, Zenon
      <4>9. all = b.bytes \o w /\ RecBytes(r, f) = w
        BY <4>3, <4>4, <4>6
      <4>10. b.bytes \o w \in Seq(Byte)
        BY <4>6
      <4> HIDE DEF w
      <4>11. e = [b EXCEPT !.bytes = all]
        BY <1>6, <2>1, <4>2
      <4>12. e \in BuildState /\ e.bytes = all
        BY <4>9, <4>10, <4>11 DEF BuildState
      <4> QED
        BY <4>9, <4>12
    <3> QED
      BY <3>2, <3>3
  <2> QED
    BY <2>3, <2>4 DEF e, p
<1> QED
  BY <1>10, <1>11, <1>12

(* What the operator types for the records he means, spoilt or not *)
TypedFor(recs, spoilt) == IF spoilt THEN Spoilt(Typed(recs)) ELSE Typed(recs)

(* It asks for these records, in order, but for a spoilt payload. *)
LEMMA TypedAsks ==
  ASSUME NEW recs \in Seq(NdefRecord), recs # <<>>, NEW spoilt \in BOOLEAN
  PROVE  LET msg == TypedFor(recs, spoilt)
         IN  /\ Len(recs) \in Nat \ {0} /\ Len(msg) = Len(recs)
             /\ \A i \in 1..Len(recs) :
                  /\ Asks(msg, i, recs[i], RecFlags(recs, i))
                  /\ msg[i].payload = IF spoilt /\ i = Len(recs)
                                      THEN <<Other>> \o RfcEncode(recs[i].payload)
                                      ELSE RfcEncode(recs[i].payload)
<1> DEFINE n == Len(recs)  typed == Typed(recs)  msg == TypedFor(recs, spoilt)
           one(i) == [recs[i] EXCEPT !.type = RfcEncode(@), !.id = RfcEncode(@),
                                     !.payload = RfcEncode(@)]
<1>1. n \in Nat \ {0} /\ \A i \in 1..n : recs[i] \in NdefRecord
  <2>1. n \in Nat /\ n # 0
    BY LenProperties, EmptySeq
  <2> HIDE DEF n
  <2>2. n \in Nat \ {0}
    BY <2>1
  <2> QED
    BY <2>2, ElementOfSeq DEF n
<1>2. typed = [i \in 1..n |-> one(i)]
  BY DEF Typed
<1>3. \A i \in 1..n : /\ one(i).flags = recs[i].flags /\ one(i).tnf = recs[i].tnf
                      /\ one(i).type = RfcEncode(recs[i].type) /\ one(i).id = RfcEncode(recs[i].id)
                      /\ one(i).payload = RfcEncode(recs[i].payload)
                      /\ one(i) = [flags |-> recs[i].flags, tnf |-> recs[i].tnf,
                                   type |-> RfcEncode(recs[i].type), id |-> RfcEncode(recs[i].id),
                                   payload |-> RfcEncode(recs[i].payload)]
  <2> TAKE i \in 1..n
  <2> DEFINE r == recs[i]
  <2>1. r \in NdefRecord
    BY <1>1
  <2> HIDE DEF r
  <2>2. [r EXCEPT !.type = RfcEncode(@), !.id = RfcEncode(@), !.payload = RfcEncode(@)]
          = [flags |-> r.flags, tnf |-> r.tnf, type |-> RfcEncode(r.type),
             id |-> RfcEncode(r.id), payload |-> RfcEncode(r.payload)]
    <3> DEFINE t == RfcEncode(r.type)  d == RfcEncode(r.id)  p == RfcEncode(r.payload)
    <3>1. PICK f, h, a, b, c : r = [flags |-> f, tnf |-> h, type |-> a, id |-> b, payload |-> c]
      BY <2>1 DEF NdefRecord
    <3> HIDE DEF t, d, p
    <3>2. [r EXCEPT !.type = t, !.id = d, !.payload = p]
            = [flags |-> r.flags, tnf |-> r.tnf, type |-> t, id |-> d, payload |-> p]
      <4>1. r.flags = f /\ r.tnf = h
        BY <3>1
      <4>2. [r EXCEPT !.type = t, !.id = d, !.payload = p]
              = [flags |-> f, tnf |-> h, type |-> t, id |-> d, payload |-> p]
        <5>1. [r EXCEPT !.type = t] = [flags |-> f, tnf |-> h, type |-> t, id |-> b, payload |-> c]
          BY <3>1
        <5>2. [[flags |-> f, tnf |-> h, type |-> t, id |-> b, payload |-> c] EXCEPT !.id = d]
                = [flags |-> f, tnf |-> h, type |-> t, id |-> d, payload |-> c]
          OBVIOUS
        <5>3. [[flags |-> f, tnf |-> h, type |-> t, id |-> d, payload |-> c] EXCEPT !.payload = p]
                = [flags |-> f, tnf |-> h, type |-> t, id |-> d, payload |-> p]
          OBVIOUS
        <5>4. [r EXCEPT !.type = t, !.id = d, !.payload = p]
                = [[[r EXCEPT !.type = t] EXCEPT !.id = d] EXCEPT !.payload = p]
          OBVIOUS
        <5> QED
          BY <5>1, <5>2, <5>3, <5>4, Zenon
      <4> QED
        BY <4>1, <4>2
    <3> QED
      BY <3>2 DEF t, d, p
  <2> QED
    BY <2>2 DEF r
<1> HIDE DEF one, n
<1>4. Len(typed) = n /\ \A i \in 1..n : typed[i] = one(i)
  BY <1>1, <1>2
<1> DEFINE bad == [one(n) EXCEPT !.payload = <<Other>> \o @]
<1>5. /\ bad.flags = one(n).flags /\ bad.tnf = one(n).tnf
      /\ bad.type = one(n).type /\ bad.id = one(n).id
      /\ bad.payload = <<Other>> \o one(n).payload
  <2> DEFINE o == one(n)
  <2>1. n \in 1..n
    BY <1>1
  <2>2. o = [flags |-> recs[n].flags, tnf |-> recs[n].tnf,
             type |-> RfcEncode(recs[n].type), id |-> RfcEncode(recs[n].id),
             payload |-> RfcEncode(recs[n].payload)]
    BY <1>3, <2>1
  <2> HIDE DEF o
  <2> QED
    BY <2>2 DEF o
<1> HIDE DEF bad, typed
<1>6. /\ Len(msg) = n
      /\ \A i \in 1..n : msg[i] = IF spoilt /\ i = n THEN bad ELSE one(i)
  <2>1. CASE spoilt
    <3>1. msg = [typed EXCEPT ![Len(typed)].payload = <<Other>> \o @]
      BY <2>1 DEF TypedFor, Spoilt, typed
    <3>2. msg = [i \in 1..n |-> IF i = n THEN bad ELSE typed[i]]
      <4>1. typed = [i \in 1..n |-> typed[i]] /\ n \in 1..n
        BY <1>1, <1>2
      <4>2. bad = [typed[n] EXCEPT !.payload = <<Other>> \o @]
        BY <1>4, <4>1 DEF bad
      <4> QED
        BY <1>4, <3>1, <4>1, <4>2
    <3> HIDE DEF msg
    <3> QED
      BY <1>1, <1>4, <2>1, <3>2
  <2>2. CASE ~spoilt
    <3>1. msg = typed
      BY <2>2 DEF TypedFor, typed
    <3> QED
      BY <1>4, <2>2, <3>1
  <2> QED
    BY <2>1, <2>2
<1> HIDE DEF msg
<1>7. ASSUME NEW i \in 1..n
      PROVE  /\ msg[i].flags = recs[i].flags /\ msg[i].tnf = recs[i].tnf
             /\ msg[i].type = RfcEncode(recs[i].type) /\ msg[i].id = RfcEncode(recs[i].id)
             /\ msg[i].payload = IF spoilt /\ i = n
                                 THEN <<Other>> \o RfcEncode(recs[i].payload)
                                 ELSE RfcEncode(recs[i].payload)
  <2>1. CASE spoilt /\ i = n
    BY <1>3, <1>5, <1>6, <2>1
  <2>2. CASE ~(spoilt /\ i = n)
    BY <1>3, <1>6, <2>2
  <2> QED
    BY <2>1, <2>2
<1>8. ASSUME NEW i \in 1..n
      PROVE  Asks(msg, i, recs[i], RecFlags(recs, i))
  <2>1. RfcEncode(recs[i].id) # <<>> <=> recs[i].id # <<>>
    <3>1. recs[i].id \in Seq(Byte)
      BY <1>1 DEF NdefRecord, Field
    <3> QED
      BY <3>1, EncodeType
  <2>2. RecFlags(msg, i) = RecFlags(recs, i)
    BY <1>6, <1>7, <2>1 DEF RecFlags, n
  <2> QED
    BY <1>7, <2>2 DEF Asks
<1> QED
  BY <1>1, <1>6, <1>7, <1>8 DEF n, msg

(* build_ndef_msg builds the message meant, or nothing; nothing at all of  *)
(* what is spoilt.                                                         *)
LEMMA BuildMsgGood ==
  ASSUME NEW recs \in Seq(NdefRecord), recs # <<>>, NEW spoilt \in BOOLEAN, NEW room \in Int
  PROVE  LET e == BuildNdefMsg(TypedFor(recs, spoilt), room)
         IN  /\ e \in BuildState
             /\ e.end = "none" => ~spoilt /\ e.bytes = NdefBytes(recs)
<1> DEFINE n == Len(recs)  msg == TypedFor(recs, spoilt)
           q == [i \in 1..n |-> RecBytes(recs[i], RecFlags(recs, i))]
<1>1. /\ n \in Nat \ {0} /\ Len(msg) = n
      /\ \A i \in 1..n : /\ Asks(msg, i, recs[i], RecFlags(recs, i))
                         /\ msg[i].payload = IF spoilt /\ i = n
                                             THEN <<Other>> \o RfcEncode(recs[i].payload)
                                             ELSE RfcEncode(recs[i].payload)
  BY TypedAsks
<1> HIDE DEF n, msg
<1>2. PICK g : /\ g \in [0..n -> Seq(Byte)] /\ g[0] = <<>> /\ g[n] = NdefBytes(recs)
               /\ \A i \in 1..n : g[i] = g[i - 1] \o RecBytes(recs[i], RecFlags(recs, i))
  <2>1. \A i \in 1..n : RecBytes(recs[i], RecFlags(recs, i)) \in Seq(Byte)
    <3> TAKE i \in 1..n
    <3>1. RecPlaces(RecBytes(recs[i], RecFlags(recs, i)), recs[i], RecFlags(recs, i))
      BY FlagsType, RecHas DEF n
    <3> QED
      BY <3>1 DEF RecPlaces
  <2>2. q \in Seq(Seq(Byte)) /\ Len(q) = n
    BY <1>1, <2>1
  <2>3. NdefBytes(recs) = FlattenSeq(q)
    BY DEF NdefBytes, n
  <2>4. PICK g : PrefixList(g, q, Byte)
    <3> HIDE DEF q
    <3> QED
      BY <2>2, FlattenPrefixes
  <2>5. \A i \in 1..n : q[i] = RecBytes(recs[i], RecFlags(recs, i))
    OBVIOUS
  <2> HIDE DEF q
  <2> QED
    BY <2>2, <2>3, <2>4, <2>5 DEF PrefixList
<1> DEFINE start == [bytes |-> <<>>, end |-> "none"]
           Step(i, b) == IF b.end = "none" THEN BuildRec(msg, room, b, i) ELSE b
           Good(i, b) == b.end = "none" => b.bytes = g[i] /\ ~(spoilt /\ i = n)
           D == [i \in 0..n |-> {b \in BuildState : Good(i, b)}]
           step == [x \in (1..n) \X BuildState |-> Step(x[1], x[2])]
           Is(F) == F = [i \in 0..n |->
                           IF i = 0 THEN start
                           ELSE IF F[i - 1].end = "none" THEN BuildRec(msg, room, F[i - 1], i)
                           ELSE F[i - 1]]
           G == CHOOSE F : Is(F)
<1>3. BuildNdefMsg(msg, room) = G[n]
  BY <1>1 DEF BuildNdefMsg
<1>4. start \in BuildState /\ Good(0, start)
  <2>1. start \in BuildState
    BY DEF BuildState
  <2>2. n # 0
    BY <1>1
  <2> QED
    BY <1>2, <2>1, <2>2
<1>5. ASSUME NEW i \in 1..n, NEW b \in BuildState, Good(i - 1, b)
      PROVE  Step(i, b) \in BuildState /\ Good(i, Step(i, b))
  <2>1. CASE b.end # "none"
    BY <2>1
  <2>2. CASE b.end = "none"
    <3> DEFINE r == recs[i]  f == RecFlags(recs, i)  e == BuildRec(msg, room, b, i)
    <3>1. r \in NdefRecord /\ f \in SUBSET FlagBits /\ (IL \notin f => r.id = <<>>)
      BY FlagsType DEF n
    <3>2. Asks(msg, i, r, f)
      BY <1>1
    <3>3. b.bytes = g[i - 1] /\ g[i] = g[i - 1] \o RecBytes(r, f)
      BY <1>2, <1>5, <2>2
    <3>4. Step(i, b) = e
      BY <2>2
    <3> HIDE DEF r, f
    <3>5. /\ msg[i].payload = RfcEncode(r.payload) =>
               e \in BuildState /\ (e.end = "none" => e.bytes = b.bytes \o RecBytes(r, f))
          /\ msg[i].payload = <<Other>> \o RfcEncode(r.payload) =>
               e \in BuildState /\ e.end # "none"
      BY <2>2, <3>1, <3>2, BuildRecGood
    <3>6. CASE spoilt /\ i = n
      <4>1. msg[i].payload = <<Other>> \o RfcEncode(r.payload)
        BY <1>1, <3>6 DEF r
      <4> HIDE DEF e
      <4>2. e \in BuildState /\ e.end # "none"
        BY <3>5, <4>1
      <4> HIDE DEF Step
      <4> QED
        BY <3>4, <4>2
    <3>7. CASE ~(spoilt /\ i = n)
      <4>1. msg[i].payload = RfcEncode(r.payload)
        BY <1>1, <3>7 DEF r
      <4> HIDE DEF e
      <4>2. e \in BuildState /\ (e.end = "none" => e.bytes = g[i])
        BY <3>3, <3>5, <4>1
      <4> HIDE DEF Step
      <4> QED
        BY <3>4, <3>7, <4>2
    <3> QED
      BY <3>6, <3>7
  <2> QED
    BY <2>1, <2>2
<1> HIDE DEF Good, start
<1>6. PICK f : Recursion(f, n, start, step, D)
  <2>1. start \in D[0]
    <3>1. 0 \in 0..n
      BY <1>1
    <3> QED
      BY <1>4, <3>1
  <2>2. \A i \in 1..n : \A v \in D[i - 1] : step[<<i, v>>] \in D[i]
    <3> TAKE i \in 1..n
    <3> TAKE v \in D[i - 1]
    <3>1. i \in 0..n /\ i - 1 \in 0..n
      BY <1>1
    <3>2. v \in BuildState /\ Good(i - 1, v)
      BY <3>1
    <3> HIDE DEF Step
    <3>3. step[<<i, v>>] = Step(i, v)
      BY <3>2
    <3>4. D[i] = {b \in BuildState : Good(i, b)}
      BY <3>1
    <3>5. Good(i, Step(i, v)) /\ Step(i, v) \in BuildState
      BY <1>5, <3>2
    <3> HIDE DEF step, D
    <3> QED
      BY <3>3, <3>4, <3>5
  <2> HIDE DEF step, D
  <2>3. n \in Nat
    BY <1>1
  <2> QED
    BY <2>1, <2>2, <2>3, RecursionExists
<1>7. \A i \in 0..n : f[i] \in BuildState /\ Good(i, f[i])
  BY <1>6 DEF Recursion
<1>8. f = [i \in 0..n |-> f[i]] /\ f[0] = start
  BY <1>6 DEF Recursion
<1>9. ASSUME NEW i \in 1..n PROVE f[i] = Step(i, f[i - 1])
  <2>1. i - 1 \in 0..n
    BY <1>1
  <2>2. f[i] = step[<<i, f[i - 1]>>]
    BY <1>6 DEF Recursion
  <2>3. f[i - 1] \in BuildState
    BY <1>7, <2>1
  <2> HIDE DEF Step
  <2> QED
    BY <2>2, <2>3
<1>10. Is(f)
  <2>1. ASSUME NEW i \in 0..n
        PROVE  f[i] = IF i = 0 THEN start
                      ELSE IF f[i - 1].end = "none" THEN BuildRec(msg, room, f[i - 1], i)
                      ELSE f[i - 1]
    <3>1. n \in Nat
      BY <1>1
    <3>2. i = 0 \/ (i \in 1..n /\ i # 0)
      BY <3>1
    <3> QED
      BY <1>8, <1>9, <3>2, Zenon
  <2> QED
    BY <1>8, <2>1
<1>11. Is(G)
  <2> HIDE DEF Is
  <2> QED
    BY <1>10
<1> HIDE DEF G
<1>12. G[0] = start /\ \A i \in 1..n : G[i] = Step(i, G[i - 1])
  BY <1>1, <1>11
<1>13. f[n] = G[n]
  <2> HIDE DEF Step
  <2>1. StepAlike(f, G, n)
    BY <1>8, <1>9, <1>12 DEF StepAlike
  <2>2. Alike(f, G, n)
    BY <1>1, <2>1, RecursionUnique
  <2>3. n \in 0..n
    BY <1>1
  <2> QED
    BY <2>2, <2>3 DEF Alike
<1>14. G[n] \in BuildState /\ Good(n, G[n])
  <2>1. n \in 0..n
    BY <1>1
  <2> QED
    BY <1>7, <1>13, <2>1
<1> DEFINE e == G[n]
<1> HIDE DEF e
<1>15. e \in BuildState /\ (e.end = "none" => ~spoilt /\ e.bytes = NdefBytes(recs))
  BY <1>2, <1>14 DEF Good, e
<1> QED
  BY <1>3, <1>15 DEF e, msg

(* The SNEP request to store records *)
PutOf(recs) == SnepCreateMsg(SNEP_REQ_PUT, Len(NdefBytes(recs))) \o NdefBytes(recs)

(* What goes out for the records meant: the request for these, or nothing *)
SentFor(recs, s) ==
  /\ s.end \in {"none", "error", "abort", "overrun"} /\ s.bytes \in Seq(Byte)
  /\ s.end = "none" /\ recs # <<>> => s.bytes = PutOf(recs) /\ Len(NdefBytes(recs)) <= PduRoom

(* The header of a request of less than 256 bytes has six bytes, of which  *)
(* the last two are the length.                                            *)
LEMMA PutHeader ==
  ASSUME NEW len \in 0..255
  PROVE  LET h == SnepCreateMsg(SNEP_REQ_PUT, len)
         IN  /\ h \in Seq(Byte) /\ Len(h) = 6
             /\ h[1] = 16 /\ h[2] = 2 /\ h[5] * 256 + h[6] = len
<1> DEFINE a == len \div 256  b == len % 256
<1>1. a \in Byte /\ b \in Byte /\ a * 256 + b = len
  BY DEF Byte
<1> HIDE DEF a, b
<1>2. <<16, 2, 0, 0, a, b>> \in Seq(Byte)
  BY <1>1 DEF Byte
<1>3. SnepCreateMsg(SNEP_REQ_PUT, len) = <<16, 2, 0, 0, a, b>>
  BY DEF SnepCreateMsg, SNEP_REQ_PUT, SNEP_VERSION, a, b
<1> QED
  BY <1>1, <1>2, <1>3

(* create_snep_cp makes the request for what is meant, or nothing. *)
LEMMA CreateGood ==
  ASSUME NEW recs \in Seq(NdefRecord), recs # <<>>, NEW spoilt \in BOOLEAN
  PROVE  SentFor(recs, CreateSnepCp(TypedFor(recs, spoilt)))
<1> DEFINE b == BuildNdefMsg(TypedFor(recs, spoilt), Room)  info == NdefBytes(recs)
           s == CreateSnepCp(TypedFor(recs, spoilt))  h == SnepCreateMsg(SNEP_REQ_PUT, Len(b.bytes))
           n == Len(b.bytes)
<1> SUFFICES SentFor(recs, s)
  OBVIOUS
<1>1. b \in BuildState /\ (b.end = "none" => ~spoilt /\ b.bytes = info)
  <2>1. Room \in Int
    BY SnepAssumption
  <2> QED
    BY <2>1, BuildMsgGood
<1>2. s = IF b.end # "none" THEN [b EXCEPT !.bytes = <<>>]
          ELSE IF Len(b.bytes) > PduRoom THEN [bytes |-> <<>>, end |-> "overrun"]
          ELSE [b EXCEPT !.bytes = SnepCreateMsg(SNEP_REQ_PUT, Len(@)) \o @]
  BY DEF CreateSnepCp
<1> HIDE DEF b, s, info
<1>3. b = [bytes |-> b.bytes, end |-> b.end] /\ b.bytes \in Seq(Byte)
      /\ b.end \in {"none", "error", "abort"} /\ <<>> \in Seq(Byte)
  BY <1>1 DEF BuildState
<1>4. n \in Nat
  BY <1>3, LenProperties
<1>5. CASE b.end # "none"
  <2>1. s = [bytes |-> <<>>, end |-> b.end]
    BY <1>2, <1>3, <1>5
  <2> QED
    BY <1>3, <1>5, <2>1 DEF SentFor
<1>6. CASE b.end = "none" /\ n > PduRoom
  <2>1. s = [bytes |-> <<>>, end |-> "overrun"]
    BY <1>2, <1>6
  <2> QED
    BY <1>3, <2>1 DEF SentFor
<1>7. CASE b.end = "none" /\ ~(n > PduRoom)
  <2>1. b.bytes = info /\ n \in 0..255 /\ n <= PduRoom
    <3>1. b.bytes = info
      BY <1>1, <1>7
    <3> HIDE DEF n
    <3> QED
      BY <1>4, <1>7, <3>1 DEF PduRoom
  <2>2. s = [bytes |-> h \o b.bytes, end |-> "none"]
    <3> HIDE DEF h
    <3>1. s = [b EXCEPT !.bytes = h \o @]
      BY <1>2, <1>7 DEF h
    <3> QED
      BY <1>3, <1>7, <3>1
  <2>3. h \in Seq(Byte)
    <3> HIDE DEF n
    <3>1. SnepCreateMsg(SNEP_REQ_PUT, n) \in Seq(Byte)
      BY <2>1, PutHeader
    <3> QED
      BY <3>1 DEF n
  <2>4. h \o b.bytes \in Seq(Byte)
    <3> HIDE DEF h
    <3> QED
      BY <1>3, <2>3, ConcatProperties
  <2>5. h \o b.bytes = PutOf(recs)
    BY <2>1 DEF PutOf, info
  <2>6. Len(NdefBytes(recs)) <= PduRoom
    BY <2>1 DEF info
  <2> HIDE DEF h
  <2> QED
    BY <2>2, <2>4, <2>5, <2>6 DEF SentFor
<1> QED
  BY <1>4, <1>5, <1>6, <1>7

(* What went out last is the request for what the operator put last. *)
SentInv ==
  /\ meant \in Seq(NdefRecord)
  /\ SentFor(meant, sent)

(* A put sends what is meant. *)
LEMMA OperatorPutsInv ==
  ASSUME OperatorPutsSnep
  PROVE  SentInv'
<1>1. PICK recs \in Meant : meant' = recs /\ sent' \in Puts[recs]
  BY DEF OperatorPutsSnep
<1>2. recs \in Seq(NdefRecord) /\ recs # <<>>
  <2>1. recs \in Seq(NdefRecord) /\ Len(recs) \in 1..4
    BY SnepAssumption
  <2>2. Len(recs) # 0
    BY <2>1
  <2> QED
    BY <2>1, <2>2, EmptySeq
<1>3. sent' = CreateSnepCp(Typed(recs)) \/ sent' = CreateSnepCp(Spoilt(Typed(recs)))
  BY <1>1, Zenon DEF Puts
<1>4. sent' = CreateSnepCp(TypedFor(recs, FALSE)) \/ sent' = CreateSnepCp(TypedFor(recs, TRUE))
  BY <1>3, Zenon DEF TypedFor
<1>5. /\ SentFor(recs, CreateSnepCp(TypedFor(recs, FALSE)))
      /\ SentFor(recs, CreateSnepCp(TypedFor(recs, TRUE)))
  BY <1>2, CreateGood
<1>6. SentFor(recs, sent')
  BY <1>4, <1>5, Zenon
<1> QED
  BY <1>1, <1>2, <1>6 DEF SentInv, SentFor

(* SentInv holds in every state. *)
THEOREM SentInvariant == DataSpec => []SentInv
<1>1. DataInit => SentInv
  <2> SUFFICES ASSUME DataInit PROVE SentInv
    OBVIOUS
  <2>1. meant = <<>> /\ sent = [bytes |-> <<>>, end |-> "none"]
    BY DEF DataInit, SnepInit
  <2> QED
    BY <2>1 DEF SentInv, SentFor
<1>2. SentInv /\ [DataNext]_dataVars => SentInv'
  <2> SUFFICES ASSUME SentInv, [DataNext]_dataVars PROVE SentInv'
    OBVIOUS
  <2>1. CASE OperatorPutsSnep
    BY <2>1, OperatorPutsInv
  <2>2. CASE UNCHANGED <<meant, sent>>
    BY <2>2 DEF SentInv, SentFor
  <2>3. OperatorPutsSnep \/ UNCHANGED <<meant, sent>>
    BY DEF DataNext, OnTag, OnConfig, OnSnep, SnepNext, HostSendsSnep, LlcpSapSnep, ClearRbuf,
           snepVars, dataVars
  <2> QED
    BY <2>1, <2>2, <2>3
<1> QED
  BY <1>1, <1>2, PTL DEF DataSpec

(* The message that leaves for a PUT of the operator is the SNEP request   *)
(* for exactly the records he meant, whatever their fields, and a server   *)
(* like this one takes it.                                                 *)
THEOREM BuiltIsMeantAlways == DataSpec => []BuiltIsMeant
<1>1. SentInv => BuiltIsMeant
  <2> SUFFICES ASSUME SentInv, sent.end = "none", meant # <<>>
               PROVE  LET info == NdefBytes(meant)
                      IN  /\ sent.bytes = SnepCreateMsg(SNEP_REQ_PUT, Len(info)) \o info
                          /\ Answer(sent.bytes[1], sent.bytes[2],
                                    sent.bytes[5] * 256 + sent.bytes[6], info) = SNEP_RSP_SUCCESS
    BY DEF BuiltIsMeant
  <2> DEFINE info == NdefBytes(meant)  n == Len(info)  h == SnepCreateMsg(SNEP_REQ_PUT, n)
             b == sent.bytes
  <2>1. b = h \o info /\ n <= PduRoom
    BY DEF SentInv, SentFor, PutOf
  <2>2. info \in Seq(Byte) /\ n \in Nat
    <3>1. meant \in Seq(NdefRecord)
      BY DEF SentInv
    <3>2. info \in Seq(Byte)
      BY <3>1, MessageHas
    <3> HIDE DEF info
    <3> QED
      BY <3>2, LenProperties
  <2> HIDE DEF n
  <2>3. n \in 0..255
    BY <2>1, <2>2 DEF PduRoom
  <2>4. h \in Seq(Byte) /\ Len(h) = 6 /\ h[1] = 16 /\ h[2] = 2 /\ h[5] * 256 + h[6] = n
    BY <2>3, PutHeader
  <2> HIDE DEF info, h, b
  <2>5. b[1] = 16 /\ b[2] = 2 /\ b[5] * 256 + b[6] = n
    <3>1. \A j \in 1..6 : b[j] = h[j]
      BY <2>1, <2>2, <2>4, ConcatPlaces
    <3> QED
      BY <2>4, <3>1
  <2>6. Answer(16, 2, n, info) = SNEP_RSP_SUCCESS
    <3>1. n = Len(info) /\ n < 256
      <4>1. n < 256
        BY <2>3
      <4> QED
        BY <4>1 DEF n
    <3> QED
      BY <3>1 DEF Answer, SNEP_VERSION, SNEP_REQ_PUT, SNEP_RSP_SUCCESS, RbufSize
  <2> QED
    BY <2>1, <2>5, <2>6 DEF info, h, b, n
<1> QED
  BY <1>1, SentInvariant, PTL

(* What the console shows of a field is of the alphabet. *)
LEMMA TextOfType ==
  ASSUME NEW b \in Seq(Byte)
  PROVE  TextOf(b) \in Seq(Sextet \cup {Pad})
<1> DEFINE l == (8 * Len(b) + 5) \div 6  chars == RfcChars(b)  A == Sextet \cup {Pad}
           kept == IF chars # <<>> /\ chars[Len(chars)] = 0 THEN Front(chars) ELSE chars
           q == (-Len(kept)) % 4  pad == [i \in 1..q |-> Pad]
<1>1. l \in Nat /\ IsText(b, chars, l)
  BY RfcCharsText
<1>2. TextOf(b) = kept \o pad
  BY DEF TextOf, Padding
<1>3. kept \in Seq(Sextet)
  <2> HIDE DEF l, chars
  <2>1. chars \in Seq(Sextet) /\ Len(chars) = l
    BY <1>1 DEF IsText
  <2>2. CASE chars = <<>>
    BY <2>1, <2>2
  <2>3. CASE chars # <<>>
    <3>1. l # 0
      BY <2>1, <2>3, EmptySeq
    <3>2. l - 1 \in Nat /\ (l - 1) + 1 = l
      BY <1>1, <3>1
    <3>3. IsText(b, Front(chars), l - 1)
      <4> DEFINE k == l - 1
      <4>1. k \in Nat /\ IsText(b, chars, k + 1)
        BY <1>1, <3>2
      <4> HIDE DEF k
      <4>2. IsText(b, Front(chars), k)
        BY <4>1, TextFront
      <4> QED
        BY <4>2 DEF k
    <3>4. Front(chars) \in Seq(Sextet)
      BY <3>3 DEF IsText
    <3> QED
      BY <2>1, <3>4, Zenon
  <2> QED
    BY <2>2, <2>3
<1> HIDE DEF chars, kept
<1>4. q \in Nat
  <2>1. Len(kept) \in Nat
    BY <1>3, LenProperties
  <2> DEFINE k == Len(kept)
  <2> HIDE DEF k
  <2>2. k \in Nat => (-k) % 4 \in Nat
    OBVIOUS
  <2> QED
    BY <2>1, <2>2 DEF k
<1> HIDE DEF q
<1>5. pad \in Seq(A) /\ kept \in Seq(A)
  <2>1. pad \in Seq(A)
    BY <1>4
  <2>2. Seq(Sextet) \subseteq Seq(A)
    BY SeqSub
  <2> QED
    BY <1>3, <2>1, <2>2
<1> HIDE DEF pad
<1>6. kept \o pad \in Seq(A)
  BY <1>5, ConcatProperties
<1> QED
  BY <1>2, <1>6

(* The three texts of a record shown are of the alphabet. *)
LEMMA ShownAsType ==
  ASSUME NEW r \in NdefRecord
  PROVE  LET s == ShownAs(r)
         IN  Range(s.type \o s.id \o s.payload) \subseteq Sextet \cup {Pad}
<1> DEFINE behind == r.id \o r.payload  n == Len(r.payload)  k == Len(behind)
           x == SubSeq(behind, n + 1, k)  y == SubSeq(behind, 1, n)  A == Sextet \cup {Pad}
           s == ShownAs(r)
<1>1. r.type \in Seq(Byte) /\ r.id \in Seq(Byte) /\ r.payload \in Seq(Byte)
  BY DEF NdefRecord, Field
<1>2. behind \in Seq(Byte) /\ k = Len(r.id) + n /\ n \in Nat /\ Len(r.id) \in Nat
  BY <1>1, ConcatPlaces
<1>3. \A i \in 1..k : behind[i] \in Byte
  BY <1>2, ElementOfSeq
<1>4. s = [tnf |-> r.tnf, type |-> TextOf(r.type), id |-> TextOf(x), payload |-> TextOf(y)]
  BY DEF ShownAs
<1> HIDE DEF behind, s
<1>5. x \in Seq(Byte) /\ y \in Seq(Byte)
  <2> DEFINE m == Len(r.id)
  <2>1. k = m + n /\ n \in Nat /\ m \in Nat
    BY <1>2
  <2> HIDE DEF k, n, m
  <2>2. n + 1 \in Int /\ k \in Int /\ n \in Int /\ n <= k
    BY <2>1
  <2>3. \A i \in (n + 1)..k : i \in 1..k
    BY <2>1
  <2>4. \A i \in (n + 1)..k : behind[i] \in Byte
    BY <1>3, <2>3
  <2>5. \A i \in 1..n : behind[i] \in Byte
    BY <1>3, <2>2
  <2>6. x \in Seq(Byte)
    BY <2>2, <2>4, SubSeqProperties
  <2>7. y \in Seq(Byte)
    BY <2>2, <2>5, SubSeqProperties
  <2> QED
    BY <2>6, <2>7
<1> HIDE DEF x, y
<1> DEFINE t == TextOf(r.type)  u == TextOf(x)  v == TextOf(y)
<1>6. t \in Seq(A) /\ u \in Seq(A) /\ v \in Seq(A)
  BY <1>1, <1>5, TextOfType
<1>7. s.type = t /\ s.id = u /\ s.payload = v
  <2> HIDE DEF t, u, v
  <2>1. s = [tnf |-> r.tnf, type |-> t, id |-> u, payload |-> v]
    BY <1>4 DEF t, u, v
  <2> QED
    BY <2>1
<1> HIDE DEF t, u, v, A
<1>8. (t \o u) \o v \in Seq(A)
  BY <1>6, ConcatProperties
<1>9. Range((t \o u) \o v) \subseteq A
  BY <1>8, RangeOfSeq
<1> QED
  BY <1>7, <1>9 DEF A, s

(* No conjunct of the type invariant is lost, of the tag and of the        *)
(* parameters, of what the receive buffer holds and of what went out.      *)
THEOREM DataTypeOKAlways == DataSpec => []DataTypeOK
<1>1. part \in Parts /\ TagInv /\ ConfigInv /\ RbufInv /\ SentInv => DataTypeOK
  <2> SUFFICES ASSUME part \in Parts, TagInv, ConfigInv, RbufInv, SentInv
               PROVE  DataTypeOK
    OBVIOUS
  <2>1. part \in Parts
    OBVIOUS
  <2>2. /\ rbuf \in [0..RbufSize-1 -> Byte] /\ response \in Responses
        /\ stored \in Seq(NdefRecord)
        /\ rlen = Len(NdefBytes(stored)) /\ rlen < RbufSize
        /\ HasAt(rbuf, 0, NdefBytes(stored))
    BY DEF RbufInv
  <2>3. rlen \in Byte
    <3>1. NdefBytes(stored) \in Seq(Byte)
      BY <2>2, MessageHas
    <3>2. rlen \in Nat /\ rlen < RbufSize
      BY <2>2, <3>1, LenProperties
    <3> QED
      BY <3>2 DEF Byte, RbufSize
  <2>4. /\ sent.end \in {"none", "error", "abort", "overrun"}
        /\ \A i \in DOMAIN sent.bytes : sent.bytes[i] \in Byte
    <3>1. sent.bytes \in Seq(Byte) /\ sent.end \in {"none", "error", "abort", "overrun"}
      BY DEF SentInv, SentFor
    <3>2. DOMAIN sent.bytes = 1..Len(sent.bytes)
      BY <3>1, LenProperties
    <3> QED
      BY <3>1, <3>2, ElementOfSeq
  <2>5. LET recs == Shown(rbuf, rlen).recs
        IN  \A i \in DOMAIN recs :
              Range(recs[i].type \o recs[i].id \o recs[i].payload) \subseteq Sextet \cup {Pad}
    <3> DEFINE S == [i \in 1..Len(stored) |-> ShownAs(stored[i])]  recs == Shown(rbuf, rlen).recs
               shown == Shown(rbuf, rlen)
    <3>1. shown = [recs |-> S, ok |-> TRUE]
      BY <2>2, MessageShown
    <3> HIDE DEF S, shown
    <3>2. shown.recs = S
      BY <3>1
    <3>3. recs = S
      BY <3>2 DEF shown
    <3>4. DOMAIN S = 1..Len(stored) /\ \A i \in 1..Len(stored) : S[i] = ShownAs(stored[i])
      BY DEF S
    <3>5. \A i \in DOMAIN S : Range(S[i].type \o S[i].id \o S[i].payload) \subseteq Sextet \cup {Pad}
      <4> TAKE i \in DOMAIN S
      <4>1. stored[i] \in NdefRecord /\ S[i] = ShownAs(stored[i])
        BY <2>2, <3>4, ElementOfSeq
      <4> DEFINE r == stored[i]
      <4> HIDE DEF r
      <4>2. r \in NdefRecord /\ S[i] = ShownAs(r)
        BY <4>1 DEF r
      <4>3. LET s == ShownAs(r)
            IN  Range(s.type \o s.id \o s.payload) \subseteq Sextet \cup {Pad}
        BY <4>2, ShownAsType
      <4> QED
        BY <4>2, <4>3, Zenon
    <3> QED
      BY <3>3, <3>5, Zenon
  <2>6. /\ tag_type \in TagTypes /\ t4t_file_sel \in Files
        /\ tag_end \in {"none", "assert", "overrun", "read"}
    BY DEF TagInv
  <2>7. DOMAIN mem = 0..TagSize[tag_type]-1 /\ \A a \in DOMAIN mem : mem[a] \in Nat
    <3>1. CASE tag_type = "T1T"
      <4>1. mem \in MemOf(120)
        BY <3>1 DEF TagInv, HeldT1t
      <4>2. TagSize[tag_type] = 120
        BY <3>1 DEF TagSize
      <4> QED
        BY <4>1, <4>2 DEF MemOf
    <3>2. CASE tag_type = "T2T"
      <4>1. mem \in MemOf(64)
        BY <3>2 DEF TagInv, HeldT2t
      <4>2. TagSize[tag_type] = 64
        BY <3>2 DEF TagSize
      <4> QED
        BY <4>1, <4>2 DEF MemOf
    <3>3. CASE tag_type = "T3T"
      <4>1. mem \in MemOf(1024)
        BY <3>3 DEF TagInv, HeldT3t
      <4>2. TagSize[tag_type] = 1024
        BY <3>3 DEF TagSize
      <4> QED
        BY <4>1, <4>2 DEF MemOf
    <3>4. CASE tag_type = "T4T"
      <4>1. mem \in MemOf(1039)
        BY <3>4 DEF TagInv, HeldT4t
      <4>2. TagSize[tag_type] = 1039
        BY <3>4 DEF TagSize
      <4> QED
        BY <4>1, <4>2 DEF MemOf
    <3> QED
      BY <2>6, <3>1, <3>2, <3>3, <3>4 DEF TagTypes
  <2>8. config_id_value \in [0..StoreSize-1 -> Byte] /\ config_end \in {"none", "assert"}
    <3>1. config_id_value \in [0..127 -> 0..255] /\ config_end \in {"none", "assert"}
      BY DEF ConfigInv, ConfigStore, ConfigByte
    <3>2. StoreSize - 1 = 127
      BY DEF StoreSize
    <3> QED
      BY <3>1, <3>2 DEF Byte
  <2> QED
    BY <2>1, <2>2, <2>3, <2>4, <2>5, <2>6, <2>7, <2>8 DEF DataTypeOK
<1>2. DataSpec => [](part \in Parts)
  <2>1. DataInit => part \in Parts
    BY DEF DataInit
  <2>2. part \in Parts /\ [DataNext]_dataVars => (part \in Parts)'
    BY DEF DataNext, OnTag, OnSnep, OnConfig, dataVars
  <2> QED
    BY <2>1, <2>2, PTL DEF DataSpec
<1> QED
  BY <1>1, <1>2, TagInvariant, ConfigInvariant, RbufInvariant, SentInvariant, PTL
==============================================================================
