------------------------- MODULE StreamBufferProofs -------------------------
(***************************************************************************)
(* Proofs about StreamBuffer, for any sequence of writes: any values in    *)
(* any byte order, any widths and numbers of bits, any initial size.       *)
(***************************************************************************)
EXTENDS StreamBuffer, InductionProofs, SequenceTheorems

----------------------------------------------------------------------------
(* The inductive invariant *)

\* The values WriteByte to WriteLong take.
IsValue(v, type, order) ==
  /\ v \in Seq(Bytes) /\ Len(v) \in {1, 2, 4, 8}
  /\ type \in Types /\ order \in Supported(Len(v))

\* What has been written is of one of the kinds that can be read.
WellFormed(it) ==
  /\ it.at \in Nat
  /\ \/ it.kind = "value" /\ IsValue(it.value, it.type, it.order)
     \/ it.kind = "long" /\ it.value \in Seq(Bytes) /\ Len(it.value) = 8
     \/ it.kind = "string" /\ it.value \in Seq(Bytes \ {Newline})
     \/ it.kind = "bytes" /\ it.value \in Seq(Bytes)
     \/ it.kind = "bits" /\ it.amount \in 1 .. MaxWidth /\ it.value \in Int

\* The bytes of what is not bits.
BytesOf(it) ==
  CASE it.kind = "value" -> Laid(it.value, it.type, it.order)
    [] it.kind = "long" -> Shortened(it.value)
    [] it.kind = "string" -> Append(it.value, Newline)
    [] it.kind = "bytes" -> it.value

\* Where it begins and where what follows it begins, in bits.
Begins(it) == IF it.kind = "bits" THEN it.at ELSE 8 * it.at
Until(it) == IF it.kind = "bits" THEN it.at + it.amount ELSE 8 * (it.at + Len(BytesOf(it)))

\* Whether it is in its place, bit by bit or byte by byte.
StoredIn(bytes, it) ==
  IF it.kind = "bits"
  THEN \A k \in 0 .. it.amount - 1 :
         Bit(bytes, it.at + k) = (it.value \div Pow2[it.amount - 1 - k]) % 2
  ELSE \A k \in 1 .. Len(BytesOf(it)) : bytes[it.at + k] = BytesOf(it)[k]

\* Where the next write goes, in bits.
Here == IF InBytes THEN 8 * pos ELSE bitPosition

\* Bits are written behind the bytes; a header with a size field comes first, and the
\* field is open until the packet is finished, in byte access.
Progress ==
  /\ ~InBytes => bitPosition >= 8 * pos /\ ~finished
  /\ header # "NONE" => pos >= 1 + SizeBytes[header]
  /\ frame = 1 <=> header # "NONE" /\ ~finished

\* Everything written is behind what was written before, none of it in the size field.
Clear(it, size) == size # "NONE" => Until(it) <= 8 \/ Begins(it) >= 8 * (1 + SizeBytes[size])
Placed(it) == WellFormed(it) /\ Until(it) <= Here /\ Clear(it, header)

AllStored ==
  \A k \in 1 .. Len(items) : Placed(items[k]) /\ StoredIn(buffer, items[k])

Inv ==
  /\ TypeOK /\ Progress /\ SizeFieldRight
  /\ AllStored

----------------------------------------------------------------------------
(* Division *)

\* Multiplication is monotonic.
LEMMA Monotonic ==
  ASSUME NEW d \in Nat, NEW a \in Int, NEW b \in Int, a <= b
  PROVE  d * a \in Int /\ d * b \in Int /\ d * a <= d * b
  OBVIOUS

\* Quotient and remainder.
LEMMA DivMod ==
  ASSUME NEW a \in Int, NEW d \in Nat, d > 0
  PROVE  /\ a \div d \in Int /\ a % d \in Nat /\ a % d < d
         /\ a = d * (a \div d) + (a % d)
  <1>1. a \div d \in Int
    OBVIOUS
  <1>2. a % d \in Nat
    OBVIOUS
  <1>3. a % d < d
    OBVIOUS
  <1>4. a = d * (a \div d) + (a % d)
    OBVIOUS
  <1> QED BY <1>1, <1>2, <1>3, <1>4

\* They are the only ones.
LEMMA DivUnique ==
  ASSUME NEW d \in Nat, d > 0, NEW q \in Int, NEW r \in Nat, r < d
  PROVE  /\ d * q + r \in Int
         /\ (d * q + r) \div d = q
         /\ (d * q + r) % d = r
  <1> DEFINE a == d * q + r
             p == a \div d
             s == a % d
  <1>1. a \in Int /\ d * q \in Int
    OBVIOUS
  <1>2. p \in Int /\ s \in Nat /\ s < d /\ a = d * p + s
    BY <1>1, DivMod
  <1> HIDE DEF p, s
  <1>3. ASSUME p < q PROVE FALSE
    <2>1. d * (p + 1) \in Int /\ d * (p + 1) <= d * q
      BY <1>2, <1>3, Monotonic
    <2>2. d * (p + 1) = d * p + d
      BY <1>2
    <2> QED BY <1>1, <1>2, <2>1, <2>2
  <1>4. ASSUME q < p PROVE FALSE
    <2>1. d * (q + 1) \in Int /\ d * (q + 1) <= d * p
      BY <1>2, <1>4, Monotonic
    <2>2. d * (q + 1) = d * q + d
      OBVIOUS
    <2> QED BY <1>1, <1>2, <2>1, <2>2
  <1>5. p = q
    BY <1>2, <1>3, <1>4
  <1>6. s = r
    BY <1>1, <1>2, <1>5
  <1> QED BY <1>1, <1>5, <1>6 DEF p, s

\* Dividing twice.
LEMMA DivDiv ==
  ASSUME NEW a \in Int, NEW d \in Nat, d > 0, NEW e \in Nat, e > 0
  PROVE  d * e \in Nat /\ d * e > 0 /\ (a \div d) \div e = a \div (d * e)
  <1> DEFINE q == a \div d
             r == a % d
             p == q \div e
             s == q % e
  <1>1. q \in Int /\ r \in Nat /\ r < d /\ a = d * q + r
    BY DivMod
  <1> HIDE DEF q, r
  <1>2. p \in Int /\ s \in Nat /\ s < e /\ q = e * p + s
    BY <1>1, DivMod
  <1> HIDE DEF p, s
  <1>3. d * e \in Nat /\ d * e > 0
    OBVIOUS
  <1>4. a = (d * e) * p + (d * s + r)
    BY <1>1, <1>2
  <1>5. d * s + r \in Nat /\ d * s + r < d * e
    <2>1. d * (s + 1) \in Int /\ d * (s + 1) <= d * e
      BY <1>2, Monotonic
    <2>2. d * (s + 1) = d * s + d /\ d * s \in Nat
      BY <1>2
    <2> QED BY <1>1, <1>2, <1>3, <2>1, <2>2
  <1>6. a \div (d * e) = p
    BY <1>2, <1>3, <1>4, <1>5, DivUnique
  <1> QED BY <1>3, <1>6 DEF p, q

\* The lower digits of a number, divided.
LEMMA ModDiv ==
  ASSUME NEW a \in Int, NEW d \in Nat, d > 0, NEW e \in Nat, e > 0
  PROVE  (a % (d * e)) \div d = (a \div d) % e
  <1> DEFINE q == a \div d
             r == a % d
             p == q \div e
             s == q % e
  <1>1. q \in Int /\ r \in Nat /\ r < d /\ a = d * q + r
    BY DivMod
  <1> HIDE DEF q, r
  <1>2. p \in Int /\ s \in Nat /\ s < e /\ q = e * p + s
    BY <1>1, DivMod
  <1> HIDE DEF p, s
  <1>3. d * e \in Nat /\ d * e > 0
    OBVIOUS
  <1>4. a = (d * e) * p + (d * s + r)
    BY <1>1, <1>2
  <1>5. d * s + r \in Nat /\ d * s + r < d * e
    <2>1. d * (s + 1) \in Int /\ d * (s + 1) <= d * e
      BY <1>2, Monotonic
    <2>2. d * (s + 1) = d * s + d /\ d * s \in Nat
      BY <1>2
    <2> QED BY <1>1, <1>2, <1>3, <2>1, <2>2
  <1>6. a % (d * e) = d * s + r
    BY <1>2, <1>3, <1>4, <1>5, DivUnique
  <1>7. (d * s + r) \div d = s
    BY <1>1, <1>2, DivUnique
  <1> QED BY <1>6, <1>7 DEF s, q

\* The last bit of the lower bits of a number.
LEMMA ModParity ==
  ASSUME NEW a \in Int, NEW e \in Nat, e > 0
  PROVE  (a % (2 * e)) % 2 = a % 2
  <1> DEFINE p == a \div (2 * e)
             s == a % (2 * e)
  <1>1. 2 * e \in Nat /\ 2 * e > 0
    OBVIOUS
  <1>2. p \in Int /\ s \in Nat /\ a = (2 * e) * p + s
    BY <1>1, DivMod
  <1> HIDE DEF p, s
  <1>3. e * p \in Int /\ a = 2 * (e * p) + s
    BY <1>2
  <1> DEFINE x == e * p
  <1> HIDE DEF x
  <1>4. x \in Int /\ a = 2 * x + s
    BY <1>3 DEF x
  <1>5. s % 2 = a % 2
    BY <1>2, <1>4
  <1> QED BY <1>5 DEF s

----------------------------------------------------------------------------
(* The powers of two *)

\* f gives the powers up to n.
PowersBy(f, n) == f = [k \in 0 .. n |-> IF k = 0 THEN 1 ELSE 2 * f[k - 1]]

\* The function in the definition of Pow2 exists.
LEMMA PowersExist == ASSUME NEW n \in Nat PROVE \E f : PowersBy(f, n)
  <1> DEFINE S == {m \in Nat : \E f : PowersBy(f, m)}
  <1>1. 0 \in S
    <2>1. PowersBy([k \in 0 .. 0 |-> 1], 0)
      BY DEF PowersBy
    <2> QED BY <2>1
  <1>2. ASSUME NEW m \in S PROVE m + 1 \in S
    <2>1. PICK f : PowersBy(f, m)
      OBVIOUS
    <2> DEFINE g == [k \in 0 .. m + 1 |-> IF k = m + 1 THEN 2 * f[m] ELSE f[k]]
    <2>2. PowersBy(g, m + 1)
      <3> SUFFICES ASSUME NEW k \in 0 .. m + 1
                   PROVE  g[k] = IF k = 0 THEN 1 ELSE 2 * g[k - 1]
        BY DEF PowersBy
      <3>1. CASE k = m + 1
        <4>1. g[k] = 2 * f[m] /\ k # 0 /\ g[k - 1] = f[m]
          BY <3>1
        <4> QED BY <3>1, <4>1
      <3>2. CASE k # m + 1
        <4>1. k \in 0 .. m /\ g[k] = f[k] /\ (k # 0 => g[k - 1] = f[k - 1])
          BY <3>2
        <4> QED BY <2>1, <4>1 DEF PowersBy
      <3> QED BY <3>1, <3>2
    <2> QED BY <2>2
  <1>3. Nat \subseteq S
    <2> HIDE DEF S
    <2> QED BY <1>1, <1>2, InductionOverNat
  <1> QED BY <1>3

\* What the definition of Pow2 says.
LEMMA Pow2Is ==
  /\ Pow2[0] = 1
  /\ \A k \in 0 .. MaxWidth - 1 : Pow2[k + 1] = 2 * Pow2[k]
  <1>1. \E f : PowersBy(f, MaxWidth)
    BY PowersExist DEF MaxWidth
  <1>2. Pow2 = CHOOSE f : PowersBy(f, MaxWidth)
    BY DEF Pow2, PowersBy
  <1>3. PowersBy(Pow2, MaxWidth)
    BY <1>1, <1>2
  <1>4. Pow2[0] = 1
    BY <1>3 DEF PowersBy, MaxWidth
  <1>5. ASSUME NEW k \in 0 .. MaxWidth - 1 PROVE Pow2[k + 1] = 2 * Pow2[k]
    <2>1. k + 1 \in 0 .. MaxWidth /\ k + 1 # 0 /\ (k + 1) - 1 = k
      BY DEF MaxWidth
    <2> QED BY <1>3, <2>1 DEF PowersBy
  <1> QED BY <1>4, <1>5

\* They are positive ...
LEMMA Pow2Nat == \A k \in 0 .. MaxWidth : Pow2[k] \in Nat /\ Pow2[k] > 0
  <1> DEFINE S == {m \in Nat : m <= MaxWidth => Pow2[m] \in Nat /\ Pow2[m] > 0}
  <1>1. 0 \in S
    BY Pow2Is
  <1>2. ASSUME NEW m \in Nat, m \in S PROVE m + 1 \in S
    <2> SUFFICES ASSUME m + 1 <= MaxWidth PROVE Pow2[m + 1] \in Nat /\ Pow2[m + 1] > 0
      OBVIOUS
    <2>1. m \in 0 .. MaxWidth - 1 /\ Pow2[m] \in Nat /\ Pow2[m] > 0
      BY <1>2 DEF MaxWidth
    <2>2. Pow2[m + 1] = 2 * Pow2[m]
      BY <2>1, Pow2Is
    <2> QED BY <2>1, <2>2
  <1>3. Nat \subseteq S
    <2> HIDE DEF S
    <2> QED BY <1>1, <1>2, InductionOverNat
  <1> QED BY <1>3 DEF MaxWidth

\* ... and add their exponents.
LEMMA Pow2Sum ==
  ASSUME NEW m \in Nat, NEW n \in Nat, m + n <= MaxWidth
  PROVE  Pow2[m + n] = Pow2[m] * Pow2[n]
  <1> DEFINE S == {k \in Nat : m + k <= MaxWidth => Pow2[m + k] = Pow2[m] * Pow2[k]}
  <1>0. Pow2[m] \in Nat
    BY Pow2Nat DEF MaxWidth
  <1>1. 0 \in S
    BY <1>0, Pow2Is
  <1>2. ASSUME NEW k \in Nat, k \in S PROVE k + 1 \in S
    <2> SUFFICES ASSUME m + (k + 1) <= MaxWidth PROVE Pow2[m + (k + 1)] = Pow2[m] * Pow2[k + 1]
      OBVIOUS
    <2>1. m + k <= MaxWidth /\ m + k \in 0 .. MaxWidth - 1 /\ k \in 0 .. MaxWidth - 1
          /\ k \in 0 .. MaxWidth
      BY DEF MaxWidth
    <2>2. Pow2[m + k] = Pow2[m] * Pow2[k]
      BY <1>2, <2>1
    <2>3. Pow2[(m + k) + 1] = 2 * Pow2[m + k] /\ Pow2[k + 1] = 2 * Pow2[k]
      BY <2>1, Pow2Is
    <2>4. Pow2[k] \in Nat /\ m + (k + 1) = (m + k) + 1
      BY <2>1, Pow2Nat
    <2>5. 2 * (Pow2[m] * Pow2[k]) = Pow2[m] * (2 * Pow2[k])
      BY <1>0, <2>4
    <2> QED BY <2>2, <2>3, <2>4, <2>5
  <1>3. Nat \subseteq S
    <2> HIDE DEF S
    <2> QED BY <1>1, <1>2, InductionOverNat
  <1> QED BY <1>3

\* A byte has eight bits.
LEMMA Pow2Byte == Pow2[8] = 256 /\ Pow2[16] = 65536
  <1>1. Pow2[0] = 1 /\ Pow2[0 + 1] = 2 * Pow2[0] /\ Pow2[1 + 1] = 2 * Pow2[1]
        /\ Pow2[2 + 1] = 2 * Pow2[2] /\ Pow2[3 + 1] = 2 * Pow2[3]
    BY Pow2Is DEF MaxWidth
  <1>2. Pow2[4] = 16
    BY <1>1
  <1>3. Pow2[4 + 4] = Pow2[4] * Pow2[4]
    BY Pow2Sum DEF MaxWidth
  <1>4. Pow2[8] = 256
    BY <1>2, <1>3
  <1>5. Pow2[8 + 8] = Pow2[8] * Pow2[8]
    BY Pow2Sum DEF MaxWidth
  <1> QED BY <1>4, <1>5

----------------------------------------------------------------------------
(* WriteBits *)

\* What a field changes of a byte: nothing above it, and it can be read from its place.
LEMMA FieldIs ==
  ASSUME NEW byte \in Bytes, NEW s \in Nat, NEW w \in Nat, s + w <= 8,
         NEW part \in Nat, part < Pow2[w]
  PROVE  /\ WithField(byte, s, w, part) \in Bytes
         /\ WithField(byte, s, w, part) \div Pow2[s + w] = byte \div Pow2[s + w]
         /\ (WithField(byte, s, w, part) \div Pow2[s]) % Pow2[w] = part
  <1> DEFINE S == Pow2[s]
             W == Pow2[w]
             q == byte \div S
             l == byte % S
             h == q \div W
             m == q % W
             new == byte + (part - m) * S
             p == W * h + part
  <1>1. S \in Nat /\ S > 0 /\ W \in Nat /\ W > 0 /\ byte \in Int
    BY Pow2Nat DEF MaxWidth, Bytes
  <1>2. WithField(byte, s, w, part) = new
    BY DEF WithField
  <1>3. Pow2[s + w] = S * W
    BY Pow2Sum DEF MaxWidth
  <1> HIDE DEF S, W
  <1>4. q \in Int /\ l \in Nat /\ l < S /\ byte = S * q + l
    BY <1>1, DivMod
  <1> HIDE DEF q, l
  <1>5. h \in Int /\ m \in Nat /\ m < W /\ q = W * h + m
    BY <1>1, <1>4, DivMod
  <1> HIDE DEF h, m
  <1>6. p \in Int /\ new \in Int
    BY <1>1, <1>5
  <1>7. new = S * p + l
    <2>1. new = S * q + l + (part - m) * S
      BY <1>4
    <2>2. p = q + (part - m)
      BY <1>1, <1>5
    <2>3. S * (q + (part - m)) = S * q + (part - m) * S
      BY <1>1, <1>4, <1>5
    <2> QED BY <1>1, <1>4, <1>5, <2>1, <2>2, <2>3
  <1>8. new \div S = p
    BY <1>1, <1>4, <1>6, <1>7, DivUnique
  <1>9. p \div W = h /\ p % W = part
    BY <1>1, <1>5, part < Pow2[w], DivUnique DEF W
  <1>10. S * W \in Nat /\ S * W > 0 /\ new \div (S * W) = h /\ byte \div (S * W) = h
    <2>1. S * W \in Nat /\ S * W > 0 /\ (new \div S) \div W = new \div (S * W)
      BY <1>1, <1>6, DivDiv
    <2>2. (byte \div S) \div W = byte \div (S * W)
      BY <1>1, DivDiv
    <2>3. (byte \div S) \div W = h
      BY DEF h, q
    <2> QED BY <1>8, <1>9, <2>1, <2>2, <2>3
  <1>11. new \in Bytes
    <2> DEFINE E == Pow2[8 - (s + w)]
               D == S * W
    <2>1. E \in Nat /\ D * E = 256
      <3>1. 8 - (s + w) \in Nat /\ 8 - (s + w) \in 0 .. MaxWidth /\ s + w \in Nat
            /\ (s + w) + (8 - (s + w)) = 8 /\ 8 <= MaxWidth
        BY DEF MaxWidth
      <3>2. Pow2[8] = Pow2[s + w] * E
        BY <3>1, Pow2Sum
      <3> QED BY <1>3, <3>1, <3>2, Pow2Byte, Pow2Nat
    <2> HIDE DEF E, D
    <2>2. /\ D \in Nat /\ D > 0 /\ new \div D = h /\ byte \div D = h
      BY <1>10 DEF D
    <2>3. /\ new = D * h + (new % D) /\ new % D \in Nat /\ new % D < D
          /\ byte = D * h + (byte % D) /\ byte % D \in Nat /\ byte % D < D
      BY <1>1, <1>6, <2>2, DivMod
    <2> DEFINE x == new % D
               y == byte % D
    <2> HIDE DEF x, y, new
    <2>4. x \in Nat /\ x < D /\ y \in Nat /\ y < D /\ new = D * h + x /\ byte = D * h + y
      BY <2>3 DEF x, y
    <2>5. byte >= 0 /\ byte < 256
      BY DEF Bytes
    <2>6. h >= 0
      <3> SUFFICES ASSUME h <= -1 PROVE FALSE
        BY <1>5
      <3>1. D * h <= D * (-1)
        BY <1>5, <2>2, Monotonic
      <3>2. D * h \in Int /\ D * (-1) = -D
        BY <1>5, <2>2
      <3> QED BY <2>2, <2>4, <2>5, <3>1, <3>2
    <2>7. h <= E - 1
      <3> SUFFICES ASSUME E <= h PROVE FALSE
        BY <1>5, <2>1
      <3>1. D * E <= D * h /\ D * h \in Int
        BY <1>5, <2>1, <2>2, Monotonic
      <3> QED BY <2>1, <2>4, <2>5, <3>1
    <2>8. D * h >= 0
      BY <1>5, <2>2, <2>6
    <2>9. D * h <= D * (E - 1) /\ D * (E - 1) = D * E - D /\ D * h \in Int
      BY <1>5, <2>1, <2>2, <2>7, Monotonic
    <2> DEFINE z == D * h
    <2>10. z \in Int /\ z >= 0 /\ z <= 256 - D /\ new = z + x
      BY <2>1, <2>4, <2>8, <2>9
    <2> HIDE DEF z
    <2>11. D \in Nat /\ x \in Nat /\ x < D
      BY <2>2, <2>4
    <2> QED BY ONLY <2>10, <2>11 DEF Bytes
  <1>12. (new \div S) % W = part
    BY <1>8, <1>9
  <1> HIDE DEF new
  <1> QED BY <1>2, <1>3, <1>10, <1>11, <1>12 DEF S, W

\* Numbers that agree from bit m on agree in a bit above it ...
LEMMA BitsAbove ==
  ASSUME NEW a \in Int, NEW b \in Int, NEW m \in Nat, NEW n \in Nat, m <= n, n <= MaxWidth,
         a \div Pow2[m] = b \div Pow2[m]
  PROVE  a \div Pow2[n] = b \div Pow2[n]
  <1>1. n - m \in Nat /\ m + (n - m) = n /\ m \in 0 .. MaxWidth /\ n - m \in 0 .. MaxWidth
    BY DEF MaxWidth
  <1>2. Pow2[n] = Pow2[m] * Pow2[n - m]
    BY <1>1, Pow2Sum
  <1>3. Pow2[m] \in Nat /\ Pow2[m] > 0 /\ Pow2[n - m] \in Nat /\ Pow2[n - m] > 0
    BY <1>1, Pow2Nat
  <1>4. /\ (a \div Pow2[m]) \div Pow2[n - m] = a \div (Pow2[m] * Pow2[n - m])
        /\ (b \div Pow2[m]) \div Pow2[n - m] = b \div (Pow2[m] * Pow2[n - m])
    BY <1>3, DivDiv
  <1> QED BY <1>2, <1>4

\* ... and numbers with the same lower w bits in each of them.
LEMMA BitsBelow ==
  ASSUME NEW a \in Int, NEW b \in Int, NEW w \in Nat, NEW c \in Nat, c < w, w <= MaxWidth,
         a % Pow2[w] = b % Pow2[w]
  PROVE  (a \div Pow2[c]) % 2 = (b \div Pow2[c]) % 2
  <1> DEFINE C == Pow2[c]
             E == Pow2[w - c - 1]
  <1>1. /\ w - c - 1 \in Nat /\ w - c - 1 \in 0 .. MaxWidth - 1 /\ w - c - 1 \in 0 .. MaxWidth
        /\ c \in 0 .. MaxWidth /\ w - c \in Nat
        /\ c + (w - c) = w /\ (w - c - 1) + 1 = w - c
    BY DEF MaxWidth
  <1>2. Pow2[w] = C * Pow2[w - c]
    BY <1>1, Pow2Sum
  <1>3. Pow2[w - c] = 2 * E
    BY <1>1, Pow2Is
  <1>4. C \in Nat /\ C > 0 /\ E \in Nat /\ E > 0
    BY <1>1, Pow2Nat
  <1> HIDE DEF C, E
  <1>5. 2 * E \in Nat /\ 2 * E > 0 /\ Pow2[w] = C * (2 * E)
    BY <1>2, <1>3, <1>4
  <1>6. /\ (a % Pow2[w]) \div C = (a \div C) % (2 * E)
        /\ (b % Pow2[w]) \div C = (b \div C) % (2 * E)
    BY <1>4, <1>5, ModDiv
  <1>7. a \div C \in Int /\ b \div C \in Int
    BY <1>4, DivMod
  <1>8. /\ ((a \div C) % (2 * E)) % 2 = (a \div C) % 2
        /\ ((b \div C) % (2 * E)) % 2 = (b \div C) % 2
    BY <1>4, <1>7, ModParity
  <1> QED BY <1>6, <1>8 DEF C

\* The larger and the smaller of two numbers.
LEMMA MaxMin ==
  ASSUME NEW a \in Int, NEW b \in Int
  PROVE  /\ Max({a, b}) = IF a <= b THEN b ELSE a
         /\ Min({a, b}) = IF a <= b THEN a ELSE b
  <1> DEFINE u == IF a <= b THEN b ELSE a
             l == IF a <= b THEN a ELSE b
  <1>1. /\ u \in {a, b} /\ \A y \in {a, b} : u >= y
        /\ l \in {a, b} /\ \A y \in {a, b} : l <= y
    OBVIOUS
  <1>2. /\ \A x \in {a, b} : (\A y \in {a, b} : x >= y) => x = u
        /\ \A x \in {a, b} : (\A y \in {a, b} : x <= y) => x = l
    OBVIOUS
  <1>3. /\ Max({a, b}) \in {a, b} /\ \A y \in {a, b} : Max({a, b}) >= y
        /\ Min({a, b}) \in {a, b} /\ \A y \in {a, b} : Min({a, b}) <= y
    <2> HIDE DEF u, l
    <2> QED BY <1>1, Zenon DEF Max, Min
  <1> QED BY <1>2, <1>3

\* What WriteBits does to the byte at i: it stays if the bits are behind it; a bit of
\* it before the first one stays; and the bits have the value's.
LEMMA ByteWritten ==
  ASSUME NEW bytes \in Seq(Bytes), NEW at \in Nat, NEW amount \in 1 .. MaxWidth,
         NEW value \in Int, NEW i \in 1 .. Len(bytes)
  PROVE  LET new == WrittenBits(bytes, at, amount, value)[i]
         IN  /\ new \in Bytes
             /\ 8 * i <= at => new = bytes[i]
             /\ \A b \in 0 .. 7 : 8 * i - 1 - b < at =>
                  (new \div Pow2[b]) % 2 = (bytes[i] \div Pow2[b]) % 2
             /\ \A b \in 0 .. 7 :
                  8 * i - 1 - b >= at /\ 8 * i - 1 - b < at + amount =>
                    (new \div Pow2[b]) % 2
                      = (value \div Pow2[at + amount - 8 * i + b]) % 2
  <1> DEFINE from == Max({at, 8 * (i - 1)})
             to == Min({at + amount, 8 * i})
             part == (value \div Pow2[at + amount - to]) % Pow2[to - from]
             new == WrittenBits(bytes, at, amount, value)[i]
  <1>1. Len(bytes) \in Nat /\ i \in Nat /\ i >= 1 /\ bytes[i] \in Bytes /\ amount \in Nat
    BY DEF MaxWidth
  <1>2. new = IF from >= to THEN bytes[i] ELSE WithField(bytes[i], 8 * i - to, to - from, part)
    BY <1>1 DEF WrittenBits
  <1>3. /\ from = IF at <= 8 * (i - 1) THEN 8 * (i - 1) ELSE at
        /\ to = IF at + amount <= 8 * i THEN at + amount ELSE 8 * i
    <2>1. at \in Int /\ 8 * (i - 1) \in Int /\ at + amount \in Int /\ 8 * i \in Int
      BY <1>1
    <2> QED BY <2>1, MaxMin
  <1> HIDE DEF from, to, new, part
  <1>4. from \in Nat /\ to \in Nat
    BY <1>1, <1>3
  <1>5. CASE from >= to
    <2>1. new = bytes[i]
      BY <1>2, <1>5
    <2>2. ASSUME NEW b \in 0 .. 7, 8 * i - 1 - b >= at, 8 * i - 1 - b < at + amount
          PROVE  FALSE
      BY <1>1, <1>3, <1>5, <2>2 DEF MaxWidth
    <2> QED BY <1>1, <2>1, <2>2 DEF new
  <1>6. CASE from < to
    <2> DEFINE s == 8 * i - to
               w == to - from
               V == value \div Pow2[at + amount - to]
    <2>1. /\ s \in Nat /\ w \in Nat /\ s + w <= 8 /\ w \in 0 .. MaxWidth /\ w > 0
          /\ at + amount - to \in Nat /\ at + amount - to \in 0 .. MaxWidth
          /\ s + w = 8 * i - from
      BY <1>1, <1>3, <1>4, <1>6 DEF MaxWidth
    <2>2. at + amount - to + w <= MaxWidth
      BY <1>1, <1>3, <1>4, <1>6 DEF MaxWidth
    <2>3. V \in Int
      <3>1. Pow2[at + amount - to] \in Nat /\ Pow2[at + amount - to] > 0
        BY <2>1, Pow2Nat
      <3> QED BY <3>1, DivMod
    <2>4. part \in Nat /\ part < Pow2[w] /\ part = V % Pow2[w]
      <3>1. Pow2[w] \in Nat /\ Pow2[w] > 0
        BY <2>1, Pow2Nat
      <3>2. part = V % Pow2[w]
        BY DEF part
      <3> HIDE DEF V
      <3> QED BY <2>3, <3>1, <3>2, DivMod
    <2>5. new = WithField(bytes[i], s, w, part)
      BY <1>2, <1>4, <1>6
    <2>6. ~ (8 * i <= at)
      BY <1>1, <1>3, <1>4, <1>6
    <2> HIDE DEF s, w, V
    <2>7. /\ new \in Bytes
          /\ new \div Pow2[s + w] = bytes[i] \div Pow2[s + w]
          /\ (new \div Pow2[s]) % Pow2[w] = part
      BY <1>1, <2>1, <2>4, <2>5, FieldIs
    <2>8. new \in Int /\ bytes[i] \in Int
      <3>1. \A x \in Bytes : x \in Int
        BY DEF Bytes
      <3> QED BY ONLY <1>1, <2>7, <3>1
    <2>9. ASSUME NEW b \in 0 .. 7, 8 * i - 1 - b < at
          PROVE  (new \div Pow2[b]) % 2 = (bytes[i] \div Pow2[b]) % 2
      <3>1. s + w \in Nat /\ b \in Nat /\ s + w <= b /\ b <= MaxWidth
        BY <1>1, <1>3, <1>4, <2>1, <2>9 DEF MaxWidth
      <3>2. new \div Pow2[b] = bytes[i] \div Pow2[b]
        BY <2>7, <2>8, <3>1, BitsAbove
      <3> QED BY <3>2
    <2>10. ASSUME NEW b \in 0 .. 7, 8 * i - 1 - b >= at, 8 * i - 1 - b < at + amount
           PROVE  (new \div Pow2[b]) % 2 = (value \div Pow2[at + amount - 8 * i + b]) % 2
      <3> DEFINE c == b - s
                 x == at + amount - to
      <3>1. /\ c \in Nat /\ c < w /\ s + c = b /\ c \in 0 .. MaxWidth /\ w <= MaxWidth
            /\ s + c <= MaxWidth /\ x + c <= MaxWidth /\ x \in Nat /\ x \in 0 .. MaxWidth
            /\ x + c = at + amount - 8 * i + b /\ s \in 0 .. MaxWidth
        BY <1>1, <1>3, <1>4, <1>6, <2>1, <2>2, <2>10 DEF MaxWidth, s, w
      <3> HIDE DEF c, x
      <3>2. /\ Pow2[b] = Pow2[s] * Pow2[c] /\ Pow2[x + c] = Pow2[x] * Pow2[c]
        BY <2>1, <3>1, Pow2Sum
      <3>3. /\ Pow2[s] \in Nat /\ Pow2[s] > 0 /\ Pow2[c] \in Nat /\ Pow2[c] > 0
            /\ Pow2[x] \in Nat /\ Pow2[x] > 0
        BY <3>1, Pow2Nat
      <3>4. /\ (new \div Pow2[s]) \div Pow2[c] = new \div Pow2[b]
            /\ V \div Pow2[c] = value \div Pow2[x + c]
        <4>1. V = value \div Pow2[x]
          BY DEF V, x
        <4>2. (new \div Pow2[s]) \div Pow2[c] = new \div (Pow2[s] * Pow2[c])
          BY <2>8, <3>3, DivDiv, ZenonT(60)
        <4>3. (value \div Pow2[x]) \div Pow2[c] = value \div (Pow2[x] * Pow2[c])
          BY <3>3, DivDiv
        <4> QED BY ONLY <3>2, <4>1, <4>2, <4>3, Zenon
      <3>5. (new \div Pow2[s]) % Pow2[w] = V % Pow2[w]
        BY <2>4, <2>7
      <3>6. new \div Pow2[s] \in Int
        BY <2>8, <3>3, DivMod
      <3>7. ((new \div Pow2[s]) \div Pow2[c]) % 2 = (V \div Pow2[c]) % 2
        BY <2>1, <2>3, <3>1, <3>5, <3>6, BitsBelow, SMTT(30)
      <3> QED BY <3>1, <3>4, <3>7
    <2> QED BY <2>6, <2>7, <2>9, <2>10 DEF new
  <1> QED BY <1>4, <1>5, <1>6

\* What WriteBits does to a buffer that is large enough.
LEMMA BitsWritten ==
  ASSUME NEW bytes \in Seq(Bytes), NEW at \in Nat, NEW amount \in 1 .. MaxWidth,
         NEW value \in Int, at + amount <= 8 * Len(bytes)
  PROVE  LET new == WrittenBits(bytes, at, amount, value)
         IN  /\ new \in Seq(Bytes) /\ Len(new) = Len(bytes)
             /\ \A i \in 1 .. Len(bytes) : 8 * i <= at => new[i] = bytes[i]
             /\ \A j \in Nat : j < at => Bit(new, j) = Bit(bytes, j)
             /\ \A k \in 0 .. amount - 1 :
                  Bit(new, at + k) = (value \div Pow2[amount - 1 - k]) % 2
  <1> DEFINE new == WrittenBits(bytes, at, amount, value)
  <1>1. Len(bytes) \in Nat /\ amount \in Nat
    BY DEF MaxWidth
  <1>2. \A i \in 1 .. Len(bytes) : new[i] \in Bytes /\ (8 * i <= at => new[i] = bytes[i])
    BY ByteWritten
  <1>3. new \in Seq(Bytes) /\ Len(new) = Len(bytes)
    <2>1. \E g : new = [i \in 1 .. Len(bytes) |-> g[i]]
      <3>1. new = [i \in 1 .. Len(bytes) |-> new[i]]
        BY DEF WrittenBits
      <3> QED BY <3>1
    <2> HIDE DEF new
    <2> QED BY <1>1, <1>2, <2>1
  <1>4. ASSUME NEW j \in Nat, j < 8 * Len(bytes)
        PROVE  /\ (j \div 8) + 1 \in 1 .. Len(bytes) /\ 7 - (j % 8) \in 0 .. 7
               /\ 8 * ((j \div 8) + 1) - 1 - (7 - (j % 8)) = j
    BY <1>1, <1>4
  <1>5. ASSUME NEW j \in Nat, j < at PROVE Bit(new, j) = Bit(bytes, j)
    <2> DEFINE i == (j \div 8) + 1
               b == 7 - (j % 8)
    <2>1. i \in 1 .. Len(bytes) /\ b \in 0 .. 7 /\ 8 * i - 1 - b < at
      BY <1>1, <1>4, <1>5
    <2> HIDE DEF i, b
    <2>2. (new[i] \div Pow2[b]) % 2 = (bytes[i] \div Pow2[b]) % 2
      BY <2>1, ByteWritten
    <2> HIDE DEF new
    <2> QED BY <2>2 DEF Bit, i, b
  <1>6. ASSUME NEW k \in 0 .. amount - 1
        PROVE  Bit(new, at + k) = (value \div Pow2[amount - 1 - k]) % 2
    <2> DEFINE j == at + k
               i == (j \div 8) + 1
               b == 7 - (j % 8)
    <2>1. j \in Nat /\ j < 8 * Len(bytes)
      BY <1>1
    <2>2. i \in 1 .. Len(bytes) /\ b \in 0 .. 7 /\ 8 * i - 1 - b = j
      BY <1>4, <2>1
    <2>3. Bit(new, j) = (new[i] \div Pow2[b]) % 2
      <3> HIDE DEF new
      <3> QED BY DEF Bit
    <2> HIDE DEF i, b
    <2>4. /\ 8 * i - 1 - b >= at /\ 8 * i - 1 - b < at + amount
          /\ at + amount - 8 * i + b = amount - 1 - k
      BY <1>1, <2>2
    <2>5. (new[i] \div Pow2[b]) % 2 = (value \div Pow2[at + amount - 8 * i + b]) % 2
      BY <2>2, <2>4, ByteWritten
    <2> QED BY <2>3, <2>4, <2>5
  <1> QED BY <1>2, <1>3, <1>5, <1>6

\* A larger buffer begins with the old one.
LEMMA ResizedIs ==
  ASSUME NEW bytes \in Seq(Bytes), NEW n \in Nat, n >= Len(bytes)
  PROVE  /\ Resized(bytes, n) \in Seq(Bytes) /\ Len(Resized(bytes, n)) = n
         /\ \A i \in 1 .. Len(bytes) : Resized(bytes, n)[i] = bytes[i]
  <1> DEFINE z == Zeros(n - Len(bytes))
  <1>1. Len(bytes) \in Nat /\ n - Len(bytes) \in Nat
    OBVIOUS
  <1>2. z \in Seq(Bytes) /\ Len(z) = n - Len(bytes)
    BY <1>1 DEF Zeros, Bytes
  <1> HIDE DEF z
  <1>3. /\ bytes \o z \in Seq(Bytes) /\ Len(bytes \o z) = Len(bytes) + Len(z)
        /\ \A i \in 1 .. Len(bytes) : (bytes \o z)[i] = bytes[i]
    BY <1>2
  <1>4. Resized(bytes, n) = bytes \o z
    BY DEF Resized, z
  <1> QED BY <1>1, <1>2, <1>3, <1>4

\* WriteBits makes room, keeps what is before the bits, and writes them.
LEMMA PutBitsIs ==
  ASSUME NEW bytes \in Seq(Bytes), NEW at \in Nat, at <= 8 * Len(bytes),
         NEW amount \in 1 .. MaxWidth, NEW value \in Int
  PROVE  LET new == PutBits(bytes, at, amount, value)
         IN  /\ new \in Seq(Bytes) /\ Len(new) >= Len(bytes) /\ at + amount <= 8 * Len(new)
             /\ \A i \in 1 .. Len(bytes) : 8 * i <= at => new[i] = bytes[i]
             /\ \A j \in Nat : j < at => Bit(new, j) = Bit(bytes, j)
             /\ \A k \in 0 .. amount - 1 :
                  Bit(new, at + k) = (value \div Pow2[amount - 1 - k]) % 2
  <1> DEFINE needed == BytesNeeded(at + amount)
             room == IF needed > Len(bytes) THEN Resized(bytes, needed + Growth) ELSE bytes
             new == WrittenBits(room, at, amount, value)
  <1>1. Len(bytes) \in Nat /\ amount \in Nat /\ Growth \in Nat
    BY SizesAssumption DEF MaxWidth
  <1>2. needed \in Nat /\ at + amount <= 8 * needed
    BY <1>1 DEF BytesNeeded
  <1> HIDE DEF needed
  <1>3. /\ room \in Seq(Bytes) /\ Len(room) \in Nat /\ Len(room) >= Len(bytes)
        /\ at + amount <= 8 * Len(room)
        /\ \A i \in 1 .. Len(bytes) : room[i] = bytes[i]
    <2>1. CASE needed > Len(bytes)
      <3>1. needed + Growth \in Nat /\ needed + Growth >= Len(bytes)
        BY <1>1, <1>2, <2>1
      <3>2. /\ room \in Seq(Bytes) /\ Len(room) = needed + Growth
            /\ \A i \in 1 .. Len(bytes) : room[i] = bytes[i]
        BY <2>1, <3>1, ResizedIs
      <3> HIDE DEF room
      <3> QED BY <1>1, <1>2, <3>1, <3>2
    <2>2. CASE ~ (needed > Len(bytes))
      BY <1>1, <1>2, <2>2
    <2> QED BY <2>1, <2>2
  <1> HIDE DEF room
  <1>4. /\ new \in Seq(Bytes) /\ Len(new) = Len(room)
        /\ \A i \in 1 .. Len(room) : 8 * i <= at => new[i] = room[i]
        /\ \A j \in Nat : j < at => Bit(new, j) = Bit(room, j)
        /\ \A k \in 0 .. amount - 1 :
             Bit(new, at + k) = (value \div Pow2[amount - 1 - k]) % 2
    BY <1>3, BitsWritten, ZenonT(60)
  <1>5. PutBits(bytes, at, amount, value) = new
    BY DEF PutBits, room, needed
  <1> HIDE DEF new
  <1>6. \A i \in 1 .. Len(bytes) : 8 * i <= at => new[i] = bytes[i]
    <2>1. \A i \in 1 .. Len(bytes) : i \in 1 .. Len(room)
      BY <1>1, <1>3
    <2> QED BY <1>3, <1>4, <2>1
  <1>7. ASSUME NEW j \in Nat, j < at PROVE Bit(new, j) = Bit(bytes, j)
    <2>1. (j \div 8) + 1 \in 1 .. Len(bytes)
      BY <1>1, <1>7
    <2>2. Bit(room, j) = Bit(bytes, j)
      BY <1>3, <2>1 DEF Bit
    <2> QED BY <1>4, <1>7, <2>2
  <1>8. Len(new) >= Len(bytes) /\ at + amount <= 8 * Len(new)
    BY <1>3, <1>4
  <1> QED BY <1>4, <1>5, <1>6, <1>7, <1>8

\* f gives the numbers of the first bits at a place.
NumbersBy(f, bytes, at, n) ==
  f = [k \in 0 .. n |-> IF k = 0 THEN 0 ELSE 2 * f[k - 1] + Bit(bytes, at + k - 1)]

\* The function in the definition of ReadBits exists.
LEMMA NumbersExist ==
  ASSUME NEW bytes, NEW at \in Nat, NEW n \in Nat
  PROVE  \E f : NumbersBy(f, bytes, at, n)
  <1> DEFINE S == {m \in Nat : \E f : NumbersBy(f, bytes, at, m)}
  <1>1. 0 \in S
    <2>1. NumbersBy([k \in 0 .. 0 |-> 0], bytes, at, 0)
      BY DEF NumbersBy
    <2> QED BY <2>1
  <1>2. ASSUME NEW m \in S PROVE m + 1 \in S
    <2>1. PICK f : NumbersBy(f, bytes, at, m)
      OBVIOUS
    <2> DEFINE v == 2 * f[m] + Bit(bytes, at + (m + 1) - 1)
               g == [k \in 0 .. m + 1 |-> IF k = m + 1 THEN v ELSE f[k]]
    <2>2. NumbersBy(g, bytes, at, m + 1)
      <3> SUFFICES ASSUME NEW k \in 0 .. m + 1
                   PROVE  g[k] = IF k = 0 THEN 0 ELSE 2 * g[k - 1] + Bit(bytes, at + k - 1)
        BY DEF NumbersBy
      <3>1. CASE k = m + 1
        <4>1. g[k] = v /\ k # 0 /\ g[k - 1] = f[m]
          BY <3>1
        <4> QED BY <3>1, <4>1
      <3>2. CASE k # m + 1
        <4>1. k \in 0 .. m /\ g[k] = f[k] /\ (k # 0 => g[k - 1] = f[k - 1])
          BY <3>2
        <4> QED BY <2>1, <4>1 DEF NumbersBy
      <3> QED BY <3>1, <3>2
    <2> QED BY <2>2
  <1>3. Nat \subseteq S
    <2> HIDE DEF S
    <2> QED BY <1>1, <1>2, InductionOverNat
  <1> QED BY <1>3

\* One more bit of a number.
LEMMA NextBit ==
  ASSUME NEW u \in Int, NEW e \in Nat, e > 0
  PROVE  2 * ((u \div 2) % e) + (u % 2) = u % (2 * e)
  <1> DEFINE q == u \div 2
             r == u % 2
             t == q \div e
             m == q % e
  <1>1. q \in Int /\ r \in 0 .. 1 /\ u = 2 * q + r
    OBVIOUS
  <1> HIDE DEF q, r
  <1>2. t \in Int /\ m \in Nat /\ m < e /\ q = e * t + m
    BY <1>1, DivMod
  <1> HIDE DEF t, m
  <1>3. 2 * e \in Nat /\ 2 * e > 0 /\ 2 * m + r \in Nat /\ 2 * m + r < 2 * e
    BY <1>1, <1>2
  <1>4. u = (2 * e) * t + (2 * m + r)
    BY <1>1, <1>2
  <1>5. u % (2 * e) = 2 * m + r
    BY <1>2, <1>3, <1>4, DivUnique
  <1> QED BY <1>5 DEF m, q, r

\* A reader of the bits WriteBits has written gets the value, modulo its width.
LEMMA ReadBitsIs ==
  ASSUME NEW bytes, NEW at \in Nat, NEW amount \in 1 .. MaxWidth, NEW value \in Int,
         \A k \in 0 .. amount - 1 :
           Bit(bytes, at + k) = (value \div Pow2[amount - 1 - k]) % 2
  PROVE  ReadBits(bytes, at, amount) = value % Pow2[amount]
  <1> DEFINE f == CHOOSE f : NumbersBy(f, bytes, at, amount)
  <1>1. amount \in Nat
    BY DEF MaxWidth
  <1>2. NumbersBy(f, bytes, at, amount)
    BY <1>1, NumbersExist
  <1>3. ReadBits(bytes, at, amount) = f[amount]
    BY DEF ReadBits, NumbersBy
  <1> HIDE DEF f
  <1> DEFINE S == {k \in Nat : k <= amount => f[k] = (value \div Pow2[amount - k]) % Pow2[k]}
  <1>4. 0 \in S
    <2>1. f[0] = 0
      BY <1>1, <1>2 DEF NumbersBy
    <2>2. Pow2[amount] \in Nat /\ Pow2[amount] > 0
      BY <1>1, Pow2Nat
    <2>3. value \div Pow2[amount] \in Int
      BY <2>2, DivMod
    <2>4. (value \div Pow2[amount]) % 1 = 0
      BY <2>3
    <2> QED BY <1>1, <2>1, <2>4, Pow2Is
  <1>5. ASSUME NEW k \in Nat, k \in S PROVE k + 1 \in S
    <2> SUFFICES ASSUME k + 1 <= amount
                 PROVE  f[k + 1] = (value \div Pow2[amount - (k + 1)]) % Pow2[k + 1]
      OBVIOUS
    <2> DEFINE y == amount - (k + 1)
               u == value \div Pow2[y]
    <2>1. /\ y \in Nat /\ y \in 0 .. MaxWidth - 1 /\ y \in 0 .. MaxWidth /\ y + 1 = amount - k
          /\ k \in 0 .. MaxWidth - 1 /\ k \in 0 .. MaxWidth
          /\ k \in 0 .. amount - 1 /\ amount - 1 - k = y
          /\ k + 1 \in 0 .. amount /\ k + 1 # 0 /\ (k + 1) - 1 = k /\ at + (k + 1) - 1 = at + k
      BY <1>1 DEF MaxWidth
    <2> HIDE DEF y
    <2>2. f[k] = (value \div Pow2[y + 1]) % Pow2[k]
      BY <1>5, <2>1
    <2>3. f[k + 1] = 2 * f[k] + Bit(bytes, at + k)
      BY <1>2, <2>1 DEF NumbersBy
    <2>4. Bit(bytes, at + k) = u % 2
      BY <2>1
    <2>5. /\ Pow2[y] \in Nat /\ Pow2[y] > 0 /\ Pow2[k] \in Nat /\ Pow2[k] > 0
          /\ Pow2[y + 1] = Pow2[y] * 2 /\ Pow2[k + 1] = 2 * Pow2[k]
      BY <2>1, Pow2Nat, Pow2Is
    <2>6. u \in Int /\ value \div Pow2[y + 1] = u \div 2
      BY <2>5, DivMod, DivDiv
    <2> HIDE DEF u
    <2>7. 2 * ((u \div 2) % Pow2[k]) + (u % 2) = u % (2 * Pow2[k])
      BY <2>5, <2>6, NextBit
    <2>8. f[k + 1] = u % Pow2[k + 1]
      BY ONLY <2>2, <2>3, <2>4, <2>5, <2>6, <2>7, Zenon
    <2> QED BY <2>8 DEF u, y
  <1>6. Nat \subseteq S
    <2> HIDE DEF S
    <2> QED BY <1>4, <1>5, InductionOverNat
  <1>7. f[amount] = (value \div Pow2[amount - amount]) % Pow2[amount]
    BY <1>1, <1>6
  <1>8. amount - amount = 0 /\ value \div 1 = value
    BY <1>1
  <1> QED BY <1>3, <1>7, <1>8, Pow2Is

----------------------------------------------------------------------------
(* Values and strings *)

\* The transformations of ReadByte undo those of WriteByte.
LEMMA CodedBack ==
  ASSUME NEW b \in Bytes, NEW type \in Types
  PROVE  Coded(b, type) \in Bytes /\ Decoded(Coded(b, type), type) = b
  <1>1. b \in Int /\ b >= 0 /\ b <= 255
    BY DEF Bytes
  <1>2. CASE type = "STANDARD"
    <2>1. Coded(b, type) = b % 256 /\ \A x : Decoded(x, type) = x % 256
      BY <1>2 DEF Coded, Decoded
    <2> QED BY <1>1, <2>1 DEF Bytes
  <1>3. CASE type = "A"
    <2>1. Coded(b, type) = (b + 128) % 256 /\ \A x : Decoded(x, type) = (x - 128) % 256
      BY <1>3 DEF Coded, Decoded
    <2> QED BY <1>1, <2>1 DEF Bytes
  <1>4. CASE type = "C"
    <2>1. Coded(b, type) = (-b) % 256 /\ \A x : Decoded(x, type) = (-x) % 256
      BY <1>4 DEF Coded, Decoded
    <2> QED BY <1>1, <2>1 DEF Bytes
  <1>5. CASE type = "S"
    <2>1. Coded(b, type) = (128 - b) % 256 /\ \A x : Decoded(x, type) = (128 - x) % 256
      BY <1>5 DEF Coded, Decoded
    <2> QED BY <1>1, <2>1 DEF Bytes
  <1> QED BY <1>2, <1>3, <1>4, <1>5 DEF Types

\* A byte order gives every byte of a value one place, and is read as it is written.
LEMMA OrderIs ==
  ASSUME NEW n \in {1, 2, 4, 8}, NEW order \in Supported(n)
  PROVE  /\ ReadOrder(n, order) = WriteOrder(n, order)
         /\ \A k \in 1 .. n : WriteOrder(n, order)[k] \in 0 .. n - 1
         /\ \A s \in 0 .. n - 1 : \E k \in 1 .. n : WriteOrder(n, order)[k] = s
  <1> DEFINE o == WriteOrder(n, order)
  <1>1. ReadOrder(n, order) = o
    BY DEF ReadOrder, WriteOrder
  <1>2. order \in {"BIG", "LITTLE"} \/ (n = 4 /\ order \in {"MIDDLE", "INVERSE_MIDDLE"})
    BY DEF Supported, Orders
  <1>3. CASE order = "BIG"
    <2>1. o = [k \in 1 .. n |-> n - k]
      BY <1>3 DEF WriteOrder
    <2>2. \A s \in 0 .. n - 1 : n - s \in 1 .. n /\ n - (n - s) = s
      OBVIOUS
    <2> QED BY <1>1, <2>1, <2>2
  <1>4. CASE order = "LITTLE"
    <2>1. o = [k \in 1 .. n |-> k - 1]
      BY <1>4 DEF WriteOrder
    <2>2. \A s \in 0 .. n - 1 : s + 1 \in 1 .. n /\ (s + 1) - 1 = s
      OBVIOUS
    <2> QED BY <1>1, <2>1, <2>2
  <1>5. CASE n = 4 /\ order = "MIDDLE"
    <2>1. o = <<1, 0, 3, 2>>
      BY <1>5 DEF WriteOrder
    <2>2. o[1] = 1 /\ o[2] = 0 /\ o[3] = 3 /\ o[4] = 2
      BY <2>1
    <2> HIDE DEF o
    <2>3. \A k \in 1 .. 4 : k = 1 \/ k = 2 \/ k = 3 \/ k = 4
      OBVIOUS
    <2>4. \A s \in 0 .. 3 : s = 0 \/ s = 1 \/ s = 2 \/ s = 3
      OBVIOUS
    <2>5. \A s \in 0 .. 3 : \E k \in 1 .. 4 : o[k] = s
      BY <2>2, <2>4
    <2>6. \A k \in 1 .. 4 : o[k] \in 0 .. 3
      BY <2>2, <2>3
    <2> QED BY <1>1, <1>5, <2>5, <2>6 DEF o
  <1>6. CASE n = 4 /\ order = "INVERSE_MIDDLE"
    <2>1. o = <<2, 3, 0, 1>>
      BY <1>6 DEF WriteOrder
    <2>2. o[1] = 2 /\ o[2] = 3 /\ o[3] = 0 /\ o[4] = 1
      BY <2>1
    <2> HIDE DEF o
    <2>3. \A k \in 1 .. 4 : k = 1 \/ k = 2 \/ k = 3 \/ k = 4
      OBVIOUS
    <2>4. \A s \in 0 .. 3 : s = 0 \/ s = 1 \/ s = 2 \/ s = 3
      OBVIOUS
    <2>5. \A s \in 0 .. 3 : \E k \in 1 .. 4 : o[k] = s
      BY <2>2, <2>4
    <2>6. \A k \in 1 .. 4 : o[k] \in 0 .. 3
      BY <2>2, <2>3
    <2> QED BY <1>1, <1>6, <2>5, <2>6 DEF o
  <1> QED BY <1>2, <1>3, <1>4, <1>5, <1>6

\* The bytes written for a value are as many as it has.
LEMMA LaidIs ==
  ASSUME NEW v, NEW type, NEW order, IsValue(v, type, order)
  PROVE  Laid(v, type, order) \in Seq(Bytes) /\ Len(Laid(v, type, order)) = Len(v)
  <1> DEFINE n == Len(v)
             o == WriteOrder(n, order)
             C(k) == Coded(v[n - o[k]], IF o[k] = 0 THEN type ELSE "STANDARD")
  <1>1. v \in Seq(Bytes) /\ n \in {1, 2, 4, 8} /\ type \in Types /\ order \in Supported(n)
    BY DEF IsValue
  <1>2. \A k \in 1 .. n : o[k] \in 0 .. n - 1
    BY <1>1, OrderIs
  <1>3. Laid(v, type, order) = [k \in 1 .. n |-> C(k)]
    BY DEF Laid
  <1>4. ASSUME NEW k \in 1 .. n PROVE C(k) \in Bytes
    <2> HIDE DEF o
    <2>1. n - o[k] \in 1 .. n
      BY <1>1, <1>2
    <2>2. v[n - o[k]] \in Bytes
      BY <1>1, <2>1
    <2>3. (IF o[k] = 0 THEN type ELSE "STANDARD") \in Types
      BY <1>1 DEF Types
    <2> QED BY <2>2, <2>3, CodedBack
  <1> HIDE DEF C
  <1>5. n \in Nat
    BY <1>1
  <1>6. [k \in 1 .. n |-> C(k)] \in Seq(Bytes) /\ Len([k \in 1 .. n |-> C(k)]) = n
    BY ONLY <1>4, <1>5
  <1> QED BY <1>3, <1>6

\* ReadShort, ReadInt and ReadLong give back what WriteShort, WriteInt and WriteLong
\* have written.
LEMMA ReadLaid ==
  ASSUME NEW v, NEW type, NEW order, IsValue(v, type, order), NEW at \in Nat,
         \A k \in 1 .. Len(v) : buffer[at + k] = Laid(v, type, order)[k]
  PROVE  ReadValue(at, Len(v), type, order) = v
  <1> DEFINE n == Len(v)
             o == WriteOrder(n, order)
             T(s) == IF s = 0 THEN type ELSE "STANDARD"
             from == ReadOrder(n, order)
             P(s) == CHOOSE k \in 1 .. n : from[k] = s
             D(i) == Decoded(buffer[at + P(n - i)], IF i = n THEN type ELSE "STANDARD")
  <1>1. /\ v \in Seq(Bytes) /\ n \in {1, 2, 4, 8} /\ n \in Nat
        /\ type \in Types /\ order \in Supported(n)
    BY DEF IsValue
  <1>2. from = o /\ \A s \in 0 .. n - 1 : \E k \in 1 .. n : from[k] = s
    <2>1. from = o /\ \A s \in 0 .. n - 1 : \E k \in 1 .. n : o[k] = s
      BY <1>1, OrderIs, ZenonT(60)
    <2> HIDE DEF from, o
    <2> QED BY <2>1, Zenon
  <1>3. ReadValue(at, n, type, order) = [i \in 1 .. n |-> D(i)]
    BY Zenon DEF ReadValue
  <1>4. ASSUME NEW i \in 1 .. n PROVE D(i) = v[i]
    <2> DEFINE s == n - i
               k == P(s)
    <2>1. s \in 0 .. n - 1 /\ n - s = i /\ (s = 0 <=> i = n)
      BY <1>1
    <2> HIDE DEF s
    <2>2. k \in 1 .. n /\ o[k] = s
      <3>1. \E l \in 1 .. n : from[l] = s
        BY <1>2, <2>1
      <3> HIDE DEF o, from
      <3>2. k \in 1 .. n /\ from[k] = s
        BY <3>1, Zenon
      <3> QED BY <1>2, <3>2, Zenon
    <2> HIDE DEF k, o
    <2>3. Laid(v, type, order)[k] = Coded(v[n - o[k]], T(o[k]))
      BY <2>2 DEF Laid, o
    <2>4. buffer[at + k] = Coded(v[i], T(s))
      BY <2>1, <2>2, <2>3
    <2>5. v[i] \in Bytes /\ T(s) \in Types
      BY <1>1 DEF Types
    <2>6. Decoded(Coded(v[i], T(s)), T(s)) = v[i]
      BY <2>5, CodedBack
    <2>7. D(i) = Decoded(buffer[at + k], T(s))
      <3>1. D(i) = Decoded(buffer[at + k], IF i = n THEN type ELSE "STANDARD")
        BY Zenon DEF k, s
      <3> HIDE DEF D
      <3> QED BY <2>1, <3>1
    <2> HIDE DEF D, T
    <2> QED BY <2>4, <2>6, <2>7
  <1> HIDE DEF D
  <1>5. [i \in 1 .. n |-> D(i)] = v
    BY <1>1, <1>4
  <1> QED BY <1>3, <1>5

\* A string ends with the first newline after its beginning.
LEMMA ReadStringIs ==
  ASSUME NEW s \in Seq(Bytes \ {Newline}), NEW at \in Nat, buffer \in Seq(Bytes),
         at + Len(s) + 1 <= Len(buffer),
         \A k \in 1 .. Len(s) : buffer[at + k] = s[k],
         buffer[at + Len(s) + 1] = Newline
  PROVE  ReadString(at) = s
  <1> DEFINE n == Len(s)
             Ends(i) == buffer[i] = Newline /\ \A j \in at + 1 .. i - 1 : buffer[j] # Newline
             end == CHOOSE i \in at + 1 .. Len(buffer) : Ends(i)
  <1>1. n \in Nat /\ Len(buffer) \in Nat /\ \A k \in 1 .. n : s[k] # Newline
    OBVIOUS
  <1>2. \A j \in at + 1 .. at + n : buffer[j] # Newline /\ buffer[j] = s[j - at]
    <2> TAKE j \in at + 1 .. at + n
    <2>1. j - at \in 1 .. n /\ at + (j - at) = j
      BY <1>1
    <2>2. buffer[at + (j - at)] = s[j - at]
      BY <2>1
    <2> QED BY <1>1, <2>1, <2>2
  <1>3. at + n + 1 \in at + 1 .. Len(buffer) /\ Ends(at + n + 1)
    BY <1>1, <1>2
  <1>4. \A i \in at + 1 .. Len(buffer) : Ends(i) => i = at + n + 1
    <2> SUFFICES ASSUME NEW i \in at + 1 .. Len(buffer), Ends(i), i # at + n + 1 PROVE FALSE
      OBVIOUS
    <2>1. CASE i < at + n + 1
      <3>1. i \in at + 1 .. at + n
        BY <1>1, <2>1
      <3> QED BY <1>2, <3>1
    <2>2. CASE i > at + n + 1
      <3>1. at + n + 1 \in at + 1 .. i - 1
        BY <1>1, <2>2
      <3> QED BY <3>1
    <2> QED BY <1>1, <2>1, <2>2
  <1>5. end = at + n + 1
    <2> HIDE DEF Ends
    <2>1. end \in at + 1 .. Len(buffer) /\ Ends(end)
      BY <1>3, Zenon
    <2> HIDE DEF end
    <2> QED BY <1>4, <2>1
  <1>6. ReadString(at) = SubSeq(buffer, at + 1, end - 1)
    BY DEF ReadString
  <1> HIDE DEF end
  <1>7. end - 1 = at + n
    BY <1>1, <1>5
  <1>8. SubSeq(buffer, at + 1, at + n) = s
    <2> DEFINE t == SubSeq(buffer, at + 1, at + n)
    <2>1. at + 1 \in 1 .. Len(buffer) + 1 /\ at + n \in at .. Len(buffer)
      BY <1>1
    <2>2. t \in Seq(Bytes) /\ Len(t) = n /\ \A k \in 1 .. n : t[k] = buffer[at + k]
      BY <1>1, <2>1
    <2> HIDE DEF t
    <2>3. t = [k \in 1 .. n |-> t[k]]
      BY <2>2
    <2>4. s = [k \in 1 .. n |-> s[k]]
      OBVIOUS
    <2>5. \A k \in 1 .. n : t[k] = s[k]
      BY <2>2
    <2>6. t = s
      BY ONLY <2>3, <2>4, <2>5
    <2> QED BY <2>6 DEF t
  <1> QED BY <1>6, <1>7, <1>8

\* What a write of bytes does to a buffer that is large enough.
LEMMA Overlaid ==
  ASSUME NEW room \in Seq(Bytes), NEW at \in Nat, NEW bytes \in Seq(Bytes),
         at + Len(bytes) <= Len(room),
         NEW new, new = [i \in 1 .. Len(room) |->
                           IF i \in at + 1 .. at + Len(bytes) THEN bytes[i - at] ELSE room[i]]
  PROVE  /\ new \in Seq(Bytes) /\ Len(new) = Len(room)
         /\ \A i \in 1 .. at : new[i] = room[i]
         /\ \A k \in 1 .. Len(bytes) : new[at + k] = bytes[k]
  <1>1. Len(room) \in Nat /\ Len(bytes) \in Nat
    OBVIOUS
  <1>2. ASSUME NEW i \in 1 .. Len(room)
        PROVE  (IF i \in at + 1 .. at + Len(bytes) THEN bytes[i - at] ELSE room[i]) \in Bytes
    <2>1. CASE i \in at + 1 .. at + Len(bytes)
      <3>1. i - at \in 1 .. Len(bytes)
        BY <1>1, <2>1
      <3> QED BY <2>1, <3>1
    <2>2. CASE i \notin at + 1 .. at + Len(bytes)
      BY <2>2
    <2> QED BY <2>1, <2>2
  <1>3. new \in Seq(Bytes) /\ Len(new) = Len(room)
    BY <1>1, <1>2
  <1>4. \A i \in 1 .. at : new[i] = room[i]
    BY <1>1
  <1>5. ASSUME NEW k \in 1 .. Len(bytes) PROVE new[at + k] = bytes[k]
    <2>1. at + k \in 1 .. Len(room) /\ at + k \in at + 1 .. at + Len(bytes) /\ (at + k) - at = k
      BY <1>1
    <2> QED BY <2>1
  <1> QED BY <1>3, <1>4, <1>5

\* new is old with a write of bytes at a place, larger if it had to be.
WrittenAt(new, old, at, bytes) ==
  /\ new \in Seq(Bytes) /\ Len(new) >= Len(old) /\ at + Len(bytes) <= Len(new)
  /\ \A i \in 1 .. at : new[i] = old[i]
  /\ \A k \in 1 .. Len(bytes) : new[at + k] = bytes[k]

\* A buffer with room for the write, however it has been made.
LEMMA RoomMade ==
  ASSUME NEW old \in Seq(Bytes), NEW at \in 0 .. Len(old), NEW bytes \in Seq(Bytes),
         NEW n \in Nat, NEW room,
         room = old \/ (room = Resized(old, n) /\ n >= Len(old)),
         at + Len(bytes) <= Len(room),
         NEW new, new = [i \in 1 .. Len(room) |->
                           IF i \in at + 1 .. at + Len(bytes) THEN bytes[i - at] ELSE room[i]]
  PROVE  WrittenAt(new, old, at, bytes)
  <1>1. Len(old) \in Nat /\ at \in Nat /\ at <= Len(old)
    OBVIOUS
  <1>2. /\ room \in Seq(Bytes) /\ Len(room) \in Nat /\ Len(room) >= Len(old)
        /\ \A i \in 1 .. Len(old) : room[i] = old[i]
    <2>1. CASE room = old
      BY <1>1, <2>1
    <2>2. CASE room = Resized(old, n) /\ n >= Len(old)
      BY <1>1, <2>2, ResizedIs
    <2> QED BY <2>1, <2>2
  <1>3. /\ new \in Seq(Bytes) /\ Len(new) = Len(room)
        /\ \A i \in 1 .. at : new[i] = room[i]
        /\ \A k \in 1 .. Len(bytes) : new[at + k] = bytes[k]
    BY <1>1, <1>2, Overlaid
  <1>4. \A i \in 1 .. at : i \in 1 .. Len(old)
    BY <1>1
  <1> QED BY ONLY <1>2, <1>3, <1>4, at + Len(bytes) <= Len(room) DEF WrittenAt

\* WriteByte for each of the bytes.
LEMMA WrittenIs ==
  ASSUME buffer \in Seq(Bytes), pos \in 0 .. Len(buffer), NEW bytes \in Seq(Bytes)
  PROVE  WrittenAt(Written(bytes), buffer, pos, bytes)
  <1> DEFINE n == pos + Len(bytes)
             room == IF Len(buffer) < n THEN Resized(buffer, n) ELSE buffer
             new == [i \in 1 .. Len(room) |->
                       IF i \in pos + 1 .. pos + Len(bytes) THEN bytes[i - pos] ELSE room[i]]
  <1>1. Len(buffer) \in Nat /\ Len(bytes) \in Nat /\ pos \in Nat /\ n \in Nat
    OBVIOUS
  <1>2. Written(bytes) = new
    BY DEF Written
  <1>3. room = buffer \/ (room = Resized(buffer, n) /\ n >= Len(buffer))
    BY <1>1
  <1>4. pos + Len(bytes) <= Len(room)
    <2>1. CASE Len(buffer) < n
      <3>1. Len(Resized(buffer, n)) = n
        BY <1>1, <2>1, ResizedIs
      <3> QED BY <1>1, <2>1, <3>1
    <2>2. CASE ~ (Len(buffer) < n)
      BY <1>1, <2>2
    <2> QED BY <2>1, <2>2
  <1> HIDE DEF room
  <1>5. WrittenAt(new, buffer, pos, bytes)
    <2> DEFINE m == n
    <2> HIDE DEF n
    <2> QED BY <1>1, <1>3, <1>4, RoomMade
  <1> QED BY <1>2, <1>5

\* The lower half of a long, extended.
LEMMA ShortenedIs ==
  ASSUME NEW v \in Seq(Bytes), Len(v) = 8
  PROVE  Shortened(v) \in Seq(Bytes) /\ Len(Shortened(v)) = 8
  <1> DEFINE a == [i \in 1 .. 4 |-> IF v[5] < 128 THEN 0 ELSE 255]
             b == SubSeq(v, 5, 8)
  <1>1. a \in Seq(Bytes) /\ Len(a) = 4
    BY DEF Bytes
  <1>2. b \in Seq(Bytes) /\ Len(b) = 4
    <2>1. 5 \in Int /\ 8 \in Int /\ \A i \in 5 .. 8 : v[i] \in Bytes
      BY SMTT(30)
    <2>2. b \in Seq(Bytes) /\ Len(b) = IF 5 <= 8 THEN 8 - 5 + 1 ELSE 0
      BY <2>1, SubSeqProperties
    <2> QED BY <2>2
  <1> HIDE DEF a, b
  <1>3. a \o b \in Seq(Bytes) /\ Len(a \o b) = Len(a) + Len(b)
    BY <1>1, <1>2, ConcatProperties
  <1> QED BY <1>1, <1>2, <1>3 DEF Shortened, a, b

----------------------------------------------------------------------------
(* Nothing written is lost *)

\* A buffer that has the bits of another one before a place.
Agrees(new, old, place) ==
  /\ \A i \in 1 .. Len(old) : 8 * i <= place => new[i] = old[i]
  /\ \A j \in Nat : j < place => Bit(new, j) = Bit(old, j)

\* The sizes and places of what has been written.
LEMMA WellPlaced ==
  ASSUME NEW it, WellFormed(it)
  PROVE  /\ it.at \in Nat /\ Begins(it) \in Nat /\ Until(it) \in Nat /\ Begins(it) <= Until(it)
         /\ it.kind # "bits" => BytesOf(it) \in Seq(Bytes)
         /\ it.kind = "bits" => it.amount \in 1 .. MaxWidth /\ it.value \in Int
  <1>1. it.at \in Nat
    BY DEF WellFormed
  <1>2. CASE it.kind = "bits"
    <2>1. it.amount \in 1 .. MaxWidth /\ it.value \in Int
      BY <1>2 DEF WellFormed
    <2> QED BY <1>1, <1>2, <2>1 DEF Begins, Until, MaxWidth
  <1>3. CASE it.kind # "bits"
    <2>1. BytesOf(it) \in Seq(Bytes)
      <3>1. CASE it.kind = "value" /\ IsValue(it.value, it.type, it.order)
        BY <3>1, LaidIs DEF BytesOf
      <3>2. CASE it.kind = "long" /\ it.value \in Seq(Bytes) /\ Len(it.value) = 8
        BY <3>2, ShortenedIs DEF BytesOf
      <3>3. CASE it.kind = "string" /\ it.value \in Seq(Bytes \ {Newline})
        <4>1. Append(it.value, Newline) \in Seq(Bytes)
          BY <3>3 DEF Newline, Bytes
        <4> QED BY <3>3, <4>1 DEF BytesOf
      <3>4. CASE it.kind = "bytes" /\ it.value \in Seq(Bytes)
        BY <3>4 DEF BytesOf
      <3> QED BY <1>3, <3>1, <3>2, <3>3, <3>4 DEF WellFormed
    <2>2. Len(BytesOf(it)) \in Nat
      BY <2>1
    <2>3. Begins(it) = 8 * it.at /\ Until(it) = 8 * (it.at + Len(BytesOf(it)))
      BY <1>3 DEF Begins, Until
    <2>4. 8 * it.at \in Nat /\ 8 * (it.at + Len(BytesOf(it))) \in Nat
          /\ 8 * it.at <= 8 * (it.at + Len(BytesOf(it)))
      BY ONLY <1>1, <2>2
    <2> QED BY <1>1, <1>3, <2>1, <2>3, <2>4
  <1> QED BY <1>2, <1>3

\* A write leaves what is before it.
LEMMA StoredStays ==
  ASSUME NEW it, WellFormed(it), NEW old \in Seq(Bytes), NEW new, NEW place \in Nat,
         Until(it) <= place, place <= 8 * Len(old), Agrees(new, old, place), StoredIn(old, it)
  PROVE  StoredIn(new, it)
  <1>1. it.at \in Nat /\ Len(old) \in Nat
    BY WellPlaced
  <1>2. CASE it.kind = "bits"
    <2>1. it.amount \in Nat /\ it.at + it.amount <= place
      <3>1. it.amount \in 1 .. MaxWidth
        BY <1>2, WellPlaced
      <3>2. Until(it) = it.at + it.amount
        BY <1>2 DEF Until
      <3>3. it.amount \in Nat
        <4>1. \A x \in 1 .. MaxWidth : x \in Nat
          BY DEF MaxWidth
        <4> QED BY <3>1, <4>1, Zenon
      <3>4. it.at + it.amount <= place
        BY ONLY <3>2, Until(it) <= place, Zenon
      <3> QED BY <3>3, <3>4
    <2>2. \A k \in 0 .. it.amount - 1 : it.at + k \in Nat /\ it.at + k < place
      BY <1>1, <2>1
    <2> QED BY <1>2, <2>2 DEF StoredIn, Agrees
  <1>3. CASE it.kind # "bits"
    <2> DEFINE n == Len(BytesOf(it))
    <2>1. n \in Nat /\ 8 * (it.at + n) <= place
      <3>1. BytesOf(it) \in Seq(Bytes)
        BY <1>3, WellPlaced
      <3> QED BY <1>3, <3>1 DEF Until
    <2>2. \A k \in 1 .. n : it.at + k \in 1 .. Len(old) /\ 8 * (it.at + k) <= place
      <3> HIDE DEF n
      <3> QED BY <1>1, <2>1, SMTT(30)
    <2>3. \A k \in 1 .. n : new[it.at + k] = old[it.at + k]
      BY <2>2 DEF Agrees
    <2> QED BY <1>3, <2>3 DEF StoredIn
  <1> QED BY <1>2, <1>3

\* A write of bytes agrees with the buffer before its place.
LEMMA WrittenAgrees ==
  ASSUME NEW old \in Seq(Bytes), NEW at \in 0 .. Len(old), NEW bytes \in Seq(Bytes), NEW new,
         WrittenAt(new, old, at, bytes)
  PROVE  Agrees(new, old, 8 * at)
  <1>1. Len(old) \in Nat /\ at \in Nat /\ \A i \in 1 .. at : new[i] = old[i]
    BY DEF WrittenAt
  <1>2. ASSUME NEW i \in 1 .. Len(old), 8 * i <= 8 * at PROVE new[i] = old[i]
    <2>1. i \in 1 .. at
      BY <1>1, <1>2
    <2> QED BY <1>1, <2>1
  <1>3. ASSUME NEW j \in Nat, j < 8 * at PROVE Bit(new, j) = Bit(old, j)
    <2>1. (j \div 8) + 1 \in 1 .. at
      BY <1>1, <1>3
    <2> QED BY <1>1, <2>1 DEF Bit
  <1> QED BY <1>2, <1>3 DEF Agrees


\* Where the next write goes is inside the buffer.
LEMMA HereIs ==
  ASSUME TypeOK
  PROVE  Here \in Nat /\ Here <= 8 * Len(buffer)
  <1>1. /\ Len(buffer) \in Nat /\ pos \in 0 .. Len(buffer)
        /\ bitPosition \in 0 .. 8 * Len(buffer)
    BY DEF TypeOK
  <1>2. CASE InBytes
    BY <1>1, <1>2 DEF Here
  <1>3. CASE ~InBytes
    BY <1>1, <1>3 DEF Here
  <1> QED BY <1>2, <1>3

\* A write at the place that comes next leaves all that has been written.
LEMMA StoredAfterWrite ==
  ASSUME Inv, NEW it, items' = Append(items, it), WellFormed(it), Clear(it, header'),
         Until(it) <= Here', Here <= Here', Here' \in Nat,
         header' = header \/ Here <= 8,
         Agrees(buffer', buffer, Here), StoredIn(buffer', it)
  PROVE  AllStored'
  <1>1. /\ buffer \in Seq(Bytes) /\ Here \in Nat /\ Here <= 8 * Len(buffer)
        /\ items \in Seq(Items) /\ AllStored
    BY HereIs DEF Inv, TypeOK
  <1>2. Len(items) \in Nat /\ Len(items') = Len(items) + 1
    BY <1>1
  <1>3. items'[Len(items) + 1] = it /\ \A k \in 1 .. Len(items) : items'[k] = items[k]
    BY <1>1
  <1>4. ASSUME NEW k \in 1 .. Len(items)
        PROVE  /\ WellFormed(items[k]) /\ Until(items[k]) <= Here' /\ Clear(items[k], header')
               /\ StoredIn(buffer', items[k])
    <2>1. /\ WellFormed(items[k]) /\ Until(items[k]) <= Here /\ Clear(items[k], header)
          /\ StoredIn(buffer, items[k])
      BY <1>1 DEF AllStored, Placed
    <2>2. Until(items[k]) \in Nat
      BY <2>1, WellPlaced
    <2>3. Until(items[k]) <= Here'
      BY ONLY <1>1, <2>1, <2>2, Here <= Here', Here' \in Nat
    <2>4. Clear(items[k], header')
      <3>1. CASE header' = header
        BY <2>1, <3>1
      <3>2. CASE Here <= 8
        <4>1. Until(items[k]) <= 8
          BY ONLY <1>1, <2>1, <2>2, <3>2
        <4> QED BY <4>1 DEF Clear
      <3> QED BY <3>1, <3>2
    <2>5. StoredIn(buffer', items[k])
      BY <1>1, <2>1, StoredStays
    <2> QED BY <2>1, <2>3, <2>4, <2>5
  <1> SUFFICES ASSUME NEW k \in 1 .. Len(items')
               PROVE  /\ WellFormed(items'[k]) /\ Until(items'[k]) <= Here' /\ Clear(items'[k], header')
                      /\ StoredIn(buffer', items'[k])
    BY DEF AllStored, Placed
  <1>5. CASE k \in 1 .. Len(items)
    BY <1>3, <1>4, <1>5
  <1>6. CASE k = Len(items) + 1
    BY <1>3, <1>6
  <1> QED BY <1>2, <1>5, <1>6

\* A write of bytes: WriteByte to WriteLong, WriteString, WriteBytes.
LEMMA BytesAppended ==
  ASSUME Inv, InBytes, ~finished, Len(items) < MaxCalls,
         NEW it, it \in Items, WellFormed(it), it.kind # "bits", it.at = pos,
         items' = Append(items, it),
         WrittenAt(buffer', buffer, pos, BytesOf(it)),
         pos' = pos + Len(BytesOf(it)),
         UNCHANGED <<bitPosition, access, frame, header, finished>>
  PROVE  Inv'
  <1> DEFINE n == Len(BytesOf(it))
  <1>1. BytesOf(it) \in Seq(Bytes) /\ n \in Nat
    BY WellPlaced
  <1>2. /\ buffer \in Seq(Bytes) /\ Len(buffer) \in Nat /\ pos \in 0 .. Len(buffer) /\ pos \in Nat
        /\ bitPosition \in 0 .. 8 * Len(buffer)
    BY DEF Inv, TypeOK
  <1>3. /\ buffer' \in Seq(Bytes) /\ Len(buffer') \in Nat /\ Len(buffer') >= Len(buffer)
        /\ pos + n <= Len(buffer')
        /\ \A k \in 1 .. n : buffer'[pos + k] = BytesOf(it)[k]
    BY DEF WrittenAt
  <1>4. Agrees(buffer', buffer, 8 * pos)
    BY <1>1, <1>2, WrittenAgrees
  <1> HIDE DEF n
  <1>5. pos' = pos + n
    BY DEF n
  <1>6. TypeOK'
    <2>1. pos' \in 0 .. Len(buffer') /\ bitPosition' \in 0 .. 8 * Len(buffer')
      BY ONLY <1>1, <1>2, <1>3, <1>5, bitPosition' = bitPosition
    <2>2. items' \in Seq(Items) /\ Len(items') <= MaxCalls
      BY SizesAssumption DEF Inv, TypeOK
    <2> QED BY <1>3, <2>1, <2>2 DEF Inv, TypeOK
  <1>7. Here = 8 * pos /\ Here' = 8 * (pos + n) /\ InBytes'
    BY <1>5 DEF Here, InBytes
  <1>8. header \in DOMAIN SizeBytes /\ SizeBytes[header] \in Nat
    BY DEF Inv, TypeOK, SizeBytes
  <1>9. header # "NONE" => pos >= 1 + SizeBytes[header]
    BY DEF Inv, Progress
  <1>10. Progress'
    <2>1. header' # "NONE" => pos' >= 1 + SizeBytes[header']
      BY <1>1, <1>2, <1>5, <1>8, <1>9
    <2> QED BY <1>7, <2>1 DEF Inv, Progress
  <1>11. SizeFieldRight'
    BY DEF SizeFieldRight
  <1>12. Begins(it) = 8 * pos /\ Until(it) = 8 * (pos + n)
    BY DEF Begins, Until, n
  <1>13. Clear(it, header')
    <2>1. header' # "NONE" => 8 * pos >= 8 * (1 + SizeBytes[header'])
      BY <1>2, <1>8, <1>9
    <2> QED BY <1>12, <2>1 DEF Clear
  <1>14. StoredIn(buffer', it)
    BY <1>3 DEF StoredIn, n
  <1>15. Until(it) <= Here' /\ Here <= Here' /\ Here' \in Nat
    BY ONLY <1>1, <1>2, <1>7, <1>12
  <1>16. AllStored'
    BY <1>4, <1>7, <1>13, <1>14, <1>15, StoredAfterWrite
  <1> QED BY <1>6, <1>10, <1>11, <1>16 DEF Inv


----------------------------------------------------------------------------
(* The steps *)

\* A new buffer.
LEMMA InitInv == Init => Inv
  <1> SUFFICES ASSUME Init PROVE Inv
    OBVIOUS
  <1>1. InitialSize \in Nat /\ MaxCalls \in Nat
    BY SizesAssumption
  <1>2. buffer \in Seq(Bytes) /\ Len(buffer) = InitialSize
    BY <1>1 DEF Init, Zeros, Bytes
  <1>3. items \in Seq(Items) /\ Len(items) = 0
    BY DEF Init
  <1>4. TypeOK
    <2>1. pos \in 0 .. Len(buffer) /\ bitPosition \in 0 .. 8 * Len(buffer)
      BY <1>1, <1>2 DEF Init
    <2>2. frame \in 0 .. 1 /\ header \in DOMAIN SizeBytes /\ Len(items) <= MaxCalls
      BY <1>1, <1>3 DEF Init, SizeBytes
    <2> QED BY <1>2, <1>3, <2>1, <2>2 DEF Init, TypeOK
  <1>5. Progress
    BY DEF Init, Progress, InBytes
  <1>6. SizeFieldRight
    BY DEF Init, SizeFieldRight
  <1>7. AllStored
    BY <1>3 DEF AllStored
  <1> QED BY <1>4, <1>5, <1>6, <1>7 DEF Inv

\* WriteByte, WriteShort, WriteInt and WriteLong.
LEMMA WriteValueStep ==
  ASSUME Inv, NEW w \in Writes, WriteValue(w[1], w[2], w[3])
  PROVE  Inv'
  <1> DEFINE v == w[1]
             type == w[2]
             order == w[3]
  <1>1. IsValue(v, type, order)
    BY WritesAssumption DEF IsValue
  <1>2. v \in Seq(Bytes) /\ type \in Types /\ order \in Orders
    BY <1>1 DEF IsValue, Supported, Orders
  <1>3. /\ InBytes /\ ~finished /\ Len(items) < MaxCalls
        /\ buffer' = Written(Laid(v, type, order)) /\ pos' = pos + Len(v)
        /\ UNCHANGED <<bitPosition, access, frame, header, finished>>
    BY DEF WriteValue, Calls
  <1>4. PICK it : it = [kind |-> "value", at |-> pos, value |-> v, type |-> type, order |-> order]
    OBVIOUS
  <1>5. items' = Append(items, it)
    BY <1>4 DEF WriteValue, Calls
  <1> HIDE DEF v, type, order
  <1>6. buffer \in Seq(Bytes) /\ pos \in 0 .. Len(buffer) /\ pos \in Nat
    BY DEF Inv, TypeOK
  <1>7. /\ it.kind = "value" /\ it.at = pos /\ it.value = v /\ it.type = type /\ it.order = order
        /\ it \in Items
    BY <1>2, <1>4, <1>6 DEF Items
  <1>8. BytesOf(it) = Laid(v, type, order)
    BY <1>7 DEF BytesOf
  <1>9. WellFormed(it)
    BY <1>1, <1>6, <1>7 DEF WellFormed
  <1>10. Laid(v, type, order) \in Seq(Bytes) /\ Len(Laid(v, type, order)) = Len(v)
    BY <1>1, LaidIs
  <1>11. WrittenAt(buffer', buffer, pos, BytesOf(it))
    BY <1>3, <1>6, <1>8, <1>10, WrittenIs
  <1>12. pos' = pos + Len(BytesOf(it)) /\ it.kind # "bits"
    BY <1>3, <1>7, <1>8, <1>10
  <1> QED BY <1>3, <1>5, <1>7, <1>9, <1>11, <1>12, BytesAppended

\* WriteLong with the value only.
LEMMA WriteLongStep ==
  ASSUME Inv, NEW v \in Longs, WriteLongShortened(v)
  PROVE  Inv'
  <1>2. v \in Seq(Bytes) /\ Len(v) = 8
    BY LongsAssumption
  <1>3. /\ InBytes /\ ~finished /\ Len(items) < MaxCalls
        /\ buffer' = Written(Shortened(v)) /\ pos' = pos + 8
        /\ UNCHANGED <<bitPosition, access, frame, header, finished>>
    BY DEF WriteLongShortened, Calls
  <1>4. PICK it : it = [kind |-> "long", at |-> pos, value |-> v]
    OBVIOUS
  <1>5. items' = Append(items, it)
    BY <1>4 DEF WriteLongShortened, Calls
  <1>6. buffer \in Seq(Bytes) /\ pos \in 0 .. Len(buffer) /\ pos \in Nat
    BY DEF Inv, TypeOK
  <1>7. it.kind = "long" /\ it.at = pos /\ it.value = v /\ it \in Items
    BY <1>2, <1>4, <1>6 DEF Items
  <1>8. BytesOf(it) = Shortened(v)
    BY <1>7 DEF BytesOf
  <1>9. WellFormed(it)
    BY <1>2, <1>6, <1>7 DEF WellFormed
  <1>10. Shortened(v) \in Seq(Bytes) /\ Len(Shortened(v)) = 8
    BY <1>2, ShortenedIs
  <1>11. WrittenAt(buffer', buffer, pos, BytesOf(it))
    BY <1>3, <1>6, <1>8, <1>10, WrittenIs
  <1>12. pos' = pos + Len(BytesOf(it)) /\ it.kind # "bits"
    BY <1>3, <1>7, <1>8, <1>10
  <1> QED BY <1>3, <1>5, <1>7, <1>9, <1>11, <1>12, BytesAppended

\* WriteString, which ends with a newline.
LEMMA WriteStringStep ==
  ASSUME Inv, NEW s \in Strings, WriteString(s)
  PROVE  Inv'
  <1>2. s \in Seq(Bytes \ {Newline}) /\ s \in Seq(Bytes) /\ Newline \in Bytes /\ Len(s) \in Nat
    BY StringsAssumption DEF Newline, Bytes
  <1>3. /\ InBytes /\ ~finished /\ Len(items) < MaxCalls
        /\ buffer' = Written(Append(s, Newline)) /\ pos' = pos + Len(s) + 1
        /\ UNCHANGED <<bitPosition, access, frame, header, finished>>
    BY DEF WriteString, Calls
  <1>4. PICK it : it = [kind |-> "string", at |-> pos, value |-> s]
    OBVIOUS
  <1>5. items' = Append(items, it)
    BY <1>4 DEF WriteString, Calls
  <1>6. buffer \in Seq(Bytes) /\ pos \in 0 .. Len(buffer) /\ pos \in Nat
    BY DEF Inv, TypeOK
  <1>7. it.kind = "string" /\ it.at = pos /\ it.value = s /\ it \in Items
    BY <1>2, <1>4, <1>6 DEF Items
  <1>8. BytesOf(it) = Append(s, Newline)
    BY <1>7 DEF BytesOf
  <1>9. WellFormed(it)
    BY <1>2, <1>6, <1>7 DEF WellFormed
  <1>10. Append(s, Newline) \in Seq(Bytes) /\ Len(Append(s, Newline)) = Len(s) + 1
    BY <1>2
  <1>11. WrittenAt(buffer', buffer, pos, BytesOf(it))
    BY <1>3, <1>6, <1>8, <1>10, WrittenIs
  <1>12. pos' = pos + Len(BytesOf(it)) /\ it.kind # "bits"
    <2>1. Len(BytesOf(it)) = Len(s) + 1 /\ it.kind # "bits"
      BY <1>7, <1>8, <1>10
    <2> QED BY ONLY <1>2, <1>3, <1>6, <2>1
  <1> QED BY <1>3, <1>5, <1>7, <1>9, <1>11, <1>12, BytesAppended

\* The bytes of the other buffer are at the place, and what is before it stays.
LEMMA BytesWritten ==
  ASSUME buffer \in Seq(Bytes), pos \in 0 .. Len(buffer), NEW s \in Seq(Bytes), WriteBytes(s)
  PROVE  WrittenAt(buffer', buffer, pos, s)
  <1> DEFINE n == pos + Len(s) + Growth
             room == IF Len(s) > 0 /\ pos + Len(s) > Len(buffer) THEN Resized(buffer, n) ELSE buffer
  <1>1. s \in Seq(Bytes) /\ Len(s) \in Nat /\ Growth \in Nat
    BY SizesAssumption
  <1>2. /\ buffer \in Seq(Bytes) /\ pos \in 0 .. Len(buffer) /\ pos \in Nat /\ Len(buffer) \in Nat
        /\ pos <= Len(buffer)
    OBVIOUS
  <1>3. buffer' = [i \in 1 .. Len(room) |->
                     IF i \in pos + 1 .. pos + Len(s) THEN s[i - pos] ELSE room[i]]
    BY DEF WriteBytes
  <1>4. n \in Nat
    BY ONLY <1>1, <1>2
  <1>5. /\ room = buffer \/ (room = Resized(buffer, n) /\ n >= Len(buffer))
        /\ pos + Len(s) <= Len(room)
    <2>1. CASE Len(s) > 0 /\ pos + Len(s) > Len(buffer)
      <3>1. room = Resized(buffer, n)
        BY <2>1
      <3>2. n >= Len(buffer) /\ pos + Len(s) <= n
        BY ONLY <1>1, <1>2, <2>1
      <3>3. Len(Resized(buffer, n)) = n
        BY <1>2, <1>4, <3>2, ResizedIs
      <3> QED BY <3>1, <3>2, <3>3
    <2>2. CASE ~ (Len(s) > 0 /\ pos + Len(s) > Len(buffer))
      <3>1. room = buffer
        BY <2>2
      <3>2. pos + Len(s) <= Len(buffer)
        BY ONLY <1>1, <1>2, <2>2
      <3> QED BY <3>1, <3>2
    <2> QED BY <2>1, <2>2
  <1> HIDE DEF n, room
  <1> QED BY <1>1, <1>2, <1>3, <1>4, <1>5, RoomMade

\* WriteBytes, which makes more room than it needs.
LEMMA WriteBytesStep ==
  ASSUME Inv, NEW s \in Seq(Bytes), WriteBytes(s)
  PROVE  Inv'
  <1>1. s \in Seq(Bytes)
    OBVIOUS
  <1>2. /\ InBytes /\ ~finished /\ Len(items) < MaxCalls /\ pos' = pos + Len(s)
        /\ UNCHANGED <<bitPosition, access, frame, header, finished>>
    BY DEF WriteBytes, Calls
  <1>3. PICK it : it = [kind |-> "bytes", at |-> pos, value |-> s]
    OBVIOUS
  <1>4. items' = Append(items, it)
    BY <1>3 DEF WriteBytes, Calls
  <1>5. /\ buffer \in Seq(Bytes) /\ pos \in 0 .. Len(buffer) /\ pos \in Nat /\ Len(buffer) \in Nat
        /\ pos <= Len(buffer)
    BY DEF Inv, TypeOK
  <1>6. it.kind = "bytes" /\ it.at = pos /\ it.value = s /\ it \in Items
    BY <1>1, <1>3, <1>5 DEF Items
  <1>7. BytesOf(it) = s
    BY <1>6 DEF BytesOf
  <1>8. WellFormed(it)
    BY <1>1, <1>5, <1>6 DEF WellFormed
  <1>9. WrittenAt(buffer', buffer, pos, s)
    BY <1>5, BytesWritten
  <1>10. pos' = pos + Len(BytesOf(it)) /\ it.kind # "bits"
    BY <1>2, <1>6, <1>7
  <1> QED BY <1>2, <1>4, <1>6, <1>7, <1>8, <1>9, <1>10, BytesAppended


\* WriteBits.
LEMMA WriteBitsStep ==
  ASSUME Inv, NEW amount \in 1 .. MaxWidth, NEW value \in Int, WriteBits(amount, value)
  PROVE  Inv'
  <1>1. amount \in 1 .. MaxWidth /\ value \in Int /\ amount \in Nat
    BY DEF MaxWidth
  <1>2. /\ ~InBytes /\ ~finished /\ Len(items) < MaxCalls
        /\ buffer' = PutBits(buffer, bitPosition, amount, value)
        /\ bitPosition' = bitPosition + amount
        /\ UNCHANGED <<pos, access, frame, header, finished>>
    BY DEF WriteBits, Calls
  <1>3. PICK it : it = [kind |-> "bits", at |-> bitPosition, value |-> value, amount |-> amount]
    OBVIOUS
  <1>4. items' = Append(items, it)
    BY <1>3 DEF WriteBits, Calls
  <1>5. /\ buffer \in Seq(Bytes) /\ Len(buffer) \in Nat /\ pos \in 0 .. Len(buffer) /\ pos \in Nat
        /\ bitPosition \in Nat /\ bitPosition <= 8 * Len(buffer)
    BY DEF Inv, TypeOK
  <1>6. /\ it.kind = "bits" /\ it.at = bitPosition /\ it.value = value /\ it.amount = amount
        /\ it \in Items
    BY <1>1, <1>3, <1>5 DEF Items
  <1>7. WellFormed(it)
    BY <1>1, <1>5, <1>6 DEF WellFormed
  <1>8. /\ buffer' \in Seq(Bytes) /\ Len(buffer') \in Nat /\ Len(buffer') >= Len(buffer)
        /\ bitPosition + amount <= 8 * Len(buffer')
        /\ Agrees(buffer', buffer, bitPosition)
        /\ \A k \in 0 .. amount - 1 :
             Bit(buffer', bitPosition + k) = (value \div Pow2[amount - 1 - k]) % 2
    <2> DEFINE new == PutBits(buffer, bitPosition, amount, value)
    <2>1. /\ new \in Seq(Bytes) /\ Len(new) >= Len(buffer) /\ bitPosition + amount <= 8 * Len(new)
          /\ \A i \in 1 .. Len(buffer) : 8 * i <= bitPosition => new[i] = buffer[i]
          /\ \A j \in Nat : j < bitPosition => Bit(new, j) = Bit(buffer, j)
          /\ \A k \in 0 .. amount - 1 :
               Bit(new, bitPosition + k) = (value \div Pow2[amount - 1 - k]) % 2
      BY <1>1, <1>5, PutBitsIs, ZenonT(60)
    <2>2. buffer' = new
      BY <1>2
    <2> HIDE DEF new
    <2>3. Len(new) \in Nat /\ Agrees(new, buffer, bitPosition)
      BY <2>1 DEF Agrees
    <2> QED BY <2>1, <2>2, <2>3
  <1>9. TypeOK'
    <2>1. pos' \in 0 .. Len(buffer') /\ bitPosition' \in 0 .. 8 * Len(buffer')
      BY ONLY <1>1, <1>2, <1>5, <1>8
    <2>2. items' \in Seq(Items) /\ Len(items') <= MaxCalls
      BY <1>2, <1>4, <1>6, SizesAssumption DEF Inv, TypeOK
    <2> QED BY <1>2, <1>8, <2>1, <2>2 DEF Inv, TypeOK
  <1>10. Here = bitPosition /\ Here' = bitPosition + amount /\ ~InBytes'
    BY <1>2 DEF Here, InBytes
  <1>11. bitPosition >= 8 * pos /\ (header # "NONE" => pos >= 1 + SizeBytes[header])
    BY <1>2 DEF Inv, Progress
  <1>12. Progress'
    <2>1. bitPosition' >= 8 * pos'
      BY ONLY <1>1, <1>2, <1>5, <1>11
    <2> QED BY <1>2, <1>10, <2>1 DEF Inv, Progress
  <1>13. SizeFieldRight'
    BY <1>2 DEF SizeFieldRight
  <1>14. Begins(it) = bitPosition /\ Until(it) = bitPosition + amount
    BY <1>6 DEF Begins, Until
  <1>15. Clear(it, header')
    <2>1. header \in DOMAIN SizeBytes /\ SizeBytes[header] \in Nat
      BY DEF Inv, TypeOK, SizeBytes
    <2>2. header # "NONE" => bitPosition >= 8 * (1 + SizeBytes[header])
      BY ONLY <1>5, <1>11, <2>1
    <2> QED BY <1>2, <1>14, <2>2 DEF Clear
  <1>16. StoredIn(buffer', it)
    BY <1>6, <1>8 DEF StoredIn
  <1>17. Until(it) <= Here' /\ Here <= Here' /\ Here' \in Nat
    BY ONLY <1>1, <1>5, <1>10, <1>14
  <1>18. AllStored'
    BY <1>2, <1>4, <1>7, <1>8, <1>10, <1>15, <1>16, <1>17, StoredAfterWrite
  <1> QED BY <1>9, <1>12, <1>13, <1>18 DEF Inv

\* Bits that are not remembered as written leave what is.
LEMMA StoredBefore ==
  ASSUME Inv, UNCHANGED <<items, header>>, Here' \in Nat, Here <= Here',
         Agrees(buffer', buffer, Here)
  PROVE  AllStored'
  <1>1. /\ buffer \in Seq(Bytes) /\ Here \in Nat /\ Here <= 8 * Len(buffer) /\ AllStored
    BY HereIs DEF Inv, TypeOK
  <1> SUFFICES ASSUME NEW k \in 1 .. Len(items)
               PROVE  /\ WellFormed(items[k]) /\ Until(items[k]) <= Here' /\ Clear(items[k], header)
                      /\ StoredIn(buffer', items[k])
    BY DEF AllStored, Placed
  <1>2. /\ WellFormed(items[k]) /\ Until(items[k]) <= Here /\ Clear(items[k], header)
        /\ StoredIn(buffer, items[k])
    BY <1>1 DEF AllStored, Placed
  <1>3. Until(items[k]) \in Nat
    BY <1>2, WellPlaced
  <1>4. Until(items[k]) <= Here'
    BY ONLY <1>1, <1>2, <1>3, Here <= Here', Here' \in Nat
  <1>5. StoredIn(buffer', items[k])
    BY <1>1, <1>2, StoredStays
  <1> QED BY <1>2, <1>4, <1>5

\* A change of access, or none: the buffer stays and the next write goes no further back.
LEMMA StoredAfterMove ==
  ASSUME Inv, UNCHANGED <<buffer, items, header>>, Here' \in Nat, Here <= Here'
  PROVE  AllStored'
  <1>1. Agrees(buffer', buffer, Here)
    BY DEF Agrees
  <1> QED BY <1>1, StoredBefore

\* SetAccessType(BIT_ACCESS): the bits go where the next byte would.
LEMMA SetBitAccessStep ==
  ASSUME Inv, SetBitAccess
  PROVE  Inv'
  <1>1. /\ InBytes /\ ~finished /\ access' = "BIT_ACCESS" /\ bitPosition' = pos * 8
        /\ UNCHANGED <<buffer, pos, frame, header, items, finished>>
    BY DEF SetBitAccess
  <1>2. Len(buffer) \in Nat /\ pos \in 0 .. Len(buffer) /\ pos \in Nat
    BY DEF Inv, TypeOK
  <1>3. bitPosition' \in 0 .. 8 * Len(buffer) /\ bitPosition' >= 8 * pos
    BY ONLY <1>1, <1>2
  <1>4. TypeOK'
    BY <1>1, <1>3 DEF Inv, TypeOK
  <1>5. ~InBytes' /\ Here = 8 * pos /\ Here' = pos * 8
    BY <1>1 DEF Here, InBytes
  <1>6. Progress'
    BY <1>1, <1>3, <1>5 DEF Inv, Progress
  <1>7. SizeFieldRight'
    BY <1>1 DEF SizeFieldRight
  <1>8. Here' \in Nat /\ Here <= Here'
    BY ONLY <1>2, <1>5
  <1>9. AllStored'
    BY <1>1, <1>8, StoredAfterMove
  <1> QED BY <1>4, <1>6, <1>7, <1>9 DEF Inv

\* SetAccessType(BYTE_ACCESS): the next byte is the first one no bit has reached.
LEMMA SetByteAccessStep ==
  ASSUME Inv, SetByteAccess
  PROVE  Inv'
  <1>1. /\ ~InBytes /\ access' = "BYTE_ACCESS" /\ pos' = (bitPosition + 7) \div 8
        /\ UNCHANGED <<buffer, bitPosition, frame, header, items, finished>>
    BY DEF SetByteAccess
  <1>2. /\ Len(buffer) \in Nat /\ pos \in 0 .. Len(buffer) /\ pos \in Nat
        /\ bitPosition \in 0 .. 8 * Len(buffer) /\ bitPosition \in Nat
    BY DEF Inv, TypeOK
  <1>3. bitPosition >= 8 * pos /\ ~finished /\ (header # "NONE" => pos >= 1 + SizeBytes[header])
    BY <1>1 DEF Inv, Progress
  <1>4. pos' \in 0 .. Len(buffer) /\ pos' >= pos /\ 8 * pos' >= bitPosition
    BY ONLY <1>1, <1>2, <1>3
  <1>5. TypeOK'
    BY <1>1, <1>4 DEF Inv, TypeOK
  <1>6. InBytes' /\ Here = bitPosition /\ Here' = 8 * pos'
    BY <1>1 DEF Here, InBytes
  <1>7. Progress'
    <2>1. header \in DOMAIN SizeBytes /\ SizeBytes[header] \in Nat
      BY DEF Inv, TypeOK, SizeBytes
    <2>2. header # "NONE" => pos' >= 1 + SizeBytes[header]
      BY ONLY <1>2, <1>3, <1>4, <2>1
    <2> QED BY <1>1, <1>6, <2>2 DEF Inv, Progress
  <1>8. SizeFieldRight'
    BY <1>1, <1>3 DEF SizeFieldRight
  <1>9. Here' \in Nat /\ Here <= Here'
    <2>1. 8 * pos' \in Nat /\ bitPosition <= 8 * pos'
      <3>1. pos' \in Nat
        BY ONLY <1>2, <1>4
      <3>2. 8 * pos' \in Nat
        <4>1. \A x \in Nat : 8 * x \in Nat
          OBVIOUS
        <4> QED BY ONLY <3>1, <4>1, Zenon
      <3> QED BY ONLY <1>2, <1>4, <3>1, <3>2
    <2> QED BY ONLY <1>6, <2>1, Zenon
  <1>10. AllStored'
    BY <1>1, <1>9, StoredAfterMove
  <1> QED BY <1>5, <1>7, <1>8, <1>10 DEF Inv

\* A packet without a size field.
LEMMA SendStep ==
  ASSUME Inv, Send
  PROVE  Inv'
  <1>1. /\ InBytes /\ ~finished /\ frame = 0 /\ finished' = TRUE
        /\ UNCHANGED <<buffer, pos, bitPosition, access, frame, header, items>>
    BY DEF Send
  <1>2. header = "NONE"
    BY <1>1 DEF Inv, Progress
  <1>3. TypeOK'
    BY <1>1 DEF Inv, TypeOK
  <1>4. InBytes' /\ Here' = Here /\ Here \in Nat
    BY <1>1, HereIs DEF Inv, Here, InBytes
  <1>5. Progress'
    BY <1>1, <1>2, <1>4 DEF Inv, Progress
  <1>6. SizeFieldRight'
    BY <1>1, <1>2 DEF SizeFieldRight
  <1>7. Here' \in Nat /\ Here <= Here'
    <2>1. Here <= Here
      BY ONLY <1>4
    <2> QED BY ONLY <1>4, <2>1, Zenon
  <1>8. AllStored'
    BY <1>1, <1>7, StoredAfterMove
  <1> QED BY <1>3, <1>5, <1>6, <1>8 DEF Inv


\* The opcode and a size field of zeros, as the first bytes.
LEMMA WriteHeaderStep ==
  ASSUME Inv, NEW opcode \in Opcodes, NEW size \in DOMAIN SizeBytes, WriteHeader(opcode, size)
  PROVE  Inv'
  <1> DEFINE z == Zeros(SizeBytes[size])
             bytes == <<opcode>> \o z
             n == SizeBytes[size]
  <1>1. opcode \in Bytes /\ opcode \in Int /\ 0 <= opcode /\ opcode <= 255
    BY OpcodesAssumption DEF Bytes
  <1>2. n \in Nat
    BY DEF SizeBytes
  <1>3. /\ pos = 0 /\ InBytes /\ ~finished /\ Len(items) < MaxCalls
        /\ header' = size /\ buffer' = Written(bytes)
        /\ frame' = (IF size = "NONE" THEN frame ELSE 1) /\ pos' = 1 + n
        /\ UNCHANGED <<bitPosition, access, finished>>
    BY DEF WriteHeader, Calls
  <1>4. PICK it : it = [kind |-> "value", at |-> 0, value |-> <<opcode>>, type |-> "STANDARD",
                        order |-> "BIG"]
    OBVIOUS
  <1>5. items' = Append(items, it)
    BY <1>4 DEF WriteHeader, Calls
  <1>6. /\ buffer \in Seq(Bytes) /\ Len(buffer) \in Nat /\ pos \in 0 .. Len(buffer)
        /\ bitPosition \in 0 .. 8 * Len(buffer)
    BY DEF Inv, TypeOK
  <1>7. /\ it.kind = "value" /\ it.at = 0 /\ it.value = <<opcode>>
        /\ it.type = "STANDARD" /\ it.order = "BIG"
    BY <1>4
  <1>8. <<opcode>> \in Seq(Bytes) /\ Len(<<opcode>>) = 1
    BY <1>1
  <1>9. it \in Items
    BY <1>4, <1>8 DEF Items, Types, Orders
  <1>10. IsValue(<<opcode>>, "STANDARD", "BIG")
    BY <1>8 DEF IsValue, Types, Supported
  <1>11. WellFormed(it)
    BY <1>7, <1>10 DEF WellFormed
  <1>12. BytesOf(it) = Laid(<<opcode>>, "STANDARD", "BIG")
    BY <1>7 DEF BytesOf
  <1>13. Len(BytesOf(it)) = 1 /\ BytesOf(it)[1] = opcode
    <2>1. Len(BytesOf(it)) = 1
      BY <1>8, <1>10, <1>12, LaidIs
    <2>2. WriteOrder(1, "BIG") = [k \in 1 .. 1 |-> 1 - k]
      BY DEF WriteOrder
    <2>3. Laid(<<opcode>>, "STANDARD", "BIG")[1] = Coded(opcode, "STANDARD")
      BY <1>8, <2>2 DEF Laid
    <2>4. Coded(opcode, "STANDARD") = opcode % 256
      BY DEF Coded
    <2>5. opcode % 256 = opcode
      BY ONLY <1>1
    <2> QED BY <1>12, <2>1, <2>3, <2>4, <2>5
  <1>14. z \in Seq(Bytes) /\ Len(z) = n
    BY <1>2 DEF Zeros, Bytes
  <1> HIDE DEF z, n
  <1>15. bytes \in Seq(Bytes) /\ Len(bytes) = 1 + n /\ bytes[1] = opcode
    BY <1>8, <1>14, <1>2
  <1> HIDE DEF bytes
  <1>16. WrittenAt(buffer', buffer, pos, bytes)
    BY <1>3, <1>6, <1>15, WrittenIs
  <1>17. Agrees(buffer', buffer, 8 * pos)
    BY <1>6, <1>15, <1>16, WrittenAgrees
  <1>18. /\ buffer' \in Seq(Bytes) /\ Len(buffer') \in Nat /\ Len(buffer') >= Len(buffer)
         /\ 0 + Len(bytes) <= Len(buffer') /\ \A k \in 1 .. Len(bytes) : buffer'[0 + k] = bytes[k]
    BY <1>3, <1>16 DEF WrittenAt
  <1>19. 1 + n <= Len(buffer') /\ buffer'[0 + 1] = opcode
    BY <1>2, <1>15, <1>18
  <1>20. header = "NONE" /\ frame = 0
    <2>1. header # "NONE" => 0 >= 1 + SizeBytes[header]
      BY <1>3 DEF Inv, Progress
    <2>2. header \in DOMAIN SizeBytes /\ SizeBytes[header] \in Nat
      BY DEF Inv, TypeOK, SizeBytes
    <2>3. header = "NONE"
      BY <2>1, <2>2
    <2> QED BY <2>3 DEF Inv, Progress, TypeOK
  <1>21. TypeOK'
    <2>1. pos' \in 0 .. Len(buffer') /\ bitPosition' \in 0 .. 8 * Len(buffer')
      BY ONLY <1>2, <1>3, <1>6, <1>18, <1>19
    <2>2. items' \in Seq(Items) /\ Len(items') <= MaxCalls
      BY <1>3, <1>5, <1>9, SizesAssumption DEF Inv, TypeOK
    <2>3. frame' \in 0 .. 1
      BY <1>3, <1>20
    <2> QED BY <1>3, <1>18, <2>1, <2>2, <2>3 DEF Inv, TypeOK
  <1>22. InBytes' /\ Here = 8 * 0 /\ Here' = 8 * (1 + n)
    BY <1>3 DEF InBytes, Here
  <1>23. Progress'
    <2>1. header' # "NONE" => pos' >= 1 + SizeBytes[header']
      BY <1>2, <1>3 DEF n
    <2>2. frame' = 1 <=> header' # "NONE"
      BY <1>3, <1>20
    <2> QED BY <1>3, <1>22, <2>1, <2>2 DEF Progress
  <1>24. SizeFieldRight'
    BY <1>3 DEF SizeFieldRight
  <1>25. Until(it) = 8 * (0 + 1)
    BY <1>7, <1>13 DEF Until
  <1>26. Until(it) <= 8 /\ Until(it) <= Here' /\ Here <= Here' /\ Here' \in Nat /\ Here <= 8
    BY ONLY <1>2, <1>22, <1>25
  <1>27. Clear(it, header')
    BY <1>26 DEF Clear
  <1>28. StoredIn(buffer', it)
    <2>1. \A k \in 1 .. 1 : k = 1
      OBVIOUS
    <2>2. \A k \in 1 .. 1 : buffer'[0 + k] = BytesOf(it)[k]
      BY <1>13, <1>19, <2>1
    <2> QED BY <1>7, <1>13, <2>2 DEF StoredIn
  <1>29. AllStored'
    BY <1>3, <1>5, <1>11, <1>17, <1>22, <1>26, <1>27, <1>28, StoredAfterWrite
  <1> QED BY <1>21, <1>23, <1>24, <1>29 DEF Inv


\* The size field is none of what has been written.
LEMMA StoredBesideField ==
  ASSUME NEW it, WellFormed(it), NEW old \in Seq(Bytes), NEW new, NEW n \in Nat,
         Until(it) <= 8 * Len(old), StoredIn(old, it),
         Until(it) <= 8 \/ Begins(it) >= 8 * (1 + n),
         \A i \in 1 .. Len(old) : i <= 1 \/ i > 1 + n => new[i] = old[i]
  PROVE  StoredIn(new, it)
  <1>1. it.at \in Nat /\ Len(old) \in Nat
    BY WellPlaced
  <1>2. CASE it.kind = "bits"
    <2> DEFINE at == it.at
               m == it.amount
    <2>1. Begins(it) = at /\ Until(it) = at + m
      BY <1>2 DEF Begins, Until
    <2>2. at \in Nat /\ m \in 1 .. MaxWidth
      BY <1>1, <1>2, WellPlaced
    <2>3. at + m <= 8 * Len(old) /\ (at + m <= 8 \/ at >= 8 * (1 + n))
      BY <2>1, Zenon
    <2>4. StoredIn(new, it) <=> \A k \in 0 .. m - 1 :
                                  Bit(new, at + k) = (it.value \div Pow2[m - 1 - k]) % 2
      BY <1>2 DEF StoredIn
    <2>5. \A k \in 0 .. m - 1 : Bit(old, at + k) = (it.value \div Pow2[m - 1 - k]) % 2
      BY <1>2 DEF StoredIn
    <2> HIDE DEF at, m
    <2>6. m \in Nat
      BY <2>2 DEF MaxWidth
    <2>7. ASSUME NEW k \in 0 .. m - 1 PROVE Bit(new, at + k) = Bit(old, at + k)
      <3> DEFINE j == at + k
                 i == (j \div 8) + 1
      <3>1. j \in Nat /\ j < 8 * Len(old) /\ (j < 8 \/ j >= 8 * (1 + n))
        BY ONLY <1>1, <2>2, <2>3, <2>6, n \in Nat, k \in 0 .. m - 1
      <3>2. i \in 1 .. Len(old) /\ (i <= 1 \/ i > 1 + n)
        <4> HIDE DEF j
        <4> QED BY ONLY <1>1, <3>1, n \in Nat DEF i
      <3>3. new[i] = old[i]
        <4> HIDE DEF i
        <4> QED BY <3>2
      <3> QED BY <3>3, Zenon DEF Bit
    <2> QED BY <2>4, <2>5, <2>7
  <1>3. CASE it.kind # "bits"
    <2> DEFINE at == it.at
               m == Len(BytesOf(it))
    <2>1. Begins(it) = 8 * at /\ Until(it) = 8 * (at + m)
      BY <1>3 DEF Begins, Until
    <2>2. at \in Nat /\ m \in Nat
      <3>1. BytesOf(it) \in Seq(Bytes)
        BY <1>3, WellPlaced
      <3> QED BY <1>1, <3>1
    <2>3. 8 * (at + m) <= 8 * Len(old) /\ (8 * (at + m) <= 8 \/ 8 * at >= 8 * (1 + n))
      BY <2>1, Zenon
    <2>4. StoredIn(new, it) <=> \A k \in 1 .. m : new[at + k] = BytesOf(it)[k]
      BY <1>3 DEF StoredIn
    <2>5. \A k \in 1 .. m : old[at + k] = BytesOf(it)[k]
      BY <1>3 DEF StoredIn
    <2> HIDE DEF at, m
    <2>6. \A k \in 1 .. m : at + k \in 1 .. Len(old) /\ (at + k <= 1 \/ at + k > 1 + n)
      BY ONLY <1>1, <2>2, <2>3, n \in Nat
    <2>7. \A k \in 1 .. m : new[at + k] = old[at + k]
      BY <2>6
    <2> QED BY <2>4, <2>5, <2>7
  <1> QED BY <1>2, <1>3

\* The one or two bytes of a size.
LEMMA SizeSplit ==
  ASSUME NEW p \in Nat
  PROVE  /\ (p \div 1) % 256 = p % 256
         /\ 256 * ((p \div 256) % 256) + ((p \div 1) % 256) = p % Pow2[16]
  <1>1. p \div 1 = p
    OBVIOUS
  <1> DEFINE q == p \div 256
             r == p % 256
             t == q \div 256
             m == q % 256
  <1>2. q \in Nat /\ r \in Nat /\ r < 256 /\ p = 256 * q + r
    OBVIOUS
  <1>3. t \in Int /\ m \in Nat /\ m < 256 /\ q = 256 * t + m
    BY <1>2
  <1> HIDE DEF q, r, t, m
  <1>4. 256 * m + r \in Nat /\ 256 * m + r < 65536 /\ p = 65536 * t + (256 * m + r)
    BY <1>2, <1>3
  <1>5. p % 65536 = 256 * m + r
    BY <1>3, <1>4, DivUnique
  <1>6. p % Pow2[16] = 256 * m + r
    BY <1>5, Pow2Byte
  <1> QED BY <1>1, <1>6 DEF m, q, r

\* FinishVariableHeader changes nothing but the size field.
LEMMA FieldFilled ==
  ASSUME Inv, FinishVariableHeader
  PROVE  Len(buffer') = Len(buffer) /\ \A i \in 4 .. Len(buffer) : buffer'[i] = buffer[i]
  <1> DEFINE n == SizeBytes[header]
  <1>1. frame = 1
    BY DEF FinishVariableHeader, Inv, TypeOK
  <1>2. n \in 1 .. 2 /\ pos \in Nat /\ Len(buffer) \in Nat
    BY <1>1 DEF Inv, Progress, TypeOK, SizeBytes
  <1>3. PICK f : f = [i \in 1 .. n |-> (Payload \div Pow2[8 * (n - i)]) % 256]
    OBVIOUS
  <1>4. buffer' = [i \in 1 .. Len(buffer) |->
                     IF i \in (pos - Payload - n) + 1 .. (pos - Payload - n) + n
                     THEN f[i - (pos - Payload - n)] ELSE buffer[i]]
    BY <1>3 DEF FinishVariableHeader
  <1>5. Payload = pos - 1 - n
    BY <1>1 DEF Payload
  <1> HIDE DEF n
  <1>6. pos - Payload - n = 1
    BY ONLY <1>2, <1>5
  <1>7. buffer' = [i \in 1 .. Len(buffer) |-> IF i \in 1 + 1 .. 1 + n THEN f[i - 1] ELSE buffer[i]]
    BY ONLY <1>4, <1>6, Zenon
  <1> QED BY ONLY <1>2, <1>7

\* FinishVariableHeader writes the size where the zeros are.
LEMMA FinishStep ==
  ASSUME Inv, FinishVariableHeader
  PROVE  Inv'
  <1> DEFINE n == SizeBytes[header]
             p == pos - 1 - n
             F(i) == (p \div Pow2[8 * (n - i)]) % 256
  <1>1. /\ InBytes /\ ~finished /\ frame = 1 /\ frame' = 0 /\ finished' = TRUE
        /\ UNCHANGED <<pos, bitPosition, access, header, items>>
    BY DEF FinishVariableHeader, Inv, TypeOK
  <1>2. header # "NONE" /\ pos >= 1 + n
    BY <1>1 DEF Inv, Progress
  <1>3. (header = "BYTE" /\ n = 1) \/ (header = "SHORT" /\ n = 2)
    BY <1>2 DEF Inv, TypeOK, SizeBytes
  <1>4. n \in 1 .. 2 /\ n \in Nat
    BY <1>3
  <1>5. /\ buffer \in Seq(Bytes) /\ Len(buffer) \in Nat /\ pos \in Nat /\ pos <= Len(buffer)
    BY DEF Inv, TypeOK
  <1>6. Payload = pos - 1 - n
    BY <1>1 DEF Payload
  <1>7. PICK f : f = [i \in 1 .. n |-> F(i)]
    OBVIOUS
  <1>8. buffer' = [i \in 1 .. Len(buffer) |->
                     IF i \in (pos - p - n) + 1 .. (pos - p - n) + n
                     THEN f[i - (pos - p - n)] ELSE buffer[i]]
    BY <1>6, <1>7 DEF FinishVariableHeader
  <1>9. pos - p - n = 1 /\ p \in Nat
    <2> HIDE DEF n
    <2> QED BY ONLY <1>2, <1>4, <1>5 DEF p
  <1> HIDE DEF p, n
  <1>10. buffer' = [i \in 1 .. Len(buffer) |->
                      IF i \in 1 + 1 .. 1 + n THEN f[i - 1] ELSE buffer[i]]
    BY ONLY <1>8, <1>9, Zenon
  <1>11. \A i \in 1 .. n : F(i) \in Bytes
    <2> TAKE i \in 1 .. n
    <2>1. 8 * (n - i) \in 0 .. MaxWidth
      BY <1>4 DEF MaxWidth
    <2>2. Pow2[8 * (n - i)] \in Nat /\ Pow2[8 * (n - i)] > 0
      BY <2>1, Pow2Nat
    <2>3. p \div Pow2[8 * (n - i)] \in Int
      BY <1>9, <2>2, DivMod
    <2> DEFINE d == p \div Pow2[8 * (n - i)]
    <2> HIDE DEF d
    <2>4. d \in Int => d % 256 \in Bytes
      BY DEF Bytes
    <2> QED BY <2>3, <2>4 DEF d
  <1> HIDE DEF F
  <1>12. f \in Seq(Bytes) /\ Len(f) = n /\ \A i \in 1 .. n : f[i] = F(i)
    BY ONLY <1>4, <1>7, <1>11
  <1>13. /\ buffer' \in Seq(Bytes) /\ Len(buffer') = Len(buffer)
         /\ \A i \in 1 .. 1 : buffer'[i] = buffer[i]
         /\ \A k \in 1 .. n : buffer'[1 + k] = f[k]
    <2>1. 1 + Len(f) <= Len(buffer)
      BY <1>2, <1>4, <1>5, <1>12
    <2>2. buffer' = [i \in 1 .. Len(buffer) |->
                      IF i \in 1 + 1 .. 1 + Len(f) THEN f[i - 1] ELSE buffer[i]]
      BY ONLY <1>10, <1>12, Zenon
    <2>3. /\ buffer' \in Seq(Bytes) /\ Len(buffer') = Len(buffer)
          /\ \A i \in 1 .. 1 : buffer'[i] = buffer[i]
          /\ \A k \in 1 .. Len(f) : buffer'[1 + k] = f[k]
      BY <1>5, <1>12, <2>1, <2>2, Overlaid
    <2> QED BY <1>12, <2>3
  <1>14. \A i \in 1 .. Len(buffer) : i <= 1 \/ i > 1 + n => buffer'[i] = buffer[i]
    BY <1>4, <1>5, <1>10
  <1>15. TypeOK'
    BY <1>1, <1>13 DEF Inv, TypeOK
  <1>16. InBytes' /\ Here' = Here /\ Here \in Nat /\ Here <= 8 * Len(buffer)
    BY <1>1, HereIs DEF Inv, Here, InBytes
  <1>17. Progress'
    BY <1>1, <1>2, <1>16 DEF Inv, Progress, n
  <1>18. SizeFieldRight'
    <2>1. pos - n - 1 = p
      BY <1>4, <1>5 DEF p
    <2>2. CASE n = 1
      <3>1. buffer'[1 + 1] = (p \div Pow2[8 * (1 - 1)]) % 256
        BY <1>12, <1>13, <2>2 DEF F
      <3>2. 8 * (1 - 1) = 0 /\ 1 + 1 = 2 /\ 8 * 1 = 8
        OBVIOUS
      <3>3. buffer'[2] = (p \div 1) % 256
        BY ONLY <3>1, <3>2, Pow2Is, ZenonT(60)
      <3>4. buffer'[2] = p % Pow2[8 * 1]
        BY <1>9, <3>2, <3>3, Pow2Byte, SizeSplit
      <3>5. buffer'[2] = (pos - n - 1) % Pow2[8 * n]
        BY ONLY <2>1, <2>2, <3>4, Zenon
      <3> QED BY <1>1, <2>2, <3>5 DEF SizeFieldRight, n
    <2>3. CASE n = 2
      <3>1. /\ buffer'[1 + 1] = (p \div Pow2[8 * (2 - 1)]) % 256
            /\ buffer'[1 + 2] = (p \div Pow2[8 * (2 - 2)]) % 256
        BY <1>12, <1>13, <2>3 DEF F
      <3>2. 8 * (2 - 1) = 8 /\ 8 * (2 - 2) = 0 /\ 1 + 1 = 2 /\ 1 + 2 = 3 /\ 8 * 2 = 16
        OBVIOUS
      <3>3. buffer'[2] = (p \div 256) % 256 /\ buffer'[3] = (p \div 1) % 256
        <4>1. buffer'[2] = (p \div Pow2[8]) % 256 /\ buffer'[3] = (p \div Pow2[0]) % 256
          BY ONLY <3>1, <3>2, Zenon
        <4>2. Pow2[8] = 256 /\ Pow2[0] = 1
          BY Pow2Is, Pow2Byte
        <4> QED BY ONLY <4>1, <4>2, ZenonT(60)
      <3>4. 256 * buffer'[2] + buffer'[3] = p % Pow2[8 * 2]
        <4>1. 256 * ((p \div 256) % 256) + ((p \div 1) % 256) = p % Pow2[16]
          BY <1>9, SizeSplit
        <4>2. 256 * buffer'[2] + buffer'[3] = p % Pow2[16]
          BY ONLY <3>3, <4>1
        <4> QED BY ONLY <3>2, <4>2
      <3>5. 256 * buffer'[2] + buffer'[3] = (pos - n - 1) % Pow2[8 * n]
        BY ONLY <2>1, <2>3, <3>4, Zenon
      <3>6. n # 1
        BY <2>3
      <3> QED BY ONLY <1>1, <3>5, <3>6, Zenon DEF SizeFieldRight, n
    <2> QED BY <1>3, <2>2, <2>3
  <1>19. AllStored'
    <2> SUFFICES ASSUME NEW k \in 1 .. Len(items)
                 PROVE  /\ WellFormed(items[k]) /\ Until(items[k]) <= Here
                        /\ Clear(items[k], header) /\ StoredIn(buffer', items[k])
      BY <1>1, <1>16 DEF AllStored, Placed
    <2>1. /\ WellFormed(items[k]) /\ Until(items[k]) <= Here /\ Clear(items[k], header)
          /\ StoredIn(buffer, items[k])
      BY DEF Inv, AllStored, Placed
    <2>2. Until(items[k]) \in Nat
      BY <2>1, WellPlaced
    <2>3. Until(items[k]) <= 8 * Len(buffer)
      BY ONLY <1>5, <1>16, <2>1, <2>2
    <2>4. Until(items[k]) <= 8 \/ Begins(items[k]) >= 8 * (1 + n)
      BY <1>2, <2>1 DEF Clear, n
    <2>5. StoredIn(buffer', items[k])
      BY <1>4, <1>5, <1>14, <2>1, <2>3, <2>4, StoredBesideField
    <2> QED BY <2>1, <2>5
  <1> QED BY <1>15, <1>17, <1>18, <1>19 DEF Inv


\* Every step keeps the invariant.
LEMMA StepInv == Inv /\ [Next]_vars => Inv'
  <1> SUFFICES ASSUME Inv, [Next]_vars PROVE Inv'
    OBVIOUS
  <1>1. ASSUME NEW w \in Writes, WriteValue(w[1], w[2], w[3]) PROVE Inv'
    BY <1>1, WriteValueStep
  <1>2. ASSUME NEW v \in Longs, WriteLongShortened(v) PROVE Inv'
    BY <1>2, WriteLongStep
  <1>3. ASSUME NEW opcode \in Opcodes, NEW size \in DOMAIN SizeBytes, WriteHeader(opcode, size)
        PROVE  Inv'
    BY <1>3, WriteHeaderStep
  <1>4. ASSUME NEW s \in Strings, WriteString(s) PROVE Inv'
    BY <1>4, WriteStringStep
  <1>5. ASSUME NEW s \in Strings, WriteBytes(s) PROVE Inv'
    <2>1. s \in Seq(Bytes)
      BY StringsAssumption
    <2> QED BY <1>5, <2>1, WriteBytesStep
  <1>6. ASSUME NEW w \in BitWrites, WriteBits(w[1], w[2]) PROVE Inv'
    <2>1. w[1] \in 1 .. MaxWidth /\ w[2] \in Int
      BY BitWritesAssumption
    <2> QED BY <1>6, <2>1, WriteBitsStep
  <1>7. CASE SetBitAccess
    BY <1>7, SetBitAccessStep
  <1>8. CASE SetByteAccess
    BY <1>8, SetByteAccessStep
  <1>9. CASE FinishVariableHeader
    BY <1>9, FinishStep
  <1>10. CASE Send
    BY <1>10, SendStep
  <1>11. CASE UNCHANGED vars
    <2>1. UNCHANGED <<buffer, pos, bitPosition, access, frame, header, items, finished>>
      BY <1>11 DEF vars
    <2>2. TypeOK'
      BY <2>1 DEF Inv, TypeOK
    <2>3. Progress' /\ SizeFieldRight' /\ Here' = Here
      BY <2>1 DEF Inv, Progress, InBytes, SizeFieldRight, Here
    <2>4. AllStored'
      BY <2>1, <2>3 DEF Inv, AllStored, Placed
    <2> QED BY <2>2, <2>3, <2>4 DEF Inv
  <1> QED BY <1>1, <1>2, <1>3, <1>4, <1>5, <1>6, <1>7, <1>8, <1>9, <1>10, <1>11 DEF Next

----------------------------------------------------------------------------
(* What is stored can be read *)

\* A long in the standard order is its bytes.
LEMMA LongLaid ==
  ASSUME NEW v \in Seq(Bytes), Len(v) = 8
  PROVE  /\ IsValue(v, "STANDARD", "BIG")
         /\ \A k \in 1 .. 8 : Laid(v, "STANDARD", "BIG")[k] = v[k]
  <1>1. IsValue(v, "STANDARD", "BIG")
    BY DEF IsValue, Types, Supported
  <1> DEFINE o == WriteOrder(8, "BIG")
  <1>2. o = [k \in 1 .. 8 |-> 8 - k]
    BY DEF WriteOrder
  <1>3. Laid(v, "STANDARD", "BIG")
          = [k \in 1 .. 8 |-> Coded(v[8 - o[k]], IF o[k] = 0 THEN "STANDARD" ELSE "STANDARD")]
    BY DEF Laid
  <1> HIDE DEF o
  <1>4. ASSUME NEW k \in 1 .. 8 PROVE Laid(v, "STANDARD", "BIG")[k] = v[k]
    <2>1. o[k] = 8 - k
      BY <1>2
    <2>2. 8 - o[k] = k
      BY <2>1
    <2>3. Laid(v, "STANDARD", "BIG")[k] = Coded(v[k], "STANDARD")
      BY <1>3, <2>2
    <2>4. v[k] \in Bytes
      <3>1. k \in 1 .. Len(v)
        OBVIOUS
      <3> QED BY <3>1, ElementOfSeq
    <2>5. \A b \in Bytes : b % 256 = b
      BY DEF Bytes
    <2>6. Coded(v[k], "STANDARD") = v[k] % 256
      BY DEF Coded
    <2> QED BY <2>3, <2>4, <2>5, <2>6
  <1> QED BY <1>1, <1>4

\* It is read as it is.
LEMMA ReadLong ==
  ASSUME NEW v \in Seq(Bytes), Len(v) = 8, NEW at \in Nat,
         \A l \in 1 .. 8 : buffer[at + l] = v[l]
  PROVE  ReadValue(at, 8, "STANDARD", "BIG") = v
  <1>1. PICK type, order : type = "STANDARD" /\ order = "BIG"
    OBVIOUS
  <1>2. IsValue(v, type, order) /\ \A k \in 1 .. 8 : Laid(v, type, order)[k] = v[k]
    BY <1>1, LongLaid
  <1>3. \A k \in 1 .. Len(v) : buffer[at + k] = Laid(v, type, order)[k]
    BY <1>2
  <1>4. ReadValue(at, Len(v), type, order) = v
    BY ONLY <1>2, <1>3, ReadLaid, at \in Nat, ZenonT(60)
  <1> QED BY ONLY <1>1, <1>4, Len(v) = 8, Zenon

\* Bytes in their place.
LEMMA SubSeqIs ==
  ASSUME NEW old \in Seq(Bytes), NEW s \in Seq(Bytes), NEW at \in Nat,
         at + Len(s) <= Len(old), \A k \in 1 .. Len(s) : old[at + k] = s[k]
  PROVE  SubSeq(old, at + 1, at + Len(s)) = s
  <1> DEFINE n == Len(s)
             t == SubSeq(old, at + 1, at + n)
  <1>1. n \in Nat /\ Len(old) \in Nat
    OBVIOUS
  <1>2. at + 1 \in 1 .. Len(old) + 1 /\ at + n \in at .. Len(old)
    BY <1>1
  <1>3. t \in Seq(Bytes) /\ Len(t) = n /\ \A k \in 1 .. n : t[k] = old[at + k]
    BY <1>1, <1>2
  <1> HIDE DEF t
  <1>4. t = [k \in 1 .. n |-> t[k]]
    BY <1>3
  <1>5. s = [k \in 1 .. n |-> s[k]]
    OBVIOUS
  <1>6. \A k \in 1 .. n : t[k] = s[k]
    BY <1>3
  <1>7. t = s
    BY ONLY <1>4, <1>5, <1>6
  <1> QED BY <1>7 DEF t

\* Whatever is in its place can be read.
LEMMA InvReadBack == Inv => ReadBack
  <1> SUFFICES ASSUME Inv, NEW k \in 1 .. Len(items)
               PROVE  LET it == items[k]
                      IN  CASE it.kind = "value" ->
                                 ReadValue(it.at, Len(it.value), it.type, it.order) = it.value
                            [] it.kind = "long" ->
                                 Fits(it.value) => ReadValue(it.at, 8, "STANDARD", "BIG") = it.value
                            [] it.kind = "string" -> ReadString(it.at) = it.value
                            [] it.kind = "bytes" ->
                                 SubSeq(buffer, it.at + 1, it.at + Len(it.value)) = it.value
                            [] it.kind = "bits" ->
                                 ReadBits(buffer, it.at, it.amount) = it.value % Pow2[it.amount]
    BY DEF ReadBack
  <1>1. PICK it : it = items[k]
    OBVIOUS
  <1>2. WellFormed(it) /\ Until(it) <= Here /\ StoredIn(buffer, it)
    BY <1>1 DEF Inv, AllStored, Placed
  <1>3. /\ buffer \in Seq(Bytes) /\ Len(buffer) \in Nat /\ Here \in Nat /\ Here <= 8 * Len(buffer)
    BY HereIs DEF Inv, TypeOK
  <1>4. it.at \in Nat /\ Until(it) \in Nat
    BY <1>2, WellPlaced
  <1>5. Until(it) <= 8 * Len(buffer)
    BY ONLY <1>2, <1>3, <1>4
  <1>6. ASSUME it.kind # "bits"
        PROVE  /\ \A l \in 1 .. Len(BytesOf(it)) : buffer[it.at + l] = BytesOf(it)[l]
               /\ it.at + Len(BytesOf(it)) <= Len(buffer) /\ Len(BytesOf(it)) \in Nat
    <2>1. Len(BytesOf(it)) \in Nat
      <3>1. BytesOf(it) \in Seq(Bytes)
        BY <1>2, <1>6, WellPlaced
      <3> QED BY <3>1
    <2>2. Until(it) = 8 * (it.at + Len(BytesOf(it)))
      BY <1>6 DEF Until
    <2>3. it.at + Len(BytesOf(it)) <= Len(buffer)
      BY ONLY <1>3, <1>4, <1>5, <2>1, <2>2
    <2> QED BY <1>2, <1>6, <2>1, <2>3 DEF StoredIn
  <1>7. ASSUME it.kind = "value" PROVE ReadValue(it.at, Len(it.value), it.type, it.order) = it.value
    <2>1. IsValue(it.value, it.type, it.order)
      BY <1>2, <1>7 DEF WellFormed
    <2>2. BytesOf(it) = Laid(it.value, it.type, it.order)
      BY <1>7 DEF BytesOf
    <2>3. Len(BytesOf(it)) = Len(it.value)
      BY <2>1, <2>2, LaidIs
    <2>4. it.kind # "bits"
      BY <1>7
    <2>5. \A l \in 1 .. Len(it.value) : buffer[it.at + l] = Laid(it.value, it.type, it.order)[l]
      BY ONLY <1>6, <2>2, <2>3, <2>4, Zenon
    <2> QED BY <1>4, <2>1, <2>5, ReadLaid
  <1>8. ASSUME it.kind = "long", Fits(it.value)
        PROVE  ReadValue(it.at, 8, "STANDARD", "BIG") = it.value
    <2>1. it.value \in Seq(Bytes) /\ Len(it.value) = 8
      BY <1>2, <1>8 DEF WellFormed
    <2>2. BytesOf(it) = it.value
      BY <1>8 DEF BytesOf, Fits
    <2>3. it.kind # "bits"
      BY <1>8
    <2>4. \A l \in 1 .. 8 : buffer[it.at + l] = it.value[l]
      BY ONLY <1>6, <2>1, <2>2, <2>3, Zenon
    <2> QED BY <1>4, <2>1, <2>4, ReadLong
  <1>9. ASSUME it.kind = "string" PROVE ReadString(it.at) = it.value
    <2> DEFINE s == it.value
               at == it.at
    <2>1. s \in Seq(Bytes \ {Newline})
      BY <1>2, <1>9 DEF WellFormed
    <2>2. BytesOf(it) = Append(s, Newline)
      BY <1>9 DEF BytesOf
    <2>3. it.kind # "bits"
      BY <1>9
    <2>4. /\ \A l \in 1 .. Len(Append(s, Newline)) : buffer[at + l] = Append(s, Newline)[l]
          /\ at + Len(Append(s, Newline)) <= Len(buffer) /\ at \in Nat
      BY ONLY <1>4, <1>6, <2>2, <2>3, Zenon
    <2> HIDE DEF s, at
    <2>5. /\ Len(s) \in Nat /\ Len(Append(s, Newline)) = Len(s) + 1
          /\ \A l \in 1 .. Len(s) : Append(s, Newline)[l] = s[l]
          /\ Append(s, Newline)[Len(s) + 1] = Newline
      BY <2>1
    <2>6. at + Len(s) + 1 <= Len(buffer) /\ at + (Len(s) + 1) = at + Len(s) + 1
      BY <1>3, <2>4, <2>5
    <2>7. \A l \in 1 .. Len(s) : buffer[at + l] = s[l]
      BY <2>4, <2>5
    <2>8. buffer[at + (Len(s) + 1)] = Newline
      BY <2>4, <2>5
    <2>9. buffer[at + Len(s) + 1] = Newline
      BY ONLY <2>6, <2>8, Zenon
    <2>10. ReadString(at) = s
      BY <1>3, <2>1, <2>4, <2>6, <2>7, <2>9, ReadStringIs
    <2> QED BY <2>10 DEF s, at
  <1>10. ASSUME it.kind = "bytes"
         PROVE  SubSeq(buffer, it.at + 1, it.at + Len(it.value)) = it.value
    <2>1. it.value \in Seq(Bytes)
      BY <1>2, <1>10 DEF WellFormed
    <2>2. BytesOf(it) = it.value
      BY <1>10 DEF BytesOf
    <2>3. it.kind # "bits"
      BY <1>10
    <2>4. /\ \A l \in 1 .. Len(it.value) : buffer[it.at + l] = it.value[l]
          /\ it.at + Len(it.value) <= Len(buffer)
      BY ONLY <1>6, <2>2, <2>3, Zenon
    <2> QED BY <1>3, <1>4, <2>1, <2>4, SubSeqIs
  <1>11. ASSUME it.kind = "bits" PROVE ReadBits(buffer, it.at, it.amount) = it.value % Pow2[it.amount]
    <2>1. it.amount \in 1 .. MaxWidth /\ it.value \in Int
      BY <1>2, <1>11, WellPlaced
    <2>2. \A l \in 0 .. it.amount - 1 :
            Bit(buffer, it.at + l) = (it.value \div Pow2[it.amount - 1 - l]) % 2
      BY <1>2, <1>11 DEF StoredIn
    <2> QED BY <1>4, <2>1, <2>2, ReadBitsIs
  <1>12. \/ it.kind = "value" \/ it.kind = "long" \/ it.kind = "string"
         \/ it.kind = "bytes" \/ it.kind = "bits"
    BY <1>2 DEF WellFormed
  <1> QED BY <1>1, <1>7, <1>8, <1>9, <1>10, <1>11, <1>12

----------------------------------------------------------------------------
(* The theorems *)

\* The inductive invariant holds of every buffer, however it is written to.
THEOREM Invariance == Spec => []Inv
  <1> QED BY InitInv, StepInv, PTL DEF Spec

\* Every index and copy of the writes is inside the buffer: m_Pos and m_BitPosition
\* never pass its end, whatever its initial size.
THEOREM TypeCorrect == Spec => []TypeOK
  <1>1. Inv => TypeOK
    BY DEF Inv
  <1> QED BY <1>1, Invariance, PTL

\* Everything written can be read back where it was written, whatever follows it:
\* values of all byte orders and types, strings, other buffers and bits of any width.
THEOREM AllReadBack == Spec => []ReadBack
  <1> QED BY InvReadBack, Invariance, PTL

\* FinishVariableHeader leaves the size of what follows the field in it, modulo its width.
THEOREM SizeFieldsRight == Spec => []SizeFieldRight
  <1>1. Inv => SizeFieldRight
    BY DEF Inv
  <1> QED BY <1>1, Invariance, PTL
=============================================================================
