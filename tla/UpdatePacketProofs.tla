------------------------- MODULE UpdatePacketProofs -------------------------
(***************************************************************************)
(* Proofs about UpdatePacket and PlayerName: any number of players in an   *)
(* update, any directions, places, slots and names, any initial size of    *)
(* the buffer; and any other packet.                                       *)
(***************************************************************************)
EXTENDS UpdatePacket, StreamBufferProofs

----------------------------------------------------------------------------
(* Recursion *)

\* Induction up to a bound.
LEMMA InductionUpTo ==
  ASSUME NEW n \in Nat, NEW S, 0 \in S, \A k \in 0 .. n - 1 : k \in S => k + 1 \in S
  PROVE  \A k \in 0 .. n : k \in S
  <1> DEFINE T == {k \in Nat : k <= n => k \in S}
  <1>1. 0 \in T
    OBVIOUS
  <1>2. ASSUME NEW k \in Nat, k \in T PROVE k + 1 \in T
    <2> SUFFICES ASSUME k + 1 <= n PROVE k + 1 \in S
      OBVIOUS
    <2>1. k \in 0 .. n - 1 /\ k \in S
      BY <1>2
    <2> QED BY <2>1
  <1>3. Nat \subseteq T
    <2> HIDE DEF T
    <2> QED BY <1>1, <1>2, InductionOverNat
  <1> QED BY <1>3

\* A function on one number more.
LEMMA Longer ==
  ASSUME NEW m \in Nat, NEW f, NEW v
  PROVE  LET g == [k \in 0 .. m + 1 |-> IF k = m + 1 THEN v ELSE f[k]]
         IN  /\ g[m + 1] = v /\ g[m + 1 - 1] = f[m]
             /\ \A k \in 0 .. m : g[k] = f[k] /\ (k # 0 => g[k - 1] = f[k - 1])
  OBVIOUS

----------------------------------------------------------------------------
(* Bits *)

\* The same bits read as the same number.
LEMMA ReadSame ==
  ASSUME NEW new, NEW old, NEW at \in Nat, NEW amount \in Nat,
         \A j \in Nat : at <= j /\ j < at + amount => Bit(new, j) = Bit(old, j)
  PROVE  ReadBits(new, at, amount) = ReadBits(old, at, amount)
  <1> DEFINE f == CHOOSE f : NumbersBy(f, new, at, amount)
             g == CHOOSE g : NumbersBy(g, old, at, amount)
             S == {k \in Nat : f[k] = g[k]}
  <1>1. NumbersBy(f, new, at, amount) /\ NumbersBy(g, old, at, amount)
    BY NumbersExist
  <1>2. ReadBits(new, at, amount) = f[amount] /\ ReadBits(old, at, amount) = g[amount]
    BY DEF ReadBits, NumbersBy
  <1> HIDE DEF f, g
  <1>3. 0 \in S
    BY <1>1 DEF NumbersBy
  <1>4. ASSUME NEW k \in 0 .. amount - 1, k \in S PROVE k + 1 \in S
    <2>1. k + 1 \in 0 .. amount /\ k + 1 # 0 /\ (k + 1) - 1 = k /\ at + (k + 1) - 1 = at + k
      OBVIOUS
    <2>2. /\ f[k + 1] = 2 * f[k] + Bit(new, at + k)
          /\ g[k + 1] = 2 * g[k] + Bit(old, at + k)
      BY <1>1, <2>1 DEF NumbersBy
    <2>3. Bit(new, at + k) = Bit(old, at + k)
      OBVIOUS
    <2> QED BY <1>4, <2>2, <2>3
  <1>5. \A k \in 0 .. amount : k \in S
    <2> HIDE DEF S
    <2> QED BY <1>3, <1>4, InductionUpTo
  <1> QED BY <1>2, <1>5

\* Bytes that have the same bits in a range.
SameBits(new, old, from, to) ==
  \A j \in Nat : from <= j /\ j < to => Bit(new, j) = Bit(old, j)

\* The cases of ReadMovement, by the first bits.
LEMMA MovementIs ==
  ASSUME NEW packet, NEW at, NEW self \in BOOLEAN
  PROVE  LET bits(from, amount) == ReadBits(packet, at + from, amount)
             kind == bits(1, 2)
             read == ReadMovement(packet, at, self)
         IN  /\ bits(0, 1) = 0 => read = Part(Nothing, FALSE, at + 1)
             /\ bits(0, 1) = 1 /\ kind = 0 => read = Part(Movement(<<>>), TRUE, at + 3)
             /\ bits(0, 1) = 1 /\ kind = 1 =>
                  read = Part(Movement(<<bits(3, 3)>>), bits(6, 1) = 1, at + 7)
             /\ bits(0, 1) = 1 /\ kind = 2 =>
                  read = Part(Movement(<<bits(3, 3), bits(6, 3)>>), bits(9, 1) = 1, at + 10)
             /\ bits(0, 1) = 1 /\ kind = 3 /\ self = TRUE =>
                  read = Part(Placement(bits(14, 7), bits(7, 7), bits(5, 1) = 1),
                              bits(6, 1) = 1, at + 21)
             /\ bits(0, 1) # 0 /\ ~(bits(0, 1) = 1 /\ (kind \in 0 .. 2 \/ (kind = 3 /\ self = TRUE))) =>
                  read = Part(Removal, FALSE, at + 3)
  <1> DEFINE bits(from, amount) == ReadBits(packet, at + from, amount)
             kind == bits(1, 2)
             read == ReadMovement(packet, at, self)
  <1>1. 0 # 1 /\ 0 # 2 /\ 0 # 3 /\ 1 # 2 /\ 1 # 3 /\ 2 # 3
    OBVIOUS
  <1>2. bits(0, 1) = 0 => read = Part(Nothing, FALSE, at + 1)
    BY <1>1, Zenon DEF ReadMovement
  <1>3. bits(0, 1) = 1 /\ kind = 0 => read = Part(Movement(<<>>), TRUE, at + 3)
    BY <1>1, Zenon DEF ReadMovement
  <1>4. bits(0, 1) = 1 /\ kind = 1 =>
          read = Part(Movement(<<bits(3, 3)>>), bits(6, 1) = 1, at + 7)
    BY <1>1, Zenon DEF ReadMovement
  <1>5. bits(0, 1) = 1 /\ kind = 2 =>
          read = Part(Movement(<<bits(3, 3), bits(6, 3)>>), bits(9, 1) = 1, at + 10)
    BY <1>1, Zenon DEF ReadMovement
  <1>6. bits(0, 1) = 1 /\ kind = 3 /\ self = TRUE =>
          read = Part(Placement(bits(14, 7), bits(7, 7), bits(5, 1) = 1), bits(6, 1) = 1, at + 21)
    BY <1>1, Zenon DEF ReadMovement
  <1>7. bits(0, 1) # 0 /\ ~(bits(0, 1) = 1 /\ (kind \in 0 .. 2 \/ (kind = 3 /\ self = TRUE))) =>
          read = Part(Removal, FALSE, at + 3)
    <2>1. 0 \in 0 .. 2 /\ 1 \in 0 .. 2 /\ 2 \in 0 .. 2
      OBVIOUS
    <2> QED BY <2>1, Zenon DEF ReadMovement
  <1> QED BY <1>2, <1>3, <1>4, <1>5, <1>6, <1>7, Zenon

\* A movement is read from the bits up to its end only.
LEMMA MovementSame ==
  ASSUME NEW new, NEW old, NEW at \in Nat, NEW self \in BOOLEAN, NEW to \in Nat,
         SameBits(new, old, at, to), ReadMovement(old, at, self).end <= to
  PROVE  ReadMovement(new, at, self) = ReadMovement(old, at, self)
  <1> DEFINE R(from, amount) == ReadBits(new, at + from, amount) = ReadBits(old, at + from, amount)
  <1>1. ASSUME NEW from \in Nat, NEW amount \in Nat, at + from + amount <= to
        PROVE  R(from, amount)
    <2>1. \A j \in Nat : at + from <= j /\ j < (at + from) + amount => Bit(new, j) = Bit(old, j)
      BY <1>1 DEF SameBits
    <2> QED BY <2>1, ReadSame
  <1> DEFINE O(from, amount) == ReadBits(old, at + from, amount)
             N(from, amount) == ReadBits(new, at + from, amount)
             read == ReadMovement(old, at, self)
             again == ReadMovement(new, at, self)
  <1> HIDE DEF O, N
  <1>2. \A from, amount \in Nat : at + from + amount <= to => N(from, amount) = O(from, amount)
    BY <1>1 DEF N, O
  <1>3. CASE O(0, 1) = 0
    <2>1. read = Part(Nothing, FALSE, at + 1)
      BY <1>3, MovementIs, ZenonT(60) DEF O
    <2>2. at + 0 + 1 <= to
      BY <2>1 DEF Part
    <2>3. N(0, 1) = 0
      BY <1>2, <1>3, <2>2
    <2>4. again = Part(Nothing, FALSE, at + 1)
      BY <2>3, MovementIs, ZenonT(60) DEF N
    <2> QED BY <2>1, <2>4
  <1>4. CASE O(0, 1) = 1 /\ O(1, 2) = 0
    <2>1. read = Part(Movement(<<>>), TRUE, at + 3)
      BY <1>4, MovementIs, ZenonT(60) DEF O
    <2>2. at + 3 <= to
      BY <2>1 DEF Part
    <2>3. N(0, 1) = 1 /\ N(1, 2) = 0
      BY <1>2, <1>4, <2>2
    <2>4. again = Part(Movement(<<>>), TRUE, at + 3)
      BY <2>3, MovementIs, ZenonT(60) DEF N
    <2> QED BY <2>1, <2>4
  <1>5. CASE O(0, 1) = 1 /\ O(1, 2) = 1
    <2>1. read = Part(Movement(<<O(3, 3)>>), O(6, 1) = 1, at + 7)
      BY <1>5, MovementIs, ZenonT(60) DEF O
    <2>2. at + 7 <= to
      BY <2>1 DEF Part
    <2>3. N(0, 1) = 1 /\ N(1, 2) = 1 /\ N(3, 3) = O(3, 3) /\ N(6, 1) = O(6, 1)
      BY <1>2, <1>5, <2>2
    <2>4. again = Part(Movement(<<N(3, 3)>>), N(6, 1) = 1, at + 7)
      BY <2>3, MovementIs, ZenonT(60) DEF N
    <2> QED BY <2>1, <2>3, <2>4, Zenon
  <1>6. CASE O(0, 1) = 1 /\ O(1, 2) = 2
    <2>1. read = Part(Movement(<<O(3, 3), O(6, 3)>>), O(9, 1) = 1, at + 10)
      BY <1>6, MovementIs, ZenonT(60) DEF O
    <2>2. at + 10 <= to
      BY <2>1 DEF Part
    <2>3. /\ N(0, 1) = 1 /\ N(1, 2) = 2 /\ N(3, 3) = O(3, 3) /\ N(6, 3) = O(6, 3)
          /\ N(9, 1) = O(9, 1)
      BY <1>2, <1>6, <2>2
    <2>4. again = Part(Movement(<<N(3, 3), N(6, 3)>>), N(9, 1) = 1, at + 10)
      BY <2>3, MovementIs, ZenonT(60) DEF N
    <2> QED BY <2>1, <2>3, <2>4, Zenon
  <1>7. CASE O(0, 1) = 1 /\ O(1, 2) = 3 /\ self = TRUE
    <2>1. read = Part(Placement(O(14, 7), O(7, 7), O(5, 1) = 1), O(6, 1) = 1, at + 21)
      <3>1. ReadBits(old, at + 0, 1) = 1 /\ ReadBits(old, at + 1, 2) = 3 /\ self = TRUE
        BY <1>7, Zenon DEF O
      <3>2. read = Part(Placement(ReadBits(old, at + 14, 7), ReadBits(old, at + 7, 7),
                                  ReadBits(old, at + 5, 1) = 1),
                        ReadBits(old, at + 6, 1) = 1, at + 21)
        BY ONLY <3>1, MovementIs, self \in BOOLEAN, ZenonT(60)
      <3> QED BY ONLY <3>2, Zenon DEF O
    <2>2. at + 21 <= to
      BY <2>1 DEF Part
    <2>3. /\ N(0, 1) = 1 /\ N(1, 2) = 3 /\ N(14, 7) = O(14, 7) /\ N(7, 7) = O(7, 7)
          /\ N(5, 1) = O(5, 1) /\ N(6, 1) = O(6, 1)
      BY <1>2, <1>7, <2>2
    <2>4. again = Part(Placement(N(14, 7), N(7, 7), N(5, 1) = 1), N(6, 1) = 1, at + 21)
      <3>1. ReadBits(new, at + 0, 1) = 1 /\ ReadBits(new, at + 1, 2) = 3 /\ self = TRUE
        BY <1>7, <2>3, Zenon DEF N
      <3>2. again = Part(Placement(ReadBits(new, at + 14, 7), ReadBits(new, at + 7, 7),
                                   ReadBits(new, at + 5, 1) = 1),
                         ReadBits(new, at + 6, 1) = 1, at + 21)
        BY ONLY <3>1, MovementIs, self \in BOOLEAN, ZenonT(60)
      <3> QED BY ONLY <3>2, Zenon DEF N
    <2> QED BY <2>1, <2>3, <2>4, Zenon
  <1>8. CASE O(0, 1) # 0 /\ ~(O(0, 1) = 1 /\ (O(1, 2) \in 0 .. 2 \/ (O(1, 2) = 3 /\ self = TRUE)))
    <2>1. read = Part(Removal, FALSE, at + 3)
      BY <1>8, MovementIs, ZenonT(60) DEF O
    <2>2. at + 3 <= to
      BY <2>1 DEF Part
    <2>3. N(0, 1) = O(0, 1) /\ N(1, 2) = O(1, 2)
      BY <1>2, <2>2
    <2>4. again = Part(Removal, FALSE, at + 3)
      BY <1>8, <2>3, MovementIs, ZenonT(60) DEF N
    <2> QED BY <2>1, <2>4
  <1>9. \A x : x \in 0 .. 2 => x = 0 \/ x = 1 \/ x = 2
    OBVIOUS
  <1> QED BY <1>3, <1>4, <1>5, <1>6, <1>7, <1>8, <1>9, Zenon

\* A new player is read from 23 bits.
LEMMA AdditionSame ==
  ASSUME NEW new, NEW old, NEW at \in Nat, NEW to \in Nat,
         SameBits(new, old, at, to), at + 23 <= to
  PROVE  /\ ReadAddition(new, at) = ReadAddition(old, at)
         /\ ReadBits(new, at, 11) = ReadBits(old, at, 11)
  <1>1. ASSUME NEW from \in Nat, NEW amount \in Nat, from + amount <= 23
        PROVE  ReadBits(new, at + from, amount) = ReadBits(old, at + from, amount)
    <2>1. \A j \in Nat : at + from <= j /\ j < (at + from) + amount => Bit(new, j) = Bit(old, j)
      BY <1>1 DEF SameBits
    <2> QED BY <2>1, ReadSame
  <1>2. /\ ReadBits(new, at + 11, 1) = ReadBits(old, at + 11, 1)
        /\ ReadBits(new, at + 13, 5) = ReadBits(old, at + 13, 5)
        /\ ReadBits(new, at + 18, 5) = ReadBits(old, at + 18, 5)
    BY <1>1
  <1>3. ReadBits(new, at, 11) = ReadBits(old, at, 11)
    <2>1. ReadBits(new, at + 0, 11) = ReadBits(old, at + 0, 11)
      BY <1>1
    <2> QED BY <2>1
  <1> QED BY <1>2, <1>3, Zenon DEF ReadAddition, Signed

----------------------------------------------------------------------------
(* The fields of a part *)

\* What one more call of WriteBits makes of it.
PutNext(before, field) ==
  [bytes |-> PutBits(before.bytes, before.at, field[1], field[2]), at |-> before.at + field[1]]

\* f gives what is there after every number of fields.
PutBy(f, start, fields, n) ==
  f = [k \in 0 .. n |-> IF k = 0 THEN start ELSE PutNext(f[k - 1], fields[k])]

\* The function in the definition of PutFields exists.
LEMMA PutExists ==
  ASSUME NEW start, NEW fields, NEW n \in Nat
  PROVE  \E f : PutBy(f, start, fields, n)
  <1> DEFINE S == {m \in Nat : \E f : PutBy(f, start, fields, m)}
  <1>1. 0 \in S
    <2>1. PutBy([k \in 0 .. 0 |-> start], start, fields, 0)
      BY DEF PutBy
    <2> QED BY <2>1
  <1>2. ASSUME NEW m \in Nat, m \in S PROVE m + 1 \in S
    <2>1. PICK f : PutBy(f, start, fields, m)
      BY <1>2
    <2>2. PICK g : g = [k \in 0 .. m + 1 |-> IF k = m + 1 THEN PutNext(f[m], fields[m + 1]) ELSE f[k]]
      OBVIOUS
    <2>3. /\ g[m + 1] = PutNext(f[m], fields[m + 1]) /\ g[m + 1 - 1] = f[m]
          /\ \A k \in 0 .. m : g[k] = f[k] /\ (k # 0 => g[k - 1] = f[k - 1])
      BY <2>2, Longer
    <2>4. PutBy(g, start, fields, m + 1)
      BY <2>1, <2>2, <2>3 DEF PutBy
    <2> QED BY <2>4
  <1>3. Nat \subseteq S
    <2> HIDE DEF S
    <2> QED BY <1>1, <1>2, InductionOverNat
  <1> QED BY <1>3

\* One call of WriteBits: what is before the bits stays, and they read as the value.
LEMMA FieldPut ==
  ASSUME NEW bytes \in Seq(Bytes), NEW at \in Nat, at <= 8 * Len(bytes),
         NEW amount \in 1 .. MaxWidth, NEW value \in Int
  PROVE  LET new == PutBits(bytes, at, amount, value)
         IN  /\ new \in Seq(Bytes) /\ Len(new) >= Len(bytes) /\ at + amount <= 8 * Len(new)
             /\ Agrees(new, bytes, at)
             /\ ReadBits(new, at, amount) = value % Pow2[amount]
  <1> DEFINE new == PutBits(bytes, at, amount, value)
  <1>1. /\ new \in Seq(Bytes) /\ Len(new) >= Len(bytes) /\ at + amount <= 8 * Len(new)
        /\ \A i \in 1 .. Len(bytes) : 8 * i <= at => new[i] = bytes[i]
        /\ \A j \in Nat : j < at => Bit(new, j) = Bit(bytes, j)
        /\ \A k \in 0 .. amount - 1 :
             Bit(new, at + k) = (value \div Pow2[amount - 1 - k]) % 2
    BY PutBitsIs, ZenonT(60)
  <1> HIDE DEF new
  <1>2. ReadBits(new, at, amount) = value % Pow2[amount]
    BY <1>1, ReadBitsIs
  <1> QED BY <1>1, <1>2 DEF Agrees, new

\* Bytes that agree with others up to a place and from there to others.
LEMMA AgreesTwice ==
  ASSUME NEW a \in Seq(Bytes), NEW b \in Seq(Bytes), NEW c \in Seq(Bytes),
         NEW at \in Nat, NEW to \in Nat, at <= to, Len(a) <= Len(b),
         Agrees(b, a, at), Agrees(c, b, to)
  PROVE  Agrees(c, a, at)
  <1>1. ASSUME NEW i \in 1 .. Len(a), 8 * i <= at PROVE c[i] = a[i]
    <2>1. i \in 1 .. Len(b) /\ 8 * i <= to
      BY <1>1
    <2> QED BY <1>1, <2>1 DEF Agrees
  <1>2. ASSUME NEW j \in Nat, j < at PROVE Bit(c, j) = Bit(a, j)
    <2>1. j < to
      BY <1>2
    <2> QED BY <1>2, <2>1 DEF Agrees
  <1> QED BY <1>1, <1>2 DEF Agrees

\* The widths of fields are numbers.
LEMMA Widths == \A x \in 1 .. MaxWidth : x \in Nat /\ x > 0
  BY DEF MaxWidth

\* One field more, behind what agrees with the bytes of the beginning.
LEMMA FieldMore ==
  ASSUME NEW bytes \in Seq(Bytes), NEW b \in Seq(Bytes), Len(bytes) <= Len(b),
         NEW at \in Nat, NEW place \in Nat, at <= place, place <= 8 * Len(b),
         Agrees(b, bytes, at),
         NEW amount \in 1 .. MaxWidth, NEW value \in Int,
         NEW c, c = PutBits(b, place, amount, value)
  PROVE  /\ c \in Seq(Bytes) /\ Len(bytes) <= Len(c)
         /\ place + amount \in Nat /\ at <= place + amount /\ place + amount <= 8 * Len(c)
         /\ Agrees(c, bytes, at) /\ Agrees(c, b, place)
         /\ ReadBits(c, place, amount) = value % Pow2[amount]
  <1>1. /\ c \in Seq(Bytes) /\ Len(c) >= Len(b) /\ place + amount <= 8 * Len(c)
        /\ Agrees(c, b, place) /\ ReadBits(c, place, amount) = value % Pow2[amount]
    BY FieldPut
  <1>2. Len(bytes) \in Nat /\ Len(b) \in Nat /\ Len(c) \in Nat /\ amount \in Nat
    BY <1>1, Widths
  <1>3. Agrees(c, bytes, at)
    BY <1>1, AgreesTwice
  <1> QED BY <1>1, <1>2, <1>3

\* What is read before a place stays.
LEMMA FieldStays ==
  ASSUME NEW b, NEW c, NEW place \in Nat, Agrees(c, b, place),
         NEW from \in Nat, NEW amount \in Nat, from + amount <= place
  PROVE  ReadBits(c, from, amount) = ReadBits(b, from, amount)
  <1>1. \A j \in Nat : from <= j /\ j < from + amount => Bit(c, j) = Bit(b, j)
    <2> SUFFICES ASSUME NEW j \in Nat, j < from + amount PROVE Bit(c, j) = Bit(b, j)
      OBVIOUS
    <2>1. j < place
      OBVIOUS
    <2> QED BY <2>1 DEF Agrees
  <1> QED BY <1>1, ReadSame

\* The first n fields are read one after the other from the places p.
FieldsAt(bytes, p, fields, n) ==
  \A k \in 1 .. n :
    /\ p[k - 1] \in Nat /\ p[k] = p[k - 1] + fields[k][1]
    /\ ReadBits(bytes, p[k - 1], fields[k][1]) = fields[k][2] % Pow2[fields[k][1]]

\* Pairs of a width and a value.
AreFields(fields, n) ==
  \A k \in 1 .. n : fields[k][1] \in 1 .. MaxWidth /\ fields[k][2] \in Int

\* The calls of WriteBits for a sequence of fields: each of them can be read, and
\* nothing before the first is changed.
LEMMA FieldsPut ==
  ASSUME NEW bytes \in Seq(Bytes), NEW at \in Nat, at <= 8 * Len(bytes),
         NEW fields, NEW n \in Nat, Len(fields) = n, AreFields(fields, n)
  PROVE  LET put == PutFields(bytes, at, fields)
         IN  /\ put.bytes \in Seq(Bytes) /\ Len(bytes) <= Len(put.bytes)
             /\ put.at \in Nat /\ at <= put.at /\ put.at <= 8 * Len(put.bytes)
             /\ Agrees(put.bytes, bytes, at)
             /\ \E p : p[0] = at /\ p[n] = put.at /\ FieldsAt(put.bytes, p, fields, n)
  <1> DEFINE start == [bytes |-> bytes, at |-> at]
             f == CHOOSE f : PutBy(f, start, fields, n)
             B(k) == f[k].bytes
             p == [k \in 0 .. n |-> f[k].at]
  <1>1. PutBy(f, start, fields, n)
    BY PutExists
  <1>2. PutFields(bytes, at, fields) = f[n]
    BY DEF PutFields, PutBy, PutNext
  <1> HIDE DEF f
  <1>3. B(0) = bytes /\ p[0] = at
    BY <1>1 DEF PutBy
  <1>4. ASSUME NEW k \in 0 .. n - 1
        PROVE  /\ B(k + 1) = PutBits(B(k), p[k], fields[k + 1][1], fields[k + 1][2])
               /\ p[k + 1] = p[k] + fields[k + 1][1]
    <2>1. k + 1 \in 0 .. n /\ k \in 0 .. n /\ k + 1 # 0 /\ (k + 1) - 1 = k
      OBVIOUS
    <2>2. f[k + 1] = PutNext(f[k], fields[k + 1])
      BY <1>1, <2>1 DEF PutBy
    <2> QED BY <2>1, <2>2 DEF PutNext
  <1>5. B(n) = PutFields(bytes, at, fields).bytes /\ p[n] = PutFields(bytes, at, fields).at
    BY <1>2
  <1> HIDE DEF B, p
  <1> DEFINE Good(k) == /\ B(k) \in Seq(Bytes) /\ Len(bytes) <= Len(B(k))
                        /\ p[k] \in Nat /\ at <= p[k] /\ p[k] <= 8 * Len(B(k))
                        /\ Agrees(B(k), bytes, at)
             Read(k, j) == /\ p[j - 1] \in Nat /\ p[j] = p[j - 1] + fields[j][1] /\ p[j] <= p[k]
                           /\ ReadBits(B(k), p[j - 1], fields[j][1])
                                = fields[j][2] % Pow2[fields[j][1]]
             S == {k \in Nat : k <= n => Good(k) /\ \A j \in 1 .. k : Read(k, j)}
  <1>6. 0 \in S
    <2>1. Agrees(bytes, bytes, at)
      BY DEF Agrees
    <2>2. Good(0)
      BY <1>3, <2>1
    <2>3. \A j \in 1 .. 0 : Read(0, j)
      OBVIOUS
    <2> HIDE DEF Good, Read
    <2> QED BY <2>2, <2>3
  <1>7. ASSUME NEW k \in Nat, k + 1 <= n, Good(k), \A j \in 1 .. k : Read(k, j)
        PROVE  Good(k + 1) /\ \A j \in 1 .. k + 1 : Read(k + 1, j)
    <2>0. k \in 0 .. n - 1 /\ k + 1 \in 1 .. n
      BY <1>7
    <2> DEFINE amount == fields[k + 1][1]
               value == fields[k + 1][2]
    <2>1. amount \in 1 .. MaxWidth /\ value \in Int
      BY <2>0 DEF AreFields
    <2>2. B(k + 1) = PutBits(B(k), p[k], amount, value) /\ p[k + 1] = p[k] + amount
      BY <1>4, <2>0
    <2> HIDE DEF amount, value
    <2>3. /\ B(k) \in Seq(Bytes) /\ Len(bytes) <= Len(B(k))
          /\ p[k] \in Nat /\ at <= p[k] /\ p[k] <= 8 * Len(B(k))
          /\ Agrees(B(k), bytes, at)
      BY <1>7
    <2>4. /\ B(k + 1) \in Seq(Bytes) /\ Len(bytes) <= Len(B(k + 1))
          /\ p[k] + amount \in Nat /\ at <= p[k] + amount /\ p[k] + amount <= 8 * Len(B(k + 1))
          /\ Agrees(B(k + 1), bytes, at) /\ Agrees(B(k + 1), B(k), p[k])
          /\ ReadBits(B(k + 1), p[k], amount) = value % Pow2[amount]
      BY <2>1, <2>2, <2>3, FieldMore, SMTT(30)
    <2>5. Good(k + 1)
      BY <2>2, <2>4
    <2>6. Read(k + 1, k + 1)
      <3>1. (k + 1) - 1 = k /\ p[k + 1] <= p[k + 1]
        BY <2>2, <2>4
      <3> QED BY <2>2, <2>3, <2>4, <3>1 DEF amount, value
    <2>7. ASSUME NEW j \in 1 .. k PROVE Read(k + 1, j)
      <3> DEFINE a == fields[j][1]
      <3>1. j \in 1 .. n
        BY <1>7
      <3>2. a \in Nat
        BY <3>1, Widths DEF AreFields
      <3>3. /\ p[j - 1] \in Nat /\ p[j] = p[j - 1] + a /\ p[j] <= p[k]
            /\ ReadBits(B(k), p[j - 1], a) = fields[j][2] % Pow2[a]
        BY <1>7
      <3> HIDE DEF a
      <3>4. amount \in Nat
        BY <2>1, Widths
      <3>5. p[j] <= p[k + 1] /\ p[j - 1] + a <= p[k]
        BY ONLY <2>2, <2>3, <3>2, <3>3, <3>4, SMTT(30)
      <3>6. ReadBits(B(k + 1), p[j - 1], a) = ReadBits(B(k), p[j - 1], a)
        <4>1. p[k] \in Nat /\ Agrees(B(k + 1), B(k), p[k])
          BY <2>3, <2>4
        <4>2. p[j - 1] \in Nat /\ a \in Nat /\ p[j - 1] + a <= p[k]
          BY <3>2, <3>3, <3>5
        <4>3. PICK b, c, x, y : b = B(k) /\ c = B(k + 1) /\ x = p[k] /\ y = p[j - 1]
          OBVIOUS
        <4>4. /\ x \in Nat /\ Agrees(c, b, x) /\ y \in Nat /\ a \in Nat /\ y + a <= x
          BY ONLY <4>1, <4>2, <4>3, Zenon
        <4>5. ReadBits(c, y, a) = ReadBits(b, y, a)
          BY ONLY <4>4, FieldStays
        <4> QED BY ONLY <4>3, <4>5, Zenon
      <3> QED BY <3>3, <3>5, <3>6 DEF a
    <2>8. \A j \in 1 .. k + 1 : j = k + 1 \/ j \in 1 .. k
      OBVIOUS
    <2> HIDE DEF Good, Read
    <2> QED BY <2>5, <2>6, <2>7, <2>8
  <1>8. Good(n) /\ \A j \in 1 .. n : Read(n, j)
    <2>1. ASSUME NEW k \in Nat, k \in S PROVE k + 1 \in S
      <3>1. k + 1 <= n => k <= n
        OBVIOUS
      <3> HIDE DEF Good, Read
      <3>2. k + 1 <= n => Good(k + 1) /\ \A j \in 1 .. k + 1 : Read(k + 1, j)
        BY <1>7, <2>1, <3>1
      <3> QED BY <3>2
    <2>2. n \in S
      <3> HIDE DEF S
      <3> QED BY <1>6, <2>1, InductionOverNat
    <2>3. n <= n
      OBVIOUS
    <2> HIDE DEF Good, Read
    <2> QED BY <2>2, <2>3
  <1>9. FieldsAt(B(n), p, fields, n)
    BY <1>8 DEF FieldsAt
  <1> QED BY <1>3, <1>5, <1>8, <1>9

----------------------------------------------------------------------------
(* The parts can be read *)

\* The powers of two that bound the fields.
LEMMA SmallPowers ==
  /\ Pow2[1] = 2 /\ Pow2[2] = 4 /\ Pow2[3] = 8 /\ Pow2[4] = 16 /\ Pow2[5] = 32
  /\ Pow2[7] = 128 /\ Pow2[8] = 256 /\ Pow2[11] = 2048
  <1>1. \A k \in 0 .. 29 : Pow2[k + 1] = 2 * Pow2[k]
    BY Pow2Is DEF MaxWidth
  <1>2. Pow2[0] = 1 /\ Pow2[0 + 1] = 2 * Pow2[0] /\ Pow2[1 + 1] = 2 * Pow2[1]
        /\ Pow2[2 + 1] = 2 * Pow2[2] /\ Pow2[3 + 1] = 2 * Pow2[3]
    BY <1>1, Pow2Is
  <1>3. Pow2[4 + 1] = 2 * Pow2[4] /\ Pow2[5 + 1] = 2 * Pow2[5] /\ Pow2[6 + 1] = 2 * Pow2[6]
        /\ Pow2[7 + 1] = 2 * Pow2[7]
    BY <1>1
  <1>4. Pow2[8 + 1] = 2 * Pow2[8] /\ Pow2[9 + 1] = 2 * Pow2[9] /\ Pow2[10 + 1] = 2 * Pow2[10]
    BY <1>1
  <1>5. Pow2[1] = 2 /\ Pow2[2] = 4 /\ Pow2[3] = 8 /\ Pow2[4] = 16
    BY ONLY <1>2
  <1>6. Pow2[5] = 32 /\ Pow2[7] = 128 /\ Pow2[8] = 256
    BY ONLY <1>3, <1>5
  <1>7. Pow2[11] = 2048
    BY ONLY <1>4, <1>6
  <1> QED BY <1>5, <1>6, <1>7

\* The value of a field, and where the next one is.
LEMMA FieldRead ==
  ASSUME NEW bytes, NEW p, NEW fields, NEW n \in Nat, FieldsAt(bytes, p, fields, n),
         NEW k \in 1 .. n, NEW at \in Nat, p[k - 1] = at,
         NEW a \in 1 .. MaxWidth, NEW v \in Nat, fields[k] = <<a, v>>, v < Pow2[a]
  PROVE  p[k] = at + a /\ ReadBits(bytes, at, a) = v
  <1>1. p[k] = at + a /\ ReadBits(bytes, at, a) = v % Pow2[a]
    BY DEF FieldsAt
  <1>2. a \in 0 .. MaxWidth
    BY DEF MaxWidth
  <1>3. Pow2[a] \in Nat /\ Pow2[a] > 0
    BY <1>2, Pow2Nat
  <1> DEFINE e == Pow2[a]
  <1> HIDE DEF e
  <1>4. e \in Nat /\ v < e => v % e = v
    <2> SUFFICES ASSUME e \in Nat, v < e PROVE v % e = v
      OBVIOUS
    <2>1. e * 0 + v = v /\ 0 \in Int /\ e > 0
      OBVIOUS
    <2>2. (e * 0 + v) % e = v
      BY <2>1, DivUnique
    <2> QED BY <2>1, <2>2
  <1> QED BY <1>1, <1>3, <1>4 DEF e

\* Fields are read without the last one, too.
LEMMA FieldsFirst ==
  ASSUME NEW bytes, NEW p, NEW fields \in Seq(Int \X Int), NEW last \in Int \X Int,
         FieldsAt(bytes, p, Append(fields, last), Len(fields) + 1)
  PROVE  /\ FieldsAt(bytes, p, fields, Len(fields))
         /\ Append(fields, last)[Len(fields) + 1] = last
  <1>1. \A k \in 1 .. Len(fields) : k \in 1 .. Len(fields) + 1 /\ Append(fields, last)[k] = fields[k]
    OBVIOUS
  <1>2. FieldsAt(bytes, p, fields, Len(fields))
    BY <1>1 DEF FieldsAt
  <1> QED BY <1>2

\* A flag.
LEMMA FlagIs ==
  ASSUME NEW b \in BOOLEAN
  PROVE  /\ Flag(b) = <<1, IF b THEN 1 ELSE 0>>
         /\ (IF b THEN 1 ELSE 0) \in Nat /\ (IF b THEN 1 ELSE 0) < 2
         /\ \A x : x = (IF b THEN 1 ELSE 0) => (x = 1) = b
  <1>1. \A x : x = (IF b THEN 1 ELSE 0) => (x = 1) = b
    <2>1. 0 # 1
      OBVIOUS
    <2> QED BY <2>1, Zenon
  <1> QED BY <1>1 DEF Flag

\* Flags and the widths of fields.
LEMMA FieldWidths ==
  /\ 1 \in 1 .. MaxWidth /\ 2 \in 1 .. MaxWidth /\ 3 \in 1 .. MaxWidth /\ 5 \in 1 .. MaxWidth
  /\ 7 \in 1 .. MaxWidth /\ 8 \in 1 .. MaxWidth /\ 11 \in 1 .. MaxWidth
  BY DEF MaxWidth

\* Fields are read one after the other from a place on.
FieldsFrom(bytes, at, fields, end) ==
  \E p : p[0] = at /\ p[Len(fields)] = end /\ FieldsAt(bytes, p, fields, Len(fields))

\* AppendRun.
LEMMA RunRead ==
  ASSUME NEW bytes, NEW at \in Nat, NEW end, NEW x \in 0 .. 7, NEW y \in 0 .. 7, NEW b \in BOOLEAN,
         NEW self \in BOOLEAN,
         FieldsFrom(bytes, at, <<Flag(TRUE), <<2, 2>>, <<3, x>>, <<3, y>>, Flag(b)>>, end)
  PROVE  ReadMovement(bytes, at, self) = Part(Movement(<<x, y>>), b, at + 10) /\ end = at + 10
  <1>1. PICK f : f = <<Flag(TRUE), <<2, 2>>, <<3, x>>, <<3, y>>, Flag(b)>>
    OBVIOUS
  <1>2. /\ Len(f) = 5 /\ f[1] = <<1, 1>> /\ f[2] = <<2, 2>> /\ f[3] = <<3, x>> /\ f[4] = <<3, y>>
        /\ f[5] = <<1, IF b THEN 1 ELSE 0>>
    BY <1>1 DEF Flag
  <1>3. PICK p : p[0] = at /\ p[5] = end /\ FieldsAt(bytes, p, f, 5)
    BY <1>1, <1>2 DEF FieldsFrom
  <1>4. PICK v : v = IF b THEN 1 ELSE 0
    OBVIOUS
  <1>5. v \in Nat /\ v < 2 /\ f[5] = <<1, v>> /\ (v = 1) = b
    BY <1>2, <1>4, FlagIs
  <1>6. p[1] = at + 1 /\ ReadBits(bytes, at, 1) = 1
    <2>1. 1 \in 1 .. 5 /\ 1 - 1 = 0 /\ 1 < Pow2[1]
      BY SmallPowers
    <2> QED BY <1>2, <1>3, <2>1, FieldRead, FieldWidths
  <1>7. p[2] = at + 3 /\ ReadBits(bytes, at + 1, 2) = 2
    <2>1. 2 \in 1 .. 5 /\ 2 - 1 = 1 /\ 2 < Pow2[2] /\ at + 1 \in Nat
      BY SmallPowers
    <2>2. p[2] = (at + 1) + 2 /\ ReadBits(bytes, at + 1, 2) = 2
      BY <1>2, <1>3, <1>6, <2>1, FieldRead, FieldWidths
    <2> QED BY <2>2
  <1>8. p[3] = at + 6 /\ ReadBits(bytes, at + 3, 3) = x
    <2>1. 3 \in 1 .. 5 /\ 3 - 1 = 2 /\ x \in Nat /\ x < Pow2[3] /\ at + 3 \in Nat
      BY SmallPowers
    <2>2. p[3] = (at + 3) + 3 /\ ReadBits(bytes, at + 3, 3) = x
      BY <1>2, <1>3, <1>7, <2>1, FieldRead, FieldWidths
    <2> QED BY <2>2
  <1>9. p[4] = at + 9 /\ ReadBits(bytes, at + 6, 3) = y
    <2>1. 4 \in 1 .. 5 /\ 4 - 1 = 3 /\ y \in Nat /\ y < Pow2[3] /\ at + 6 \in Nat
      BY SmallPowers
    <2>2. p[4] = (at + 6) + 3 /\ ReadBits(bytes, at + 6, 3) = y
      BY <1>2, <1>3, <1>8, <2>1, FieldRead, FieldWidths
    <2> QED BY <2>2
  <1>10. p[5] = at + 10 /\ ReadBits(bytes, at + 9, 1) = v
    <2>1. 5 \in 1 .. 5 /\ 5 - 1 = 4 /\ v < Pow2[1] /\ at + 9 \in Nat
      BY <1>5, SmallPowers
    <2>2. p[5] = (at + 9) + 1 /\ ReadBits(bytes, at + 9, 1) = v
      BY <1>3, <1>5, <1>9, <2>1, FieldRead, FieldWidths
    <2> QED BY <2>2
  <1>11. ReadBits(bytes, at + 0, 1) = 1
    BY <1>6
  <1>12. ReadMovement(bytes, at, self)
           = Part(Movement(<<ReadBits(bytes, at + 3, 3), ReadBits(bytes, at + 6, 3)>>),
                  ReadBits(bytes, at + 9, 1) = 1, at + 10)
    BY ONLY <1>7, <1>11, MovementIs, self \in BOOLEAN, ZenonT(60)
  <1>13. ReadMovement(bytes, at, self) = Part(Movement(<<x, y>>), b, at + 10)
    BY ONLY <1>5, <1>8, <1>9, <1>10, <1>12, Zenon
  <1> QED BY <1>3, <1>10, <1>13, Zenon

\* AppendWalk.
LEMMA WalkRead ==
  ASSUME NEW bytes, NEW at \in Nat, NEW end, NEW x \in 0 .. 7, NEW b \in BOOLEAN, NEW self \in BOOLEAN,
         FieldsFrom(bytes, at, <<Flag(TRUE), <<2, 1>>, <<3, x>>, Flag(b)>>, end)
  PROVE  ReadMovement(bytes, at, self) = Part(Movement(<<x>>), b, at + 7) /\ end = at + 7
  <1>1. PICK f : f = <<Flag(TRUE), <<2, 1>>, <<3, x>>, Flag(b)>>
    OBVIOUS
  <1>2. /\ Len(f) = 4
        /\ f[1] = <<1, 1>>
        /\ f[2] = <<2, 1>>
        /\ f[3] = <<3, x>>
        /\ f[4] = <<1, IF b THEN 1 ELSE 0>>
    BY <1>1 DEF Flag
  <1>3. PICK p : p[0] = at /\ p[4] = end /\ FieldsAt(bytes, p, f, 4)
    BY <1>1, <1>2 DEF FieldsFrom
  <1>4. PICK v4 : v4 = IF b THEN 1 ELSE 0
    OBVIOUS
  <1>5. v4 \in Nat /\ v4 < 2 /\ f[4] = <<1, v4>> /\ (v4 = 1) = b
    BY <1>2, <1>4, FlagIs
  <1>6. p[1] = at + 1 /\ ReadBits(bytes, at, 1) = 1
    <2>1. 1 \in 1 .. 4 /\ 1 - 1 = 0 /\ 1 \in Nat /\ 1 < Pow2[1]
      BY SmallPowers
    <2> QED BY <1>2, <1>3, <2>1, FieldRead, FieldWidths
  <1>7. p[2] = at + 3 /\ ReadBits(bytes, at + 1, 2) = 1
    <2>1. 2 \in 1 .. 4 /\ 2 - 1 = 1 /\ 1 \in Nat /\ 1 < Pow2[2] /\ at + 1 \in Nat
      BY SmallPowers
    <2>2. p[2] = (at + 1) + 2 /\ ReadBits(bytes, at + 1, 2) = 1
      BY <1>2, <1>3, <1>6, <2>1, FieldRead, FieldWidths
    <2> QED BY <2>2
  <1>8. p[3] = at + 6 /\ ReadBits(bytes, at + 3, 3) = x
    <2>1. 3 \in 1 .. 4 /\ 3 - 1 = 2 /\ x \in Nat /\ x < Pow2[3] /\ at + 3 \in Nat
      BY SmallPowers
    <2>2. p[3] = (at + 3) + 3 /\ ReadBits(bytes, at + 3, 3) = x
      BY <1>2, <1>3, <1>7, <2>1, FieldRead, FieldWidths
    <2> QED BY <2>2
  <1>9. p[4] = at + 7 /\ ReadBits(bytes, at + 6, 1) = v4
    <2>1. 4 \in 1 .. 4 /\ 4 - 1 = 3 /\ v4 \in Nat /\ v4 < Pow2[1] /\ at + 6 \in Nat
      BY <1>5, SmallPowers
    <2>2. p[4] = (at + 6) + 1 /\ ReadBits(bytes, at + 6, 1) = v4
      BY <1>2, <1>3, <1>5, <1>8, <2>1, FieldRead, FieldWidths
    <2> QED BY <2>2
  <1>10. ReadBits(bytes, at + 0, 1) = 1
    BY <1>6
  <1>11. ReadMovement(bytes, at, self)
           = Part(Movement(<<ReadBits(bytes, at + 3, 3)>>),
                  ReadBits(bytes, at + 6, 1) = 1, at + 7)
    BY ONLY <1>7, <1>10, MovementIs, self \in BOOLEAN, ZenonT(60)
  <1>12. ReadMovement(bytes, at, self) = Part(Movement(<<x>>), b, at + 7)
    BY ONLY <1>5, <1>7, <1>8, <1>9, <1>11, Zenon
  <1> QED BY <1>3, <1>9, <1>12, Zenon

\* AppendStand.
LEMMA StandRead ==
  ASSUME NEW bytes, NEW at \in Nat, NEW end, NEW self \in BOOLEAN,
         FieldsFrom(bytes, at, <<Flag(TRUE), <<2, 0>>>>, end)
  PROVE  ReadMovement(bytes, at, self) = Part(Movement(<<>>), TRUE, at + 3) /\ end = at + 3
  <1>1. PICK f : f = <<Flag(TRUE), <<2, 0>>>>
    OBVIOUS
  <1>2. /\ Len(f) = 2
        /\ f[1] = <<1, 1>>
        /\ f[2] = <<2, 0>>
    BY <1>1 DEF Flag
  <1>3. PICK p : p[0] = at /\ p[2] = end /\ FieldsAt(bytes, p, f, 2)
    BY <1>1, <1>2 DEF FieldsFrom
  <1>4. p[1] = at + 1 /\ ReadBits(bytes, at, 1) = 1
    <2>1. 1 \in 1 .. 2 /\ 1 - 1 = 0 /\ 1 \in Nat /\ 1 < Pow2[1]
      BY SmallPowers
    <2> QED BY <1>2, <1>3, <2>1, FieldRead, FieldWidths
  <1>5. p[2] = at + 3 /\ ReadBits(bytes, at + 1, 2) = 0
    <2>1. 2 \in 1 .. 2 /\ 2 - 1 = 1 /\ 0 \in Nat /\ 0 < Pow2[2] /\ at + 1 \in Nat
      BY SmallPowers
    <2>2. p[2] = (at + 1) + 2 /\ ReadBits(bytes, at + 1, 2) = 0
      BY <1>2, <1>3, <1>4, <2>1, FieldRead, FieldWidths
    <2> QED BY <2>2
  <1>6. ReadBits(bytes, at + 0, 1) = 1
    BY <1>4
  <1>7. ReadMovement(bytes, at, self) = Part(Movement(<<>>), TRUE, at + 3)
    BY ONLY <1>5, <1>6, MovementIs, self \in BOOLEAN, ZenonT(60)
  <1> QED BY <1>3, <1>5, <1>7, Zenon

\* The bit of a player of whom there is nothing to say.
LEMMA NothingRead ==
  ASSUME NEW bytes, NEW at \in Nat, NEW end, NEW self \in BOOLEAN,
         FieldsFrom(bytes, at, <<Flag(FALSE)>>, end)
  PROVE  ReadMovement(bytes, at, self) = Part(Nothing, FALSE, at + 1) /\ end = at + 1
  <1>1. PICK f : f = <<Flag(FALSE)>>
    OBVIOUS
  <1>2. /\ Len(f) = 1
        /\ f[1] = <<1, 0>>
    BY <1>1 DEF Flag
  <1>3. PICK p : p[0] = at /\ p[1] = end /\ FieldsAt(bytes, p, f, 1)
    BY <1>1, <1>2 DEF FieldsFrom
  <1>4. p[1] = at + 1 /\ ReadBits(bytes, at, 1) = 0
    <2>1. 1 \in 1 .. 1 /\ 1 - 1 = 0 /\ 0 \in Nat /\ 0 < Pow2[1]
      BY SmallPowers
    <2> QED BY <1>2, <1>3, <2>1, FieldRead, FieldWidths
  <1>5. ReadBits(bytes, at + 0, 1) = 0
    BY <1>4
  <1>6. ReadMovement(bytes, at, self) = Part(Nothing, FALSE, at + 1)
    BY ONLY <1>5, MovementIs, self \in BOOLEAN, ZenonT(60)
  <1> QED BY <1>3, <1>4, <1>6, Zenon

\* The values that seven bits hold.
Places == 0 .. 127

\* AppendPlacement.
LEMMA PlacementRead ==
  ASSUME NEW bytes, NEW at \in Nat, NEW end, NEW x \in Places, NEW y \in Places,
         NEW d \in BOOLEAN, FieldsFrom(bytes, at, PlacementFields(x, y, d), end)
  PROVE  ReadMovement(bytes, at, TRUE) = Part(Placement(x, y, d), TRUE, at + 21) /\ end = at + 21
  <1> USE DEF Places
  <1>1. PICK f : /\ f = <<Flag(TRUE), <<2, 3>>, <<2, 0>>, Flag(d), Flag(TRUE), <<7, y>>, <<7, x>>>>
                 /\ f = PlacementFields(x, y, d)
    BY DEF PlacementFields
  <1>2. /\ Len(f) = 7
        /\ f[1] = <<1, 1>>
        /\ f[2] = <<2, 3>>
        /\ f[3] = <<2, 0>>
        /\ f[4] = <<1, IF d THEN 1 ELSE 0>>
        /\ f[5] = <<1, 1>>
        /\ f[6] = <<7, y>>
        /\ f[7] = <<7, x>>
    BY <1>1 DEF Flag
  <1>3. PICK p : p[0] = at /\ p[7] = end /\ FieldsAt(bytes, p, f, 7)
    BY <1>1, <1>2 DEF FieldsFrom
  <1>4. PICK v4 : v4 = IF d THEN 1 ELSE 0
    OBVIOUS
  <1>5. v4 \in Nat /\ v4 < 2 /\ f[4] = <<1, v4>> /\ (v4 = 1) = d
    BY <1>2, <1>4, FlagIs
  <1>6. p[1] = at + 1 /\ ReadBits(bytes, at, 1) = 1
    <2>1. 1 \in 1 .. 7 /\ 1 - 1 = 0 /\ 1 \in Nat /\ 1 < Pow2[1]
      BY SmallPowers
    <2> QED BY <1>2, <1>3, <2>1, FieldRead, FieldWidths
  <1>7. p[2] = at + 3 /\ ReadBits(bytes, at + 1, 2) = 3
    <2>1. 2 \in 1 .. 7 /\ 2 - 1 = 1 /\ 3 \in Nat /\ 3 < Pow2[2] /\ at + 1 \in Nat
      BY SmallPowers
    <2>2. p[2] = (at + 1) + 2 /\ ReadBits(bytes, at + 1, 2) = 3
      BY <1>2, <1>3, <1>6, <2>1, FieldRead, FieldWidths
    <2> QED BY <2>2
  <1>8. p[3] = at + 5 /\ ReadBits(bytes, at + 3, 2) = 0
    <2>1. 3 \in 1 .. 7 /\ 3 - 1 = 2 /\ 0 \in Nat /\ 0 < Pow2[2] /\ at + 3 \in Nat
      BY SmallPowers
    <2>2. p[3] = (at + 3) + 2 /\ ReadBits(bytes, at + 3, 2) = 0
      BY <1>2, <1>3, <1>7, <2>1, FieldRead, FieldWidths
    <2> QED BY <2>2
  <1>9. p[4] = at + 6 /\ ReadBits(bytes, at + 5, 1) = v4
    <2>1. 4 \in 1 .. 7 /\ 4 - 1 = 3 /\ v4 \in Nat /\ v4 < Pow2[1] /\ at + 5 \in Nat
      BY <1>5, SmallPowers
    <2>2. p[4] = (at + 5) + 1 /\ ReadBits(bytes, at + 5, 1) = v4
      BY <1>2, <1>3, <1>5, <1>8, <2>1, FieldRead, FieldWidths
    <2> QED BY <2>2
  <1>10. p[5] = at + 7 /\ ReadBits(bytes, at + 6, 1) = 1
    <2>1. 5 \in 1 .. 7 /\ 5 - 1 = 4 /\ 1 \in Nat /\ 1 < Pow2[1] /\ at + 6 \in Nat
      BY SmallPowers
    <2>2. p[5] = (at + 6) + 1 /\ ReadBits(bytes, at + 6, 1) = 1
      BY <1>2, <1>3, <1>9, <2>1, FieldRead, FieldWidths, SMTT(30)
    <2> QED BY <2>2
  <1>11. p[6] = at + 14 /\ ReadBits(bytes, at + 7, 7) = y
    <2>1. 6 \in 1 .. 7 /\ 6 - 1 = 5 /\ y \in Nat /\ y < Pow2[7] /\ at + 7 \in Nat
      BY SmallPowers
    <2>2. p[6] = (at + 7) + 7 /\ ReadBits(bytes, at + 7, 7) = y
      BY <1>2, <1>3, <1>10, <2>1, FieldRead, FieldWidths
    <2> QED BY <2>2
  <1>12. p[7] = at + 21 /\ ReadBits(bytes, at + 14, 7) = x
    <2>1. 7 \in 1 .. 7 /\ 7 - 1 = 6 /\ x \in Nat /\ x < Pow2[7] /\ at + 14 \in Nat
      BY SmallPowers
    <2>2. p[7] = (at + 14) + 7 /\ ReadBits(bytes, at + 14, 7) = x
      BY <1>2, <1>3, <1>11, <2>1, FieldRead, FieldWidths
    <2> QED BY <2>2
  <1>13. ReadBits(bytes, at + 0, 1) = 1
    BY <1>6
  <1>14. ReadMovement(bytes, at, TRUE)
           = Part(Placement(ReadBits(bytes, at + 14, 7), ReadBits(bytes, at + 7, 7),
                            ReadBits(bytes, at + 5, 1) = 1),
                  ReadBits(bytes, at + 6, 1) = 1, at + 21)
    BY ONLY <1>7, <1>13, MovementIs, TRUE \in BOOLEAN, ZenonT(60)
  <1>15. ReadMovement(bytes, at, TRUE) = Part(Placement(x, y, d), TRUE, at + 21)
    BY ONLY <1>5, <1>7, <1>8, <1>9, <1>10, <1>11, <1>12, <1>14, Zenon
  <1> QED BY <1>3, <1>12, <1>15, Zenon

\* The bits of a player who is removed.
LEMMA RemovalRead ==
  ASSUME NEW bytes, NEW at \in Nat, NEW end,
         FieldsFrom(bytes, at, <<Flag(TRUE), <<2, 3>>>>, end)
  PROVE  ReadMovement(bytes, at, FALSE) = Part(Removal, FALSE, at + 3) /\ end = at + 3
  <1>1. PICK f : f = <<Flag(TRUE), <<2, 3>>>>
    OBVIOUS
  <1>2. /\ Len(f) = 2
        /\ f[1] = <<1, 1>>
        /\ f[2] = <<2, 3>>
    BY <1>1 DEF Flag
  <1>3. PICK p : p[0] = at /\ p[2] = end /\ FieldsAt(bytes, p, f, 2)
    BY <1>1, <1>2 DEF FieldsFrom
  <1>4. p[1] = at + 1 /\ ReadBits(bytes, at, 1) = 1
    <2>1. 1 \in 1 .. 2 /\ 1 - 1 = 0 /\ 1 \in Nat /\ 1 < Pow2[1]
      BY SmallPowers
    <2> QED BY <1>2, <1>3, <2>1, FieldRead, FieldWidths
  <1>5. p[2] = at + 3 /\ ReadBits(bytes, at + 1, 2) = 3
    <2>1. 2 \in 1 .. 2 /\ 2 - 1 = 1 /\ 3 \in Nat /\ 3 < Pow2[2] /\ at + 1 \in Nat
      BY SmallPowers
    <2>2. p[2] = (at + 1) + 2 /\ ReadBits(bytes, at + 1, 2) = 3
      BY <1>2, <1>3, <1>4, <2>1, FieldRead, FieldWidths
    <2> QED BY <2>2
  <1>6. ReadBits(bytes, at + 0, 1) = 1
    BY <1>4
  <1>7. ReadMovement(bytes, at, FALSE) = Part(Removal, FALSE, at + 3)
    <2>1. 3 \notin 0 .. 2 /\ 1 # 0
      OBVIOUS
    <2>2. FALSE \in BOOLEAN /\ FALSE # TRUE
      OBVIOUS
    <2> QED BY ONLY <1>5, <1>6, <2>1, <2>2, MovementIs, ZenonT(60)
  <1> QED BY <1>3, <1>5, <1>7, Zenon

\* The value of a field of five bits, read as a signed number.
LEMMA SignedRead ==
  ASSUME NEW bytes, NEW p, NEW fields, NEW n \in Nat, FieldsAt(bytes, p, fields, n),
         NEW k \in 1 .. n, NEW at \in Nat, p[k - 1] = at,
         NEW v \in -16 .. 15, fields[k] = <<5, v>>
  PROVE  p[k] = at + 5 /\ Signed(bytes, at, 5) = v
  <1>1. p[k] = at + 5 /\ ReadBits(bytes, at, 5) = v % Pow2[5]
    BY DEF FieldsAt
  <1>2. ReadBits(bytes, at, 5) = v % 32
    <2>1. Pow2[5] = 32
      BY ONLY SmallPowers
    <2> QED BY ONLY <1>1, <2>1, ZenonT(60)
  <1>3. v % 32 = IF v >= 0 THEN v ELSE v + 32
    OBVIOUS
  <1>4. (IF v % 32 < 16 THEN v % 32 ELSE (v % 32) - 32) = v
    BY <1>3
  <1>5. 5 - 1 = 4
    OBVIOUS
  <1>6. Signed(bytes, at, 5) = IF v % 32 < 16 THEN v % 32 ELSE (v % 32) - 32
    <2>1. Signed(bytes, at, 5) = IF ReadBits(bytes, at, 5) < Pow2[5 - 1] THEN ReadBits(bytes, at, 5)
                                 ELSE ReadBits(bytes, at, 5) - Pow2[5]
      BY ONLY Zenon DEF Signed
    <2>2. Pow2[5 - 1] = 16 /\ Pow2[5] = 32
      BY ONLY <1>5, SmallPowers
    <2> QED BY ONLY <1>2, <2>1, <2>2, Zenon
  <1> QED BY <1>1, <1>4, <1>6, Zenon

\* AddPlayer.
LEMMA AdditionRead ==
  ASSUME NEW bytes, NEW at \in Nat, NEW end,
         NEW slot \in Nat, slot < EndMark, NEW x \in -16 .. 15, NEW y \in -16 .. 15,
         FieldsFrom(bytes, at, <<<<11, slot>>, Flag(TRUE), Flag(TRUE), <<5, y>>, <<5, x>>>>, end)
  PROVE  /\ ReadAddition(bytes, at) = Part(Addition(slot, x, y), TRUE, at + 23) /\ end = at + 23
         /\ ReadBits(bytes, at, 11) # EndMark
  <1>1. PICK f : f = <<<<11, slot>>, Flag(TRUE), Flag(TRUE), <<5, y>>, <<5, x>>>>
    BY ONLY Zenon
  <1>2. /\ Len(f) = 5
        /\ f[1] = <<11, slot>>
        /\ f[2] = <<1, 1>>
        /\ f[3] = <<1, 1>>
        /\ f[4] = <<5, y>>
        /\ f[5] = <<5, x>>
    BY <1>1 DEF Flag
  <1>3. PICK p : p[0] = at /\ p[5] = end /\ FieldsAt(bytes, p, f, 5)
    BY <1>1, <1>2 DEF FieldsFrom
  <1>4. p[1] = at + 11 /\ ReadBits(bytes, at, 11) = slot
    <2>1. 1 \in 1 .. 5 /\ 1 - 1 = 0 /\ slot \in Nat /\ slot < Pow2[11]
      BY SmallPowers DEF EndMark
    <2> QED BY <1>2, <1>3, <2>1, FieldRead, FieldWidths
  <1>5. p[2] = at + 12 /\ ReadBits(bytes, at + 11, 1) = 1
    <2>1. 2 \in 1 .. 5 /\ 2 - 1 = 1 /\ 1 \in Nat /\ 1 < Pow2[1] /\ at + 11 \in Nat
      BY SmallPowers
    <2>2. p[2] = (at + 11) + 1 /\ ReadBits(bytes, at + 11, 1) = 1
      BY <1>2, <1>3, <1>4, <2>1, FieldRead, FieldWidths
    <2> QED BY <2>2
  <1>6. p[3] = at + 13 /\ ReadBits(bytes, at + 12, 1) = 1
    <2>1. 3 \in 1 .. 5 /\ 3 - 1 = 2 /\ 1 \in Nat /\ 1 < Pow2[1] /\ at + 12 \in Nat
      BY SmallPowers
    <2>2. p[3] = (at + 12) + 1 /\ ReadBits(bytes, at + 12, 1) = 1
      BY <1>2, <1>3, <1>5, <2>1, FieldRead, FieldWidths
    <2> QED BY <2>2
  <1>7. p[4] = at + 18 /\ Signed(bytes, at + 13, 5) = y
    <2>1. 4 \in 1 .. 5 /\ 4 - 1 = 3 /\ at + 13 \in Nat
      OBVIOUS
    <2>2. p[4] = (at + 13) + 5 /\ Signed(bytes, at + 13, 5) = y
      BY ONLY <1>2, <1>3, <1>6, <2>1, SignedRead, y \in -16 .. 15, 5 \in Nat, SMTT(30)
    <2> QED BY <2>2
  <1>8. p[5] = at + 23 /\ Signed(bytes, at + 18, 5) = x
    <2>1. 5 \in 1 .. 5 /\ 5 - 1 = 4 /\ at + 18 \in Nat
      OBVIOUS
    <2>2. p[5] = (at + 18) + 5 /\ Signed(bytes, at + 18, 5) = x
      BY ONLY <1>2, <1>3, <1>7, <2>1, SignedRead, x \in -16 .. 15, 5 \in Nat
    <2> QED BY <2>2
  <1>9. slot # EndMark
    BY DEF EndMark
  <1>10. (1 = 1) = TRUE
    OBVIOUS
  <1>11. ReadAddition(bytes, at) = Part(Addition(slot, x, y), TRUE, at + 23)
    <2>1. ReadAddition(bytes, at)
            = Part(Addition(ReadBits(bytes, at, 11), Signed(bytes, at + 18, 5),
                            Signed(bytes, at + 13, 5)),
                   ReadBits(bytes, at + 11, 1) = 1, at + 23)
      BY ONLY Zenon DEF ReadAddition
    <2> QED BY ONLY <1>4, <1>5, <1>7, <1>8, <1>10, <2>1, Zenon
  <1> QED BY ONLY <1>3, <1>4, <1>8, <1>9, <1>11, Zenon

\* The moves of a tick.
LEMMA MoveIs ==
  ASSUME NEW m \in Seq(0 .. 7), Len(m) <= 2
  PROVE  \/ m = <<>> /\ Len(m) = 0
         \/ Len(m) = 1 /\ \E x \in 0 .. 7 : m = <<x>> /\ m[1] = x
         \/ Len(m) = 2 /\ \E x, y \in 0 .. 7 : m = <<x, y>> /\ m[1] = x /\ m[2] = y
  <1>1. Len(m) = 0 \/ Len(m) = 1 \/ Len(m) = 2
    <2>1. Len(m) \in Nat
      OBVIOUS
    <2>2. \A n \in Nat : n <= 2 => n = 0 \/ n = 1 \/ n = 2
      OBVIOUS
    <2> QED BY <2>1, <2>2, Zenon
  <1>2. CASE Len(m) = 0
    BY <1>2
  <1>3. CASE Len(m) = 1
    <2>1. m[1] \in 0 .. 7 /\ m = <<m[1]>>
      BY <1>3
    <2> QED BY <1>3, <2>1
  <1>4. CASE Len(m) = 2
    <2>1. m[1] \in 0 .. 7 /\ m[2] \in 0 .. 7
      <3>1. 1 \in 1 .. Len(m) /\ 2 \in 1 .. Len(m)
        BY <1>4
      <3> QED BY <3>1, ElementOfSeq
    <2>2. m = <<m[1], m[2]>>
      <3>1. m = [k \in 1 .. 2 |-> m[k]]
        BY <1>4
      <3>2. <<m[1], m[2]>> = [k \in 1 .. 2 |-> m[k]]
        OBVIOUS
      <3> QED BY <3>1, <3>2, Zenon
    <2> QED BY <1>4, <2>1, <2>2, Zenon
  <1> QED BY <1>1, <1>2, <1>3, <1>4

\* What MovementFields writes is read as it is meant.
LEMMA MovementRead ==
  ASSUME NEW bytes, NEW at \in Nat, NEW end, NEW m \in Seq(0 .. 7), Len(m) <= 2,
         NEW u, u.needed \in BOOLEAN, NEW self \in BOOLEAN,
         FieldsFrom(bytes, at, MovementFields(m, u), end)
  PROVE  /\ ReadMovement(bytes, at, self) = Part(Meant(m, u), u.needed, end)
         /\ end \in Nat /\ at < end
  <1>0. 0 # 1 /\ 0 # 2 /\ 1 # 2
    OBVIOUS
  <1>1. ASSUME NEW x \in 0 .. 7, NEW y \in 0 .. 7, Len(m) = 2, m = <<x, y>>, m[1] = x, m[2] = y
        PROVE  /\ ReadMovement(bytes, at, self) = Part(Meant(m, u), u.needed, end)
               /\ end \in Nat /\ at < end
    <2>1. m # <<>>
      BY <1>1
    <2>2. MovementFields(m, u) = <<Flag(TRUE), <<2, 2>>, <<3, x>>, <<3, y>>, Flag(u.needed)>>
      BY ONLY <1>0, <1>1, Zenon DEF MovementFields
    <2>3. FieldsFrom(bytes, at, <<Flag(TRUE), <<2, 2>>, <<3, x>>, <<3, y>>, Flag(u.needed)>>, end)
      BY <2>2, Zenon
    <2>4. ReadMovement(bytes, at, self) = Part(Movement(<<x, y>>), u.needed, at + 10) /\ end = at + 10
      BY ONLY <2>3, RunRead, x \in 0 .. 7, y \in 0 .. 7, at \in Nat, u.needed \in BOOLEAN,
              self \in BOOLEAN, ZenonT(120)
    <2>5. Meant(m, u) = Movement(m)
      BY ONLY <2>1, Zenon DEF Meant
    <2>6. ReadMovement(bytes, at, self) = Part(Meant(m, u), u.needed, end)
      BY ONLY <1>1, <2>4, <2>5, Zenon
    <2> QED BY <2>4, <2>6
  <1>2. ASSUME NEW x \in 0 .. 7, Len(m) = 1, m = <<x>>, m[1] = x
        PROVE  /\ ReadMovement(bytes, at, self) = Part(Meant(m, u), u.needed, end)
               /\ end \in Nat /\ at < end
    <2>1. m # <<>>
      BY <1>2
    <2>2. MovementFields(m, u) = <<Flag(TRUE), <<2, 1>>, <<3, x>>, Flag(u.needed)>>
      BY ONLY <1>0, <1>2, Zenon DEF MovementFields
    <2>3. FieldsFrom(bytes, at, <<Flag(TRUE), <<2, 1>>, <<3, x>>, Flag(u.needed)>>, end)
      BY <2>2, Zenon
    <2>4. ReadMovement(bytes, at, self) = Part(Movement(<<x>>), u.needed, at + 7) /\ end = at + 7
      BY ONLY <1>2, <2>3, WalkRead, at \in Nat, u.needed \in BOOLEAN, self \in BOOLEAN, ZenonT(60)
    <2>5. Meant(m, u) = Movement(m)
      BY ONLY <2>1, Zenon DEF Meant
    <2>6. ReadMovement(bytes, at, self) = Part(Meant(m, u), u.needed, end)
      BY ONLY <1>2, <2>4, <2>5, Zenon
    <2> QED BY <2>4, <2>6
  <1>3. ASSUME Len(m) = 0, m = <<>>
        PROVE  /\ ReadMovement(bytes, at, self) = Part(Meant(m, u), u.needed, end)
               /\ end \in Nat /\ at < end
    <2>1. CASE u.needed = TRUE
      <3>1. MovementFields(m, u) = <<Flag(TRUE), <<2, 0>>>> /\ Meant(m, u) = Movement(m)
        BY ONLY <1>0, <1>3, <2>1, Zenon DEF MovementFields, Meant
      <3>2. ReadMovement(bytes, at, self) = Part(Movement(<<>>), TRUE, at + 3) /\ end = at + 3
        BY <3>1, StandRead, Zenon
      <3>3. ReadMovement(bytes, at, self) = Part(Meant(m, u), u.needed, end)
        BY ONLY <1>3, <2>1, <3>1, <3>2, Zenon
      <3>4. end \in Nat /\ at < end
        BY ONLY <3>2, at \in Nat
      <3> QED BY <3>3, <3>4, Zenon
    <2>2. CASE u.needed = FALSE
      <3>1. MovementFields(m, u) = <<Flag(FALSE)>> /\ Meant(m, u) = Nothing
        BY ONLY <1>0, <1>3, <2>2, Zenon DEF MovementFields, Meant
      <3>2. ReadMovement(bytes, at, self) = Part(Nothing, FALSE, at + 1) /\ end = at + 1
        BY <3>1, NothingRead, Zenon
      <3>3. ReadMovement(bytes, at, self) = Part(Meant(m, u), u.needed, end)
        BY ONLY <2>2, <3>1, <3>2, Zenon
      <3>4. end \in Nat /\ at < end
        BY ONLY <3>2, at \in Nat
      <3> QED BY <3>3, <3>4, Zenon
    <2> QED BY <2>1, <2>2, Zenon
  <1> QED BY <1>1, <1>2, <1>3, MoveIs, Zenon

----------------------------------------------------------------------------
(* The reader's loops *)

\* The first k members of a sequence.
First(t, k) == [j \in 1 .. k |-> t[j]]

\* Their number, the last of them, and one more.
LEMMA FirstIs ==
  ASSUME NEW t, NEW k \in Nat
  PROVE  /\ Len(First(t, k)) = k
         /\ k > 0 => First(t, k)[Len(First(t, k))] = t[k]
         /\ \A j \in 1 .. k : First(t, k)[j] = t[j]
         /\ Append(First(t, k), t[k + 1]) = First(t, k + 1)
  <1> DEFINE S == {t[j] : j \in 1 .. k + 1}
             s == First(t, k)
             r == First(t, k + 1)
             a == Append(s, t[k + 1])
  <1>1. s \in Seq(S) /\ Len(s) = k /\ \A j \in 1 .. k : s[j] = t[j]
    BY DEF First
  <1>2. r = [j \in 1 .. k + 1 |-> t[j]]
    BY DEF First
  <1>3. t[k + 1] \in S
    OBVIOUS
  <1> HIDE DEF s, r, S
  <1>4. /\ a \in Seq(S) /\ Len(a) = k + 1
        /\ \A j \in 1 .. k : a[j] = s[j] /\ a[k + 1] = t[k + 1]
    BY <1>1, <1>3
  <1>5. a[k + 1] = t[k + 1]
    BY <1>1, <1>3
  <1> HIDE DEF a
  <1>6. a = [j \in 1 .. k + 1 |-> a[j]]
    BY <1>4
  <1>7. ASSUME NEW j \in 1 .. k + 1 PROVE a[j] = t[j]
    <2>1. j \in 1 .. k \/ j = k + 1
      OBVIOUS
    <2> QED BY <1>1, <1>4, <1>5, <2>1, Zenon
  <1>8. a = r
    BY ONLY <1>2, <1>6, <1>7, Zenon
  <1>9. k > 0 => s[Len(s)] = t[k]
    BY <1>1
  <1> QED BY <1>1, <1>8, <1>9 DEF s, r, a

\* One turn of the reader of parts.
TurnNext(packet, size, n, read) ==
  LET at == read[Len(read)].end
  IN  IF n <= size THEN Append(read, ReadMovement(packet, at, FALSE))
      ELSE IF Len(read) = n /\ MoreAdditions(packet, at)
      THEN Append(read, ReadAddition(packet, at)) ELSE read

\* f gives what has been read after every turn.
TurnsBy(f, packet, self, size, n) ==
  f = [k \in 0 .. n |-> IF k = 0 THEN <<self>> ELSE TurnNext(packet, size, k, f[k - 1])]

\* The function in the definition of ReadParts exists.
LEMMA TurnsExist ==
  ASSUME NEW packet, NEW self, NEW size, NEW n \in Nat
  PROVE  \E f : TurnsBy(f, packet, self, size, n)
  <1> DEFINE S == {m \in Nat : \E f : TurnsBy(f, packet, self, size, m)}
  <1>1. 0 \in S
    <2>1. TurnsBy([k \in 0 .. 0 |-> <<self>>], packet, self, size, 0)
      BY DEF TurnsBy
    <2> QED BY <2>1
  <1>2. ASSUME NEW m \in Nat, m \in S PROVE m + 1 \in S
    <2>1. PICK f : TurnsBy(f, packet, self, size, m)
      BY <1>2
    <2>2. PICK g : g = [k \in 0 .. m + 1 |->
                          IF k = m + 1 THEN TurnNext(packet, size, m + 1, f[m]) ELSE f[k]]
      OBVIOUS
    <2>3. /\ g[m + 1] = TurnNext(packet, size, m + 1, f[m]) /\ g[m + 1 - 1] = f[m]
          /\ \A k \in 0 .. m : g[k] = f[k] /\ (k # 0 => g[k - 1] = f[k - 1])
      BY <2>2, Longer
    <2>4. TurnsBy(g, packet, self, size, m + 1)
      BY <2>1, <2>2, <2>3 DEF TurnsBy
    <2> QED BY <2>4
  <1>3. Nat \subseteq S
    <2> HIDE DEF S
    <2> QED BY <1>1, <1>2, InductionOverNat
  <1> QED BY <1>3

\* What part i is read as, behind part i - 1.
PartIs(packet, parts, size, i) ==
  IF i <= size + 1 THEN parts[i] = ReadMovement(packet, parts[i - 1].end, FALSE)
  ELSE MoreAdditions(packet, parts[i - 1].end) /\ parts[i] = ReadAddition(packet, parts[i - 1].end)

\* Parts of which each is what is read behind the one before, up to a place where there
\* are no more, are the parts the reader finds.
LEMMA PartsRead ==
  ASSUME NEW packet, Len(packet) \in Nat, NEW parts, NEW n \in Nat, n > 0,
         NEW size \in Nat, size + 1 <= n, n <= size + Len(packet),
         parts[1] = ReadSelf(packet), size = ListSize(packet, parts[1]),
         \A i \in 2 .. n : PartIs(packet, parts, size, i),
         ~MoreAdditions(packet, parts[n].end)
  PROVE  ReadParts(packet) = First(parts, n)
  <1> DEFINE all == size + Len(packet)
             f == CHOOSE f : TurnsBy(f, packet, parts[1], size, all)
  <1>0. all \in Nat /\ n <= all
    OBVIOUS
  <1>1. TurnsBy(f, packet, parts[1], size, all)
    BY <1>0, TurnsExist
  <1>2. ReadParts(packet) = f[all]
    BY DEF ReadParts, TurnsBy, TurnNext
  <1> HIDE DEF f, all
  <1> DEFINE Upto(k) == IF k < n THEN k + 1 ELSE n
             S == {k \in Nat : f[k] = First(parts, Upto(k))}
  <1>3. 0 \in S
    <2>1. f[0] = <<parts[1]>>
      BY <1>0, <1>1 DEF TurnsBy
    <2>2. First(parts, 1) = <<parts[1]>>
      BY DEF First
    <2>3. Upto(0) = 1
      OBVIOUS
    <2> QED BY <2>1, <2>2, <2>3
  <1>4. ASSUME NEW k \in 0 .. all - 1, k \in S PROVE k + 1 \in S
    <2>0. k \in Nat /\ k + 1 \in 0 .. all /\ k + 1 # 0 /\ (k + 1) - 1 = k
      BY <1>0
    <2>1. f[k + 1] = TurnNext(packet, size, k + 1, f[k])
      BY <1>1, <2>0 DEF TurnsBy
    <2>2. PICK read : read = f[k]
      OBVIOUS
    <2>3. CASE k + 1 < n
      <3>1. read = First(parts, k + 1) /\ Upto(k + 1) = (k + 1) + 1
        BY <1>4, <2>0, <2>2, <2>3
      <3>2. Len(read) = k + 1 /\ read[Len(read)] = parts[k + 1]
            /\ Append(read, parts[(k + 1) + 1]) = First(parts, (k + 1) + 1)
        <4>1. k + 1 \in Nat /\ k + 1 > 0
          BY <2>0
        <4> QED BY ONLY <3>1, <4>1, FirstIs, Zenon
      <3>3. PICK at : at = parts[k + 1].end
        OBVIOUS
      <3>4. PICK i : i = (k + 1) + 1
        OBVIOUS
      <3>5. PartIs(packet, parts, size, i) /\ parts[i - 1].end = at
        <4>1. i \in 2 .. n /\ i - 1 = k + 1
          BY <2>0, <2>3, <3>4
        <4> QED BY <3>3, <4>1
      <3>6. CASE k + 1 <= size
        <4>1. i <= size + 1
          BY <2>0, <3>4, <3>6
        <4>2. parts[i] = ReadMovement(packet, at, FALSE)
          BY ONLY <3>5, <4>1, Zenon DEF PartIs
        <4>3. f[k + 1] = Append(read, parts[i])
          BY ONLY <2>1, <2>2, <3>2, <3>3, <3>6, <4>2, Zenon DEF TurnNext
        <4>4. f[k + 1] = First(parts, Upto(k + 1))
          BY ONLY <3>1, <3>2, <3>4, <4>3, Zenon
        <4> QED BY <2>0, <4>4
      <3>7. CASE ~(k + 1 <= size)
        <4>1. ~(i <= size + 1)
          BY <2>0, <3>4, <3>7
        <4>2. MoreAdditions(packet, at) /\ parts[i] = ReadAddition(packet, at)
          BY ONLY <3>5, <4>1, Zenon DEF PartIs
        <4>3. f[k + 1] = Append(read, parts[i])
          BY ONLY <2>1, <2>2, <3>2, <3>3, <3>7, <4>2, Zenon DEF TurnNext
        <4>4. f[k + 1] = First(parts, Upto(k + 1))
          BY ONLY <3>1, <3>2, <3>4, <4>3, Zenon
        <4> QED BY <2>0, <4>4
      <3> QED BY <3>6, <3>7
    <2>4. CASE ~(k + 1 < n)
      <3>1. Upto(k) = n /\ Upto(k + 1) = n /\ ~(k + 1 <= size)
        BY <2>0, <2>4
      <3>2. read = First(parts, n)
        BY <1>4, <2>2, <3>1
      <3>3. Len(read) = n /\ read[Len(read)] = parts[n]
        BY <3>2, FirstIs
      <3>4. f[k + 1] = read
        BY ONLY <2>1, <2>2, <3>1, <3>3, ~MoreAdditions(packet, parts[n].end), Zenon DEF TurnNext
      <3> QED BY <2>0, <3>1, <3>2, <3>4
    <2> QED BY <2>3, <2>4
  <1>5. all \in S
    <2> HIDE DEF S
    <2>1. \A k \in 0 .. all : k \in S
      BY <1>0, <1>3, <1>4, InductionUpTo
    <2> QED BY <1>0, <2>1
  <1>6. Upto(all) = n
    BY <1>0
  <1> QED BY <1>2, <1>5, <1>6

\* One turn of the reader of blocks: the block of part n.
BlockAt(packet, part, at) == IF part.update THEN ReadBlock(packet, at) ELSE Block(FALSE, Zero, at)
BlockNext(packet, parts, start, n, read) ==
  Append(read, BlockAt(packet, parts[n], IF n = 1 THEN start ELSE read[n - 1].end))

\* f gives what has been read after every turn.
BlocksBy(f, packet, parts, start, n) ==
  f = [k \in 0 .. n |-> IF k = 0 THEN <<>> ELSE BlockNext(packet, parts, start, k, f[k - 1])]

\* The function in the definition of ReadBlocks exists.
LEMMA BlocksExist ==
  ASSUME NEW packet, NEW parts, NEW start, NEW n \in Nat
  PROVE  \E f : BlocksBy(f, packet, parts, start, n)
  <1> DEFINE S == {m \in Nat : \E f : BlocksBy(f, packet, parts, start, m)}
  <1>1. 0 \in S
    <2>1. BlocksBy([k \in 0 .. 0 |-> <<>>], packet, parts, start, 0)
      BY DEF BlocksBy
    <2> QED BY <2>1
  <1>2. ASSUME NEW m \in Nat, m \in S PROVE m + 1 \in S
    <2>1. PICK f : BlocksBy(f, packet, parts, start, m)
      BY <1>2
    <2>2. PICK g : g = [k \in 0 .. m + 1 |->
                          IF k = m + 1 THEN BlockNext(packet, parts, start, m + 1, f[m]) ELSE f[k]]
      OBVIOUS
    <2>3. /\ g[m + 1] = BlockNext(packet, parts, start, m + 1, f[m]) /\ g[m + 1 - 1] = f[m]
          /\ \A k \in 0 .. m : g[k] = f[k] /\ (k # 0 => g[k - 1] = f[k - 1])
      BY <2>2, Longer
    <2>4. BlocksBy(g, packet, parts, start, m + 1)
      BY <2>1, <2>2, <2>3 DEF BlocksBy
    <2> QED BY <2>4
  <1>3. Nat \subseteq S
    <2> HIDE DEF S
    <2> QED BY <1>1, <1>2, InductionOverNat
  <1> QED BY <1>3

\* Blocks one behind the other.
BlocksFrom(packet, parts, start, blocks, n) ==
  \A i \in 1 .. n :
    blocks[i] = BlockAt(packet, parts[i], IF i = 1 THEN start ELSE blocks[i - 1].end)

\* Blocks of which each is what is read behind the one before are those the reader finds.
LEMMA BlocksRead ==
  ASSUME NEW packet, NEW parts, NEW n \in Nat, Len(parts) = n, NEW start,
         start = (parts[n].end + 11 + 7) \div 8, NEW blocks,
         BlocksFrom(packet, parts, start, blocks, n)
  PROVE  ReadBlocks(packet, parts) = First(blocks, n)
  <1> DEFINE f == CHOOSE f : BlocksBy(f, packet, parts, start, n)
  <1>1. BlocksBy(f, packet, parts, start, n)
    BY BlocksExist
  <1>2. ReadBlocks(packet, parts) = f[n]
    <2>1. ReadBlocks(packet, parts)
            = (CHOOSE g : BlocksBy(g, packet, parts, (parts[Len(parts)].end + 11 + 7) \div 8,
                                   Len(parts)))[Len(parts)]
      BY DEF ReadBlocks, BlocksBy, BlockNext, BlockAt
    <2>2. Len(parts) = n /\ (parts[Len(parts)].end + 11 + 7) \div 8 = start
      BY Zenon
    <2> QED BY ONLY <2>1, <2>2, Zenon
  <1> HIDE DEF f
  <1> DEFINE S == {k \in Nat : f[k] = First(blocks, k)}
  <1>3. 0 \in S
    <2>1. f[0] = <<>>
      BY <1>1 DEF BlocksBy
    <2>2. First(blocks, 0) = <<>>
      BY DEF First
    <2> QED BY <2>1, <2>2
  <1>4. ASSUME NEW k \in 0 .. n - 1, k \in S PROVE k + 1 \in S
    <2>0. k \in Nat /\ k + 1 \in 0 .. n /\ k + 1 # 0 /\ (k + 1) - 1 = k /\ k + 1 \in 1 .. n
          /\ k + 1 \in Nat
      OBVIOUS
    <2>1. f[k + 1] = BlockNext(packet, parts, start, k + 1, f[k])
      BY <1>1, <2>0 DEF BlocksBy
    <2>2. f[k] = First(blocks, k)
      BY <1>4
    <2>3. Append(First(blocks, k), blocks[k + 1]) = First(blocks, k + 1)
      BY <2>0, FirstIs
    <2>4. (IF k + 1 = 1 THEN start ELSE First(blocks, k)[(k + 1) - 1].end)
            = (IF k + 1 = 1 THEN start ELSE blocks[(k + 1) - 1].end)
      <3>1. k + 1 # 1 => k \in 1 .. k
        BY <2>0
      <3>2. \A j \in 1 .. k : First(blocks, k)[j] = blocks[j]
        BY <2>0, FirstIs
      <3> QED BY ONLY <2>0, <3>1, <3>2, Zenon
    <2>5. blocks[k + 1]
            = BlockAt(packet, parts[k + 1], IF k + 1 = 1 THEN start ELSE blocks[(k + 1) - 1].end)
      BY <2>0 DEF BlocksFrom
    <2>6. f[k + 1] = First(blocks, k + 1)
      BY ONLY <2>1, <2>2, <2>3, <2>4, <2>5, Zenon DEF BlockNext
    <2> QED BY <2>0, <2>6
  <1>5. n \in S
    <2> HIDE DEF S
    <2>1. \A k \in 0 .. n : k \in S
      BY <1>3, <1>4, InductionUpTo
    <2> QED BY <2>1
  <1> QED BY <1>2, <1>5

----------------------------------------------------------------------------
(* The inductive invariant *)

\* What can be said of a player.
Placements == {Placement(x, y, discard) : x \in Locals, y \in Locals, discard \in BOOLEAN}
Additions == {Addition(slot, x, y) : slot \in SlotsSent, x \in Offsets, y \in Offsets}
Meanings == {Nothing, Removal} \cup {Movement(m) : m \in Moves} \cup Placements \cup Additions

Sentences == [means : Meanings, update : Updates, end : Nat, attributes : Nat]

PacketTypeOK ==
  /\ stage \in {"other", "header", "bits", "self", "list", "bytes", "block", "size", "sent"}
  /\ listed \in 0 .. MaxParts - 1
  /\ said \in Seq(Sentences) /\ block \in Seq(Bytes)

\* Where part i of the parts s ends, the first of which begins behind the header, and how
\* many bytes of attributes there are with it.
Ended(s, i) == IF i = 0 THEN 24 ELSE s[i].end
Attributes(s, i) == IF i = 0 THEN 0 ELSE s[i].attributes

\* A part as it is meant.
AsMeant(e) == Part(e.means, e.update.needed, e.end)

\* The size of the list that follows the first part.
ListedIn(bytes, s) == ReadBits(bytes, s[1].end - 8, 8)

\* Part i can be read behind the one before it.
PartStored(bytes, s, i) ==
  /\ Ended(s, i - 1) < s[i].end /\ i + 24 <= s[i].end
  /\ i = 1 => s[1].end - 8 \in Nat /\ s[1].end - 8 >= 24
              /\ ReadMovement(bytes, 24, TRUE) = Part(s[1].means, s[1].update.needed, s[1].end - 8)
  /\ i > 1 /\ i <= ListedIn(bytes, s) + 1 =>
       ReadMovement(bytes, Ended(s, i - 1), FALSE) = AsMeant(s[i])
  /\ i > 1 /\ i > ListedIn(bytes, s) + 1 =>
       /\ ReadAddition(bytes, Ended(s, i - 1)) = AsMeant(s[i])
       /\ ReadBits(bytes, Ended(s, i - 1), 11) # EndMark
       /\ s[i].end = Ended(s, i - 1) + 23

\* All of them can, up to a place, and those of the list are as many as it says.
PartsStored(bytes, s, more, place) ==
  /\ \A i \in 1 .. Len(s) : PartStored(bytes, s, i) /\ s[i].end <= place
  /\ s # <<>> => /\ ListedIn(bytes, s) \in Nat
                 /\ ListedIn(bytes, s) + 1 <= Len(s) + more
                 /\ more > 0 => ListedIn(bytes, s) + 1 = Len(s) + more

\* The attributes of the parts are in the block, one behind the other.
BlockStored(s, i, b) ==
  LET state == UpdateState(s[i].update)
  IN  /\ s[i].attributes = Attributes(s, i - 1) + Len(state)
      /\ s[i].attributes <= Len(b)
      /\ \A k \in 1 .. Len(state) : b[Attributes(s, i - 1) + k] = state[k]

BlocksStored(s, b) ==
  /\ \A i \in 1 .. Len(s) : BlockStored(s, i, b)
  /\ Len(b) = Attributes(s, Len(s))

\* The end mark is behind the last part.
Marked(bytes, s, place) ==
  /\ place = Ended(s, Len(s)) + 11
  /\ ReadBits(bytes, Ended(s, Len(s)), 11) = EndMark

\* The bytes that hold so many bits.
Rounded(bits) == (bits + 7) \div 8

\* What has been done at every stage.
StageInv ==
  /\ stage \in {"header", "bits", "self"} => said = <<>> /\ block = <<>>
  /\ stage = "bits" => InBytes /\ pos = 3
  /\ stage = "self" => ~InBytes /\ bitPosition = 24
  /\ stage = "list" => ~InBytes /\ said # <<>> /\ bitPosition = Ended(said, Len(said))
  /\ stage \in {"bytes", "block", "size", "sent"} => said # <<>> /\ listed = 0
  /\ stage \in {"bytes", "block"} => block # <<>> /\ Marked(buffer, said, bitPosition)
  /\ stage = "bytes" => ~InBytes
  /\ stage = "block" => InBytes /\ pos = Rounded(bitPosition)
  /\ stage \in {"size", "sent"} /\ block = <<>> =>
       bitPosition = Ended(said, Len(said)) /\ pos = Rounded(bitPosition)
  /\ stage \in {"size", "sent"} /\ block # <<>> =>
       /\ Marked(buffer, said, bitPosition) /\ pos = Rounded(bitPosition) + Len(block)
       /\ \A k \in 1 .. Len(block) : buffer[Rounded(bitPosition) + k] = block[k]

PacketInv ==
  /\ Inv /\ PacketTypeOK /\ StageInv
  /\ stage # "other" => PartsStored(buffer, said, listed, bitPosition) /\ BlocksStored(said, block)

----------------------------------------------------------------------------
(* Parts stay where they are *)

\* The three kinds of updates.
LEMMA UpdateIs ==
  ASSUME NEW u \in Updates
  PROVE  /\ u.needed \in BOOLEAN /\ u.appearance \in BOOLEAN
         /\ \/ u.needed = FALSE /\ u.appearance = FALSE
            \/ u.needed = TRUE /\ u.appearance = FALSE
            \/ u.needed = TRUE /\ u.appearance = TRUE /\ u.name \in Names
  <1>1. u = NoUpdate \/ u = FlagsOnly \/ \E name \in Names : u = Appearance(name)
    BY Zenon DEF Updates, Forced
  <1>2. CASE u = NoUpdate
    <2>1. u.needed = FALSE /\ u.appearance = FALSE
      BY <1>2 DEF NoUpdate
    <2> QED BY <2>1, Zenon
  <1>3. CASE u = FlagsOnly
    <2>1. u.needed = TRUE /\ u.appearance = FALSE
      BY <1>3 DEF FlagsOnly
    <2> QED BY <2>1, Zenon
  <1>4. ASSUME NEW name \in Names, u = Appearance(name)
        PROVE  u.needed = TRUE /\ u.appearance = TRUE /\ u.name \in Names
    BY <1>4 DEF Appearance
  <1> QED BY <1>1, <1>2, <1>3, <1>4, Zenon

\* What is kept of a part.
LEMMA SentenceIs ==
  ASSUME NEW s \in Seq(Sentences), NEW i \in 1 .. Len(s)
  PROVE  /\ s[i] \in Sentences /\ s[i].end \in Nat /\ s[i].attributes \in Nat
         /\ s[i].update \in Updates /\ s[i].update.needed \in BOOLEAN
  <1>1. s[i] \in Sentences
    BY ElementOfSeq
  <1>2. s[i].end \in Nat /\ s[i].attributes \in Nat /\ s[i].update \in Updates
    BY <1>1 DEF Sentences
  <1> QED BY <1>1, <1>2, UpdateIs

\* The fields of a part that is read.
LEMMA PartFields ==
  ASSUME NEW m, NEW b, NEW e
  PROVE  Part(m, b, e).means = m /\ Part(m, b, e).update = b /\ Part(m, b, e).end = e
  BY DEF Part

\* The end of the part before.
LEMMA EndedIs ==
  ASSUME NEW s \in Seq(Sentences), NEW bytes, NEW i \in 1 .. Len(s),
         \A j \in 1 .. Len(s) : PartStored(bytes, s, j)
  PROVE  Ended(s, i - 1) \in Nat /\ Ended(s, i - 1) >= 24
  <1>1. CASE i = 1
    BY <1>1 DEF Ended
  <1>2. CASE i # 1
    <2>1. i - 1 \in 1 .. Len(s) /\ i - 1 # 0
      BY <1>2
    <2>2. s[i - 1].end \in Nat /\ (i - 1) + 24 <= s[i - 1].end
      BY <2>1, SentenceIs DEF PartStored
    <2>3. Ended(s, i - 1) = s[i - 1].end
      BY <2>1 DEF Ended
    <2> QED BY <2>1, <2>2, <2>3
  <1> QED BY <1>1, <1>2

\* The size of the list is read from the same bits.
LEMMA ListedSame ==
  ASSUME NEW s \in Seq(Sentences), NEW new, NEW old, NEW place \in Nat, s # <<>>,
         \A j \in 1 .. Len(s) : PartStored(old, s, j) /\ s[j].end <= place,
         SameBits(new, old, 24, place)
  PROVE  ListedIn(new, s) = ListedIn(old, s)
  <1>1. 1 \in 1 .. Len(s)
    OBVIOUS
  <1>2. s[1].end \in Nat /\ s[1].end - 8 \in Nat /\ s[1].end - 8 >= 24 /\ s[1].end <= place
    BY <1>1, SentenceIs DEF PartStored
  <1>3. PICK at : at = s[1].end - 8
    OBVIOUS
  <1>4. at \in Nat /\ at >= 24 /\ at + 8 <= place
    BY <1>2, <1>3
  <1>5. \A j \in Nat : at <= j /\ j < at + 8 => Bit(new, j) = Bit(old, j)
    BY <1>4 DEF SameBits
  <1>6. ReadBits(new, at, 8) = ReadBits(old, at, 8)
    BY <1>4, <1>5, ReadSame
  <1> QED BY <1>3, <1>6, Zenon DEF ListedIn

\* A part is read from the same bits.
LEMMA PartStays ==
  ASSUME NEW s \in Seq(Sentences), NEW new, NEW old, NEW place \in Nat,
         \A j \in 1 .. Len(s) : PartStored(old, s, j) /\ s[j].end <= place,
         SameBits(new, old, 24, place), NEW i \in 1 .. Len(s)
  PROVE  PartStored(new, s, i)
  <1>1. PICK at : at = Ended(s, i - 1)
    OBVIOUS
  <1>2. at \in Nat /\ at >= 24
    BY <1>1, EndedIs
  <1>3. s # <<>>
    OBVIOUS
  <1>4. ListedIn(new, s) = ListedIn(old, s)
    BY <1>3, ListedSame
  <1>5. s[i].end \in Nat /\ s[i].end <= place /\ PartStored(old, s, i)
    BY SentenceIs
  <1>6. SameBits(new, old, at, place)
    BY <1>2 DEF SameBits
  <1>7. i = 1 => s[1].end - 8 \in Nat /\ s[1].end - 8 >= 24 /\ s[1].end - 8 <= place
                 /\ ReadMovement(old, 24, TRUE) = Part(s[1].means, s[1].update.needed, s[1].end - 8)
    <2> SUFFICES ASSUME i = 1
                 PROVE  /\ s[1].end - 8 \in Nat /\ s[1].end - 8 >= 24 /\ s[1].end - 8 <= place
                        /\ ReadMovement(old, 24, TRUE)
                             = Part(s[1].means, s[1].update.needed, s[1].end - 8)
      BY Zenon
    <2>1. /\ s[1].end - 8 \in Nat /\ s[1].end - 8 >= 24
          /\ ReadMovement(old, 24, TRUE) = Part(s[1].means, s[1].update.needed, s[1].end - 8)
      BY <1>5, Zenon DEF PartStored
    <2>2. s[1].end \in Nat /\ s[1].end <= place
      BY <1>5
    <2>3. s[1].end - 8 <= place
      BY <2>2
    <2> QED BY <2>1, <2>3, Zenon
  <1>8. i = 1 => ReadMovement(new, 24, TRUE) = Part(s[1].means, s[1].update.needed, s[1].end - 8)
    <2> SUFFICES ASSUME i = 1 PROVE ReadMovement(new, 24, TRUE) = ReadMovement(old, 24, TRUE)
      BY <1>7, Zenon
    <2>1. ReadMovement(old, 24, TRUE).end = s[1].end - 8
      <3>1. Part(s[1].means, s[1].update.needed, s[1].end - 8).end = s[1].end - 8
        BY ONLY PartFields
      <3> QED BY ONLY <1>7, i = 1, <3>1, Zenon
    <2>2. ReadMovement(old, 24, TRUE).end <= place
      BY <1>7, <2>1
    <2>3. 24 \in Nat /\ TRUE \in BOOLEAN
      OBVIOUS
    <2> QED BY ONLY <2>2, <2>3, SameBits(new, old, 24, place), place \in Nat, MovementSame, ZenonT(60)
  <1>9. i > 1 /\ i <= ListedIn(old, s) + 1 => ReadMovement(new, at, FALSE) = AsMeant(s[i])
    <2> SUFFICES ASSUME i > 1, i <= ListedIn(old, s) + 1 PROVE ReadMovement(new, at, FALSE) = AsMeant(s[i])
      BY Zenon
    <2>1. ReadMovement(old, at, FALSE) = AsMeant(s[i])
      BY <1>1, <1>5, Zenon DEF PartStored
    <2>2. ReadMovement(old, at, FALSE).end = s[i].end
      <3>1. Part(s[i].means, s[i].update.needed, s[i].end).end = s[i].end
        BY ONLY PartFields
      <3> QED BY ONLY <2>1, <3>1, Zenon DEF AsMeant
    <2>3. ReadMovement(old, at, FALSE).end <= place /\ FALSE \in BOOLEAN
      BY <1>5, <2>2
    <2> QED BY ONLY <1>2, <1>6, <2>1, <2>3, place \in Nat, MovementSame, ZenonT(60)
  <1>10. i > 1 /\ i > ListedIn(old, s) + 1 =>
          /\ ReadAddition(new, at) = AsMeant(s[i]) /\ ReadBits(new, at, 11) # EndMark
          /\ s[i].end = at + 23
    <2> SUFFICES ASSUME i > 1, i > ListedIn(old, s) + 1
                 PROVE  /\ ReadAddition(new, at) = AsMeant(s[i]) /\ ReadBits(new, at, 11) # EndMark
                        /\ s[i].end = at + 23
      BY Zenon
    <2>1. /\ ReadAddition(old, at) = AsMeant(s[i]) /\ ReadBits(old, at, 11) # EndMark
          /\ s[i].end = at + 23
      BY <1>1, <1>5, Zenon DEF PartStored
    <2>2. at + 23 <= place
      BY <1>5, <2>1
    <2> QED BY ONLY <1>2, <1>6, <2>1, <2>2, place \in Nat, AdditionSame, ZenonT(60)
  <1> QED BY ONLY <1>1, <1>4, <1>5, <1>7, <1>8, <1>9, <1>10, ZenonT(60) DEF PartStored

\* All parts are read from the same bits.
LEMMA PartsStay ==
  ASSUME NEW s \in Seq(Sentences), NEW new, NEW old, NEW more \in Nat,
         NEW place \in Nat, NEW to \in Nat, place <= to,
         PartsStored(old, s, more, place), SameBits(new, old, 24, place)
  PROVE  PartsStored(new, s, more, to)
  <1>1. \A j \in 1 .. Len(s) : PartStored(old, s, j) /\ s[j].end <= place
    BY DEF PartsStored
  <1>2. ASSUME NEW j \in 1 .. Len(s) PROVE PartStored(new, s, j) /\ s[j].end <= to
    <2>1. PartStored(new, s, j)
      BY <1>1, PartStays
    <2>2. s[j].end \in Nat /\ s[j].end <= place
      BY <1>1, SentenceIs
    <2> QED BY <2>1, <2>2
  <1>3. s # <<>> => ListedIn(new, s) = ListedIn(old, s)
    BY <1>1, ListedSame
  <1> QED BY <1>2, <1>3 DEF PartsStored

----------------------------------------------------------------------------
(* Parts and blocks are added *)

\* The members of a sequence with one more.
LEMMA Appended ==
  ASSUME NEW S, NEW s \in Seq(S), NEW e \in S
  PROVE  /\ Append(s, e) \in Seq(S) /\ Len(Append(s, e)) = Len(s) + 1 /\ Len(s) \in Nat
         /\ \A i \in 1 .. Len(s) : Append(s, e)[i] = s[i]
         /\ Append(s, e)[Len(s) + 1] = e
  OBVIOUS

\* The first part, with the size of the list.
LEMMA SelfAdded ==
  ASSUME NEW e \in Sentences, NEW bytes, NEW more \in Nat, NEW at \in Nat, e.end = at + 8, at > 24,
         ReadMovement(bytes, 24, TRUE) = Part(e.means, e.update.needed, at),
         ReadBits(bytes, at, 8) = more
  PROVE  PartsStored(bytes, <<e>>, more, e.end)
  <1>1. PICK s : s = <<e>>
    OBVIOUS
  <1>2. Len(s) = 1 /\ s[1] = e /\ s # <<>>
    BY <1>1
  <1>3. e.end - 8 = at /\ e.end \in Nat /\ 24 < e.end /\ 1 + 24 <= e.end
    OBVIOUS
  <1>4. ListedIn(bytes, s) = more
    BY ONLY <1>2, <1>3, ReadBits(bytes, at, 8) = more, Zenon DEF ListedIn
  <1>5. PartStored(bytes, s, 1)
    <2>1. Ended(s, 1 - 1) = 24 /\ ~(1 > 1) /\ at >= 24
      BY DEF Ended
    <2> QED BY ONLY <1>2, <1>3, <2>1, at \in Nat, Zenon,
               ReadMovement(bytes, 24, TRUE) = Part(e.means, e.update.needed, at) DEF PartStored
  <1>6. \A i \in 1 .. 1 : i = 1
    OBVIOUS
  <1>7. e.end <= e.end /\ more + 1 <= 1 + more /\ more + 1 = 1 + more
    BY <1>3
  <1>8. PartsStored(bytes, s, more, e.end)
    BY ONLY <1>2, <1>4, <1>5, <1>6, <1>7, more \in Nat, Zenon DEF PartsStored
  <1> QED BY <1>1, <1>8, Zenon

\* A part of the list, or a new player, behind the last part.
LEMMA PartAdded ==
  ASSUME NEW s \in Seq(Sentences), s # <<>>, NEW e \in Sentences, NEW new, NEW old,
         NEW more \in Nat, NEW left \in Nat, NEW at \in Nat, at = Ended(s, Len(s)),
         PartsStored(old, s, more, at), SameBits(new, old, 24, at), at < e.end,
         \/ more > 0 /\ left = more - 1 /\ ReadMovement(new, at, FALSE) = AsMeant(e)
         \/ /\ more = 0 /\ left = 0
            /\ ReadAddition(new, at) = AsMeant(e) /\ ReadBits(new, at, 11) # EndMark
            /\ e.end = at + 23
  PROVE  PartsStored(new, Append(s, e), left, e.end)
  <1> DEFINE n == Len(s)
  <1>1. PICK t : t = Append(s, e)
    OBVIOUS
  <1>2. /\ t \in Seq(Sentences) /\ Len(t) = n + 1 /\ n \in Nat
        /\ \A i \in 1 .. n : t[i] = s[i]
        /\ t[n + 1] = e
    BY <1>1, Appended
  <1>3. n > 0 /\ 1 \in 1 .. n /\ n \in 1 .. n
    BY <1>2
  <1>4. PartsStored(new, s, more, at)
    <2>1. at <= at
      OBVIOUS
    <2> QED BY <2>1, PartsStay
  <1>5. PICK L : L = ListedIn(new, s)
    OBVIOUS
  <1>6. L \in Nat /\ L + 1 <= n + more /\ (more > 0 => L + 1 = n + more)
    BY <1>4, <1>5 DEF PartsStored
  <1>7. ListedIn(new, t) = L
    BY ONLY <1>2, <1>3, <1>5, Zenon DEF ListedIn
  <1>8. \A i \in 0 .. n : Ended(t, i) = Ended(s, i)
    <2> TAKE i \in 0 .. n
    <2>1. i = 0 \/ i \in 1 .. n
      BY <1>2
    <2> QED BY ONLY <1>2, <2>1, Zenon DEF Ended
  <1>9. e.end \in Nat
    BY DEF Sentences
  <1>10. n + 24 <= at
    <2>1. PartStored(new, s, n) /\ n # 0
      BY <1>3, <1>4 DEF PartsStored
    <2>2. n + 24 <= s[n].end
      BY <2>1 DEF PartStored
    <2>3. Ended(s, n) = s[n].end
      BY ONLY <2>1, Zenon DEF Ended
    <2> QED BY <2>2, <2>3
  <1>11. ASSUME NEW i \in 1 .. n PROVE PartStored(new, t, i) /\ t[i].end <= e.end
    <2>1. PartStored(new, s, i) /\ s[i].end <= at
      BY <1>4 DEF PartsStored
    <2>2. i - 1 \in 0 .. n
      BY <1>2
    <2>3. t[i] = s[i] /\ t[1] = s[1] /\ Ended(t, i - 1) = Ended(s, i - 1)
      BY <1>2, <1>3, <1>8, <2>2
    <2>4. PartStored(new, t, i)
      BY ONLY <1>5, <1>7, <2>1, <2>3, ZenonT(60) DEF PartStored
    <2>5. s[i].end \in Nat
      BY SentenceIs
    <2>6. s[i].end <= e.end
      BY <1>9, <2>1, <2>5
    <2> QED BY <2>3, <2>4, <2>6, Zenon
  <1>12. PartStored(new, t, n + 1) /\ t[n + 1].end <= e.end
    <2>1. PICK k : k = n + 1
      OBVIOUS
    <2>2. /\ t[k] = e /\ k - 1 = n /\ Ended(t, k - 1) = at /\ k # 1 /\ k > 1
          /\ k + 24 <= e.end /\ at < e.end
      <3>1. k - 1 = n /\ n \in 0 .. n /\ k # 1 /\ k > 1 /\ k + 24 <= e.end
        BY <1>2, <1>3, <1>9, <1>10, <2>1
      <3>2. Ended(t, n) = at
        BY <1>8, <3>1, Zenon
      <3> QED BY <1>2, <2>1, <3>1, <3>2, Zenon
    <2>3. ASSUME more > 0, left = more - 1, ReadMovement(new, at, FALSE) = AsMeant(e)
          PROVE  PartStored(new, t, k)
      <3>1. k <= L + 1 /\ ~(k > L + 1)
        BY <1>2, <1>6, <2>1, <2>3
      <3> QED BY ONLY <1>7, <2>2, <2>3, <3>1, ZenonT(60) DEF PartStored
    <2>4. ASSUME more = 0, left = 0, ReadAddition(new, at) = AsMeant(e),
                 ReadBits(new, at, 11) # EndMark, e.end = at + 23
          PROVE  PartStored(new, t, k)
      <3>1. ~(k <= L + 1) /\ k > L + 1
        BY <1>2, <1>6, <2>1, <2>4
      <3> QED BY ONLY <1>7, <2>2, <2>4, <3>1, ZenonT(60) DEF PartStored
    <2>5. PartStored(new, t, k)
      BY <2>3, <2>4, Zenon
    <2>6. e.end <= e.end
      BY <1>9
    <2> QED BY <1>2, <2>1, <2>5, <2>6, Zenon
  <1>13. \A i \in 1 .. n + 1 : i \in 1 .. n \/ i = n + 1
    BY <1>2
  <1>14. \A i \in 1 .. Len(t) : PartStored(new, t, i) /\ t[i].end <= e.end
    BY ONLY <1>2, <1>11, <1>12, <1>13, Zenon
  <1>15. L + 1 <= (n + 1) + left /\ (left > 0 => L + 1 = (n + 1) + left)
    <2>1. (more > 0 /\ left = more - 1) \/ (more = 0 /\ left = 0)
      BY Zenon
    <2> QED BY ONLY <1>2, <1>6, <2>1, more \in Nat, left \in Nat
  <1>16. PartsStored(new, t, left, e.end)
    BY ONLY <1>2, <1>6, <1>7, <1>14, <1>15, Zenon DEF PartsStored
  <1> QED BY <1>1, <1>16, Zenon

\* Two sequences, one behind the other.
LEMMA Joined ==
  ASSUME NEW S, NEW a \in Seq(S), NEW b \in Seq(S)
  PROVE  /\ a \o b \in Seq(S) /\ Len(a \o b) = Len(a) + Len(b)
         /\ Len(a) \in Nat /\ Len(b) \in Nat
         /\ \A k \in 1 .. Len(a) : (a \o b)[k] = a[k]
         /\ \A k \in 1 .. Len(b) : (a \o b)[Len(a) + k] = b[k]
  OBVIOUS

\* The attributes of one more part.
LEMMA BlockAdded ==
  ASSUME NEW s \in Seq(Sentences), NEW e \in Sentences, NEW b \in Seq(Bytes),
         NEW state \in Seq(Bytes), state = UpdateState(e.update),
         BlocksStored(s, b), e.attributes = Len(b \o state)
  PROVE  BlocksStored(Append(s, e), b \o state)
  <1> DEFINE n == Len(s)
  <1>1. PICK t, c : t = Append(s, e) /\ c = b \o state
    OBVIOUS
  <1>2. /\ Len(t) = n + 1 /\ n \in Nat
        /\ \A i \in 1 .. n : t[i] = s[i]
        /\ t[n + 1] = e
    BY <1>1, Appended
  <1>3. /\ Len(c) = Len(b) + Len(state) /\ Len(b) \in Nat /\ Len(state) \in Nat
        /\ \A k \in 1 .. Len(b) : c[k] = b[k]
        /\ \A k \in 1 .. Len(state) : c[Len(b) + k] = state[k]
    <2>1. /\ Len(b \o state) = Len(b) + Len(state) /\ Len(b) \in Nat /\ Len(state) \in Nat
          /\ \A k \in 1 .. Len(b) : (b \o state)[k] = b[k]
          /\ \A k \in 1 .. Len(state) : (b \o state)[Len(b) + k] = state[k]
      BY ONLY Joined, b \in Seq(Bytes), state \in Seq(Bytes)
    <2> QED BY ONLY <1>1, <2>1, Zenon
  <1>4. \A i \in 0 .. n : Attributes(t, i) = Attributes(s, i)
    <2> TAKE i \in 0 .. n
    <2>1. i = 0 \/ i \in 1 .. n
      BY <1>2
    <2> QED BY ONLY <1>2, <2>1, Zenon DEF Attributes
  <1>5. Len(b) = Attributes(s, n)
    BY DEF BlocksStored
  <1>6. ASSUME NEW i \in 1 .. n PROVE BlockStored(t, i, c)
    <2>1. PICK r, a, z : r = UpdateState(s[i].update) /\ a = Attributes(s, i - 1) /\ z = s[i].attributes
      OBVIOUS
    <2>2. /\ z = a + Len(r) /\ z <= Len(b) /\ \A k \in 1 .. Len(r) : b[a + k] = r[k]
      BY ONLY <2>1, BlocksStored(s, b), i \in 1 .. n, Zenon DEF BlocksStored, BlockStored
    <2>3. z \in Nat /\ a \in Nat
      <3>1. z \in Nat
        BY <2>1, SentenceIs
      <3>2. CASE i = 1
        <4>1. i - 1 = 0 /\ 0 \in Nat
          BY <3>2
        <4> QED BY <2>1, <3>1, <4>1, Zenon DEF Attributes
      <3>3. CASE i # 1
        <4>1. i - 1 \in 1 .. n /\ i - 1 # 0
          BY <1>2, <3>3
        <4>2. s[i - 1].attributes \in Nat
          BY <4>1, SentenceIs
        <4> QED BY <2>1, <3>1, <4>1, <4>2, Zenon DEF Attributes
      <3> QED BY <3>1, <3>2, <3>3
    <2>4. i - 1 \in 0 .. n
      BY <1>2
    <2>5. t[i] = s[i] /\ Attributes(t, i - 1) = a
      BY <1>2, <1>4, <2>1, <2>4
    <2>6. z <= Len(c)
      BY <1>3, <2>2, <2>3
    <2>7. ASSUME NEW k \in 1 .. Len(r) PROVE c[a + k] = r[k]
      <3>1. a + k \in 1 .. Len(b)
        BY <1>3, <2>2, <2>3
      <3> QED BY <1>3, <2>2, <3>1
    <2> QED BY ONLY <2>1, <2>2, <2>5, <2>6, <2>7, Zenon DEF BlockStored
  <1>7. BlockStored(t, n + 1, c)
    <2>1. PICK k : k = n + 1
      OBVIOUS
    <2>2. k - 1 = n /\ n \in 0 .. n
      BY <1>2, <2>1
    <2>3. t[k] = e /\ Attributes(t, k - 1) = Len(b)
      BY <1>2, <1>4, <1>5, <2>1, <2>2
    <2>4. e.attributes = Len(b) + Len(state) /\ e.attributes <= Len(c)
      BY <1>1, <1>3
    <2>5. BlockStored(t, k, c)
      BY ONLY <1>3, <2>3, <2>4, state = UpdateState(e.update), Zenon DEF BlockStored
    <2> QED BY <2>1, <2>5
  <1>8. Len(c) = Attributes(t, n + 1)
    <2>1. n + 1 # 0
      BY <1>2
    <2>2. Attributes(t, n + 1) = e.attributes
      BY ONLY <1>2, <2>1, Zenon DEF Attributes
    <2> QED BY <1>1, <2>2
  <1>9. \A i \in 1 .. n + 1 : i \in 1 .. n \/ i = n + 1
    BY <1>2
  <1>10. BlocksStored(t, c)
    BY ONLY <1>2, <1>6, <1>7, <1>8, <1>9, Zenon DEF BlocksStored
  <1> QED BY <1>1, <1>10, Zenon

----------------------------------------------------------------------------
(* PlayerNameToInt64: the recursive functions *)

\* One byte of the product, and one of the quotient.
TimesNext(l, k, before) ==
  LET n == l[9 - k] * Base + before.carry
  IN  [carry |-> n \div 256, bytes |-> <<n % 256>> \o before.bytes]
DividedNext(l, k, before) ==
  LET n == l[k] + 256 * before.rest
  IN  [rest |-> n % Base, bytes |-> Append(before.bytes, n \div Base)]

\* One turn of the loop that strips zeros, one character counted, one taken off again.
StripNext(n) == IF Strips(n) THEN Divided(n).bytes ELSE n
NumberNext(name, k, before) == TimesPlus(before, CharacterValue(name[k]))
NameNext(n) ==
  IF n.left = Zero THEN n
  ELSE [left |-> Divided(n.left).bytes, name |-> <<Divided(n.left).rest>> \o n.name]

\* f gives the carry and the bytes of a product, from the lowest on.
TimesBy(f, l, v, n) ==
  f = [k \in 0 .. n |-> IF k = 0 THEN [carry |-> v, bytes |-> <<>>] ELSE TimesNext(l, k, f[k - 1])]

\* There is such a function.
LEMMA TimesExist ==
  ASSUME NEW l, NEW v, NEW n \in Nat
  PROVE  \E f : TimesBy(f, l, v, n)
  <1> DEFINE S == {m \in Nat : \E f : TimesBy(f, l, v, m)}
  <1>1. 0 \in S
    <2>1. TimesBy([k \in 0 .. 0 |-> [carry |-> v, bytes |-> <<>>]], l, v, 0)
      BY DEF TimesBy
    <2> QED BY <2>1
  <1>2. ASSUME NEW m \in Nat, m \in S PROVE m + 1 \in S
    <2>1. PICK f : TimesBy(f, l, v, m)
      BY <1>2
    <2>2. PICK g : g = [k \in 0 .. m + 1 |-> IF k = m + 1 THEN TimesNext(l, m + 1, f[m]) ELSE f[k]]
      OBVIOUS
    <2>3. /\ g[m + 1] = TimesNext(l, m + 1, f[m]) /\ g[m + 1 - 1] = f[m]
          /\ \A k \in 0 .. m : g[k] = f[k] /\ (k # 0 => g[k - 1] = f[k - 1])
      BY <2>2, Longer
    <2>4. TimesBy(g, l, v, m + 1)
      BY <2>1, <2>2, <2>3 DEF TimesBy
    <2> QED BY <2>4
  <1>3. Nat \subseteq S
    <2> HIDE DEF S
    <2> QED BY <1>1, <1>2, InductionOverNat
  <1> QED BY <1>3

\* f gives the rest and the bytes of a quotient, from the highest on.
DividedBy(f, l, n) ==
  f = [k \in 0 .. n |-> IF k = 0 THEN [rest |-> 0, bytes |-> <<>>] ELSE DividedNext(l, k, f[k - 1])]

\* There is such a function.
LEMMA DividedExist ==
  ASSUME NEW l, NEW n \in Nat
  PROVE  \E f : DividedBy(f, l, n)
  <1> DEFINE S == {m \in Nat : \E f : DividedBy(f, l, m)}
  <1>1. 0 \in S
    <2>1. DividedBy([k \in 0 .. 0 |-> [rest |-> 0, bytes |-> <<>>]], l, 0)
      BY DEF DividedBy
    <2> QED BY <2>1
  <1>2. ASSUME NEW m \in Nat, m \in S PROVE m + 1 \in S
    <2>1. PICK f : DividedBy(f, l, m)
      BY <1>2
    <2>2. PICK g : g = [k \in 0 .. m + 1 |-> IF k = m + 1 THEN DividedNext(l, m + 1, f[m]) ELSE f[k]]
      OBVIOUS
    <2>3. /\ g[m + 1] = DividedNext(l, m + 1, f[m]) /\ g[m + 1 - 1] = f[m]
          /\ \A k \in 0 .. m : g[k] = f[k] /\ (k # 0 => g[k - 1] = f[k - 1])
      BY <2>2, Longer
    <2>4. DividedBy(g, l, m + 1)
      BY <2>1, <2>2, <2>3 DEF DividedBy
    <2> QED BY <2>4
  <1>3. Nat \subseteq S
    <2> HIDE DEF S
    <2> QED BY <1>1, <1>2, InductionOverNat
  <1> QED BY <1>3

\* f gives the number after every turn of the while loop.
StripsBy(f, l, n) ==
  f = [k \in 0 .. n |-> IF k = 0 THEN l ELSE StripNext(f[k - 1])]

\* There is such a function.
LEMMA StripsExist ==
  ASSUME NEW l, NEW n \in Nat
  PROVE  \E f : StripsBy(f, l, n)
  <1> DEFINE S == {m \in Nat : \E f : StripsBy(f, l, m)}
  <1>1. 0 \in S
    <2>1. StripsBy([k \in 0 .. 0 |-> l], l, 0)
      BY DEF StripsBy
    <2> QED BY <2>1
  <1>2. ASSUME NEW m \in Nat, m \in S PROVE m + 1 \in S
    <2>1. PICK f : StripsBy(f, l, m)
      BY <1>2
    <2>2. PICK g : g = [k \in 0 .. m + 1 |-> IF k = m + 1 THEN StripNext(f[m]) ELSE f[k]]
      OBVIOUS
    <2>3. /\ g[m + 1] = StripNext(f[m]) /\ g[m + 1 - 1] = f[m]
          /\ \A k \in 0 .. m : g[k] = f[k] /\ (k # 0 => g[k - 1] = f[k - 1])
      BY <2>2, Longer
    <2>4. StripsBy(g, l, m + 1)
      BY <2>1, <2>2, <2>3 DEF StripsBy
    <2> QED BY <2>4
  <1>3. Nat \subseteq S
    <2> HIDE DEF S
    <2> QED BY <1>1, <1>2, InductionOverNat
  <1> QED BY <1>3

\* f gives the number of the first characters of a name.
NumbersOfBy(f, name, n) ==
  f = [k \in 0 .. n |-> IF k = 0 THEN Zero ELSE NumberNext(name, k, f[k - 1])]

\* There is such a function.
LEMMA NumbersOfExist ==
  ASSUME NEW name, NEW n \in Nat
  PROVE  \E f : NumbersOfBy(f, name, n)
  <1> DEFINE S == {m \in Nat : \E f : NumbersOfBy(f, name, m)}
  <1>1. 0 \in S
    <2>1. NumbersOfBy([k \in 0 .. 0 |-> Zero], name, 0)
      BY DEF NumbersOfBy
    <2> QED BY <2>1
  <1>2. ASSUME NEW m \in Nat, m \in S PROVE m + 1 \in S
    <2>1. PICK f : NumbersOfBy(f, name, m)
      BY <1>2
    <2>2. PICK g : g = [k \in 0 .. m + 1 |-> IF k = m + 1 THEN NumberNext(name, m + 1, f[m]) ELSE f[k]]
      OBVIOUS
    <2>3. /\ g[m + 1] = NumberNext(name, m + 1, f[m]) /\ g[m + 1 - 1] = f[m]
          /\ \A k \in 0 .. m : g[k] = f[k] /\ (k # 0 => g[k - 1] = f[k - 1])
      BY <2>2, Longer
    <2>4. NumbersOfBy(g, name, m + 1)
      BY <2>1, <2>2, <2>3 DEF NumbersOfBy
    <2> QED BY <2>4
  <1>3. Nat \subseteq S
    <2> HIDE DEF S
    <2> QED BY <1>1, <1>2, InductionOverNat
  <1> QED BY <1>3

\* f gives what is left of a number, and the characters taken off it.
NamesBy(f, l, n) ==
  f = [k \in 0 .. n |-> IF k = 0 THEN [left |-> l, name |-> <<>>] ELSE NameNext(f[k - 1])]

\* There is such a function.
LEMMA NamesExist ==
  ASSUME NEW l, NEW n \in Nat
  PROVE  \E f : NamesBy(f, l, n)
  <1> DEFINE S == {m \in Nat : \E f : NamesBy(f, l, m)}
  <1>1. 0 \in S
    <2>1. NamesBy([k \in 0 .. 0 |-> [left |-> l, name |-> <<>>]], l, 0)
      BY DEF NamesBy
    <2> QED BY <2>1
  <1>2. ASSUME NEW m \in Nat, m \in S PROVE m + 1 \in S
    <2>1. PICK f : NamesBy(f, l, m)
      BY <1>2
    <2>2. PICK g : g = [k \in 0 .. m + 1 |-> IF k = m + 1 THEN NameNext(f[m]) ELSE f[k]]
      OBVIOUS
    <2>3. /\ g[m + 1] = NameNext(f[m]) /\ g[m + 1 - 1] = f[m]
          /\ \A k \in 0 .. m : g[k] = f[k] /\ (k # 0 => g[k - 1] = f[k - 1])
      BY <2>2, Longer
    <2>4. NamesBy(g, l, m + 1)
      BY <2>1, <2>2, <2>3 DEF NamesBy
    <2> QED BY <2>4
  <1>3. Nat \subseteq S
    <2> HIDE DEF S
    <2> QED BY <1>1, <1>2, InductionOverNat
  <1> QED BY <1>3

\* f gives the powers of a number.
PowerBy(f, b, n) ==
  f = [k \in 0 .. n |-> IF k = 0 THEN 1 ELSE b * f[k - 1]]

\* There is such a function.
LEMMA PowerExist ==
  ASSUME NEW b, NEW n \in Nat
  PROVE  \E f : PowerBy(f, b, n)
  <1> DEFINE S == {m \in Nat : \E f : PowerBy(f, b, m)}
  <1>1. 0 \in S
    <2>1. PowerBy([k \in 0 .. 0 |-> 1], b, 0)
      BY DEF PowerBy
    <2> QED BY <2>1
  <1>2. ASSUME NEW m \in Nat, m \in S PROVE m + 1 \in S
    <2>1. PICK f : PowerBy(f, b, m)
      BY <1>2
    <2>2. PICK g : g = [k \in 0 .. m + 1 |-> IF k = m + 1 THEN b * f[m] ELSE f[k]]
      OBVIOUS
    <2>3. /\ g[m + 1] = b * f[m] /\ g[m + 1 - 1] = f[m]
          /\ \A k \in 0 .. m : g[k] = f[k] /\ (k # 0 => g[k - 1] = f[k - 1])
      BY <2>2, Longer
    <2>4. PowerBy(g, b, m + 1)
      BY <2>1, <2>2, <2>3 DEF PowerBy
    <2> QED BY <2>4
  <1>3. Nat \subseteq S
    <2> HIDE DEF S
    <2> QED BY <1>1, <1>2, InductionOverNat
  <1> QED BY <1>3

----------------------------------------------------------------------------
(* PlayerNameToInt64: multiplication and division *)

\* Numbers of eight bytes, and digits in base 37.
IsLong(l) == l \in Seq(Bytes) /\ Len(l) = 8
Digits == 0 .. 36

\* A sequence with one member more at the front.
LEMMA Prepended ==
  ASSUME NEW S, NEW x \in S, NEW b \in Seq(S)
  PROVE  /\ <<x>> \o b \in Seq(S) /\ Len(<<x>> \o b) = Len(b) + 1
         /\ (<<x>> \o b)[1] = x
         /\ \A j \in 1 .. Len(b) : (<<x>> \o b)[j + 1] = b[j]
  OBVIOUS

\* The bytes of a long.
LEMMA LongIs ==
  ASSUME NEW l, IsLong(l), NEW k \in 1 .. 8
  PROVE  l[k] \in Bytes /\ l[k] \in Nat /\ l[k] < 256
  <1>1. l[k] \in Bytes
    BY ElementOfSeq DEF IsLong
  <1> QED BY <1>1 DEF Bytes

\* One byte of a product: what it is, and what is carried, which is again a digit.
LEMMA ByteTimes ==
  ASSUME NEW b \in Nat, b < 256, NEW d \in Digits, NEW n, n = b * Base + d
  PROVE  /\ n \in Nat /\ n % 256 \in Bytes /\ n \div 256 \in Digits
         /\ b * 37 + d = 256 * (n \div 256) + (n % 256)
  BY DEF Base, Bytes, Digits

\* A byte of a quotient.
LEMMA ByteDivided ==
  ASSUME NEW b \in Nat, NEW d \in Digits, NEW n, n = b * 37 + d
  PROVE  n % Base = d /\ n \div Base = b
  BY DEF Base, Digits

\* Every byte of a product, with what is carried to it and what it carries on.
Carries(l, r, c) ==
  /\ \A k \in 0 .. 8 : c[k] \in Digits
  /\ \A k \in 1 .. 8 : l[9 - k] * 37 + c[k - 1] = 256 * c[k] + r[9 - k]

\* Multiplying a long by 37 and adding a digit is done so.
LEMMA TimesPlusIs ==
  ASSUME NEW l, IsLong(l), NEW v \in Digits
  PROVE  /\ IsLong(TimesPlus(l, v))
         /\ \E c : c[0] = v /\ Carries(l, TimesPlus(l, v), c)
  <1> DEFINE f == CHOOSE f : TimesBy(f, l, v, 8)
             c == [k \in 0 .. 8 |-> f[k].carry]
             B(k) == f[k].bytes
             N(k) == l[9 - k] * Base + c[k - 1]
  <1>1. TimesBy(f, l, v, 8)
    BY TimesExist
  <1>2. TimesPlus(l, v) = B(8)
    BY DEF TimesPlus, TimesBy, TimesNext
  <1> HIDE DEF f
  <1>3. c[0] = v /\ B(0) = <<>>
    BY <1>1 DEF TimesBy
  <1>4. ASSUME NEW k \in 0 .. 7
        PROVE  c[k + 1] = N(k + 1) \div 256 /\ B(k + 1) = <<N(k + 1) % 256>> \o B(k)
    <2>1. k + 1 \in 0 .. 8 /\ k \in 0 .. 8 /\ k + 1 # 0 /\ (k + 1) - 1 = k
      OBVIOUS
    <2>2. f[k + 1] = TimesNext(l, k + 1, f[k])
      BY <1>1, <2>1 DEF TimesBy
    <2>3. c[k] = f[k].carry /\ c[k + 1] = f[k + 1].carry
      BY <2>1
    <2> HIDE DEF c
    <2>4. PICK n : n = l[9 - (k + 1)] * Base + f[k].carry
      OBVIOUS
    <2>5. f[k + 1] = [carry |-> n \div 256, bytes |-> <<n % 256>> \o f[k].bytes]
      BY ONLY <2>2, <2>4, Zenon DEF TimesNext
    <2>6. n = N(k + 1)
      BY ONLY <2>1, <2>3, <2>4, Zenon
    <2>7. f[k + 1].carry = n \div 256 /\ f[k + 1].bytes = <<n % 256>> \o f[k].bytes
      BY ONLY <2>5
    <2> QED BY ONLY <2>3, <2>6, <2>7, Zenon
  <1> HIDE DEF c, B
  <1>5. ASSUME NEW k \in 0 .. 7, c[k] \in Digits
        PROVE  /\ c[k + 1] \in Digits /\ N(k + 1) % 256 \in Bytes
               /\ l[9 - (k + 1)] * 37 + c[k] = 256 * c[k + 1] + (N(k + 1) % 256)
    <2>1. PICK b : b = l[9 - (k + 1)]
      OBVIOUS
    <2>2. b \in Nat /\ b < 256
      <3>1. 9 - (k + 1) \in 1 .. 8
        OBVIOUS
      <3> QED BY <2>1, <3>1, LongIs
    <2>3. (k + 1) - 1 = k
      OBVIOUS
    <2>4. N(k + 1) = b * Base + c[k]
      BY ONLY <2>1, <2>3, Zenon
    <2> HIDE DEF N
    <2>5. /\ N(k + 1) % 256 \in Bytes /\ N(k + 1) \div 256 \in Digits
          /\ b * 37 + c[k] = 256 * (N(k + 1) \div 256) + (N(k + 1) % 256)
      BY ONLY <1>5, <2>2, <2>4, ByteTimes
    <2> QED BY ONLY <1>4, <2>1, <2>5, k \in 0 .. 7, ZenonT(60)
  <1> HIDE DEF N
  <1> DEFINE Good(m) == /\ \A k \in 0 .. m : c[k] \in Digits
                        /\ B(m) \in Seq(Bytes) /\ Len(B(m)) = m
                        /\ \A k \in 1 .. m : B(m)[m + 1 - k] = N(k) % 256
             S == {m \in Nat : Good(m)}
  <1>6. 0 \in S
    <2>1. c[0] \in Digits
      BY <1>3
    <2>2. B(0) \in Seq(Bytes) /\ Len(B(0)) = 0
      <3>1. <<>> \in Seq(Bytes) /\ Len(<<>>) = 0
        OBVIOUS
      <3> QED BY <1>3, <3>1, Zenon
    <2> QED BY <2>1, <2>2
  <1>7. ASSUME NEW m \in 0 .. 8 - 1, m \in S PROVE m + 1 \in S
    <2>0. m \in 0 .. 7 /\ m \in Nat /\ m \in 0 .. m
      OBVIOUS
    <2>1. Good(m)
      BY <1>7
    <2>2. c[m] \in Digits
      BY <2>0, <2>1
    <2>3. c[m + 1] \in Digits /\ N(m + 1) % 256 \in Bytes
      BY <1>5, <2>0, <2>2
    <2>4. PICK x, b, d : x = N(m + 1) % 256 /\ b = B(m) /\ d = B(m + 1)
      OBVIOUS
    <2>5. x \in Bytes /\ b \in Seq(Bytes) /\ Len(b) = m /\ d = <<x>> \o b
      BY <1>4, <2>0, <2>1, <2>3, <2>4, ZenonT(60)
    <2>6. d \in Seq(Bytes) /\ Len(d) = m + 1 /\ d[1] = x /\ \A j \in 1 .. m : d[j + 1] = b[j]
      BY <2>5, Prepended
    <2>7. \A k \in 0 .. m + 1 : c[k] \in Digits
      <3>1. \A k \in 0 .. m + 1 : k \in 0 .. m \/ k = m + 1
        OBVIOUS
      <3> QED BY ONLY <2>1, <2>3, <3>1, Zenon
    <2>8. ASSUME NEW k \in 1 .. m + 1 PROVE d[(m + 1) + 1 - k] = N(k) % 256
      <3>1. CASE k = m + 1
        <4>1. (m + 1) + 1 - k = 1
          BY <3>1
        <4> QED BY <2>4, <2>6, <3>1, <4>1, Zenon
      <3>2. CASE k # m + 1
        <4>1. k \in 1 .. m
          BY <3>2
        <4>2. m + 1 - k \in 1 .. m /\ (m + 1 - k) + 1 = (m + 1) + 1 - k
          BY <4>1
        <4>3. d[(m + 1 - k) + 1] = b[m + 1 - k]
          BY <2>6, <4>2
        <4>4. b[m + 1 - k] = N(k) % 256
          BY <2>1, <2>4, <4>1
        <4> QED BY <4>2, <4>3, <4>4
      <3> QED BY <3>1, <3>2
    <2>9. Good(m + 1)
      BY ONLY <2>4, <2>6, <2>7, <2>8, ZenonT(60)
    <2> HIDE DEF Good
    <2> QED BY <2>0, <2>9
  <1>8. Good(8)
    <2>1. 8 \in S
      <3> HIDE DEF S
      <3>1. \A k \in 0 .. 8 : k \in S
        BY <1>6, <1>7, InductionUpTo
      <3> QED BY <3>1
    <2> HIDE DEF Good
    <2> QED BY <2>1
  <1>9. ASSUME NEW k \in 1 .. 8
        PROVE  l[9 - k] * 37 + c[k - 1] = 256 * c[k] + B(8)[9 - k]
    <2>1. PICK j : j = k - 1
      OBVIOUS
    <2>2. j \in 0 .. 7 /\ j + 1 = k /\ j \in 0 .. 8 /\ 8 + 1 - k = 9 - k
      BY <2>1
    <2>3. c[j] \in Digits
      BY <1>8, <2>2
    <2>4. l[9 - (j + 1)] * 37 + c[j] = 256 * c[j + 1] + (N(j + 1) % 256)
      BY <1>5, <2>2, <2>3
    <2>5. B(8)[8 + 1 - k] = N(k) % 256
      BY <1>8
    <2> QED BY ONLY <2>1, <2>2, <2>4, <2>5, ZenonT(60)
  <1>10. IsLong(B(8))
    BY <1>8 DEF IsLong
  <1>11. Carries(l, B(8), c)
    BY <1>8, <1>9, Zenon DEF Carries
  <1> QED BY <1>2, <1>3, <1>10, <1>11, Zenon

\* Dividing takes a product without a last carry apart again.
LEMMA DividedIs ==
  ASSUME NEW l, IsLong(l), NEW r, IsLong(r), NEW c, Carries(l, r, c), c[8] = 0
  PROVE  Divided(r) = [rest |-> c[0], bytes |-> l]
  <1> DEFINE f == CHOOSE f : DividedBy(f, r, 8)
  <1>1. DividedBy(f, r, 8)
    BY DividedExist
  <1>2. Divided(r) = f[8]
    BY DEF Divided, DividedBy, DividedNext
  <1> HIDE DEF f
  <1> DEFINE S == {j \in Nat : f[j] = [rest |-> c[8 - j], bytes |-> First(l, j)]}
  <1>3. 0 \in S
    <2>1. f[0] = [rest |-> 0, bytes |-> <<>>]
      BY <1>1 DEF DividedBy
    <2>2. First(l, 0) = <<>> /\ 8 - 0 = 8
      BY DEF First
    <2>3. f[0] = [rest |-> c[8 - 0], bytes |-> First(l, 0)]
      BY ONLY <2>1, <2>2, c[8] = 0, Zenon
    <2> QED BY <2>3
  <1>4. ASSUME NEW j \in 0 .. 8 - 1, j \in S PROVE j + 1 \in S
    <2>0. /\ j \in Nat /\ j + 1 \in 0 .. 8 /\ j + 1 # 0 /\ (j + 1) - 1 = j /\ j + 1 \in 1 .. 8
          /\ 8 - j \in 1 .. 8 /\ 9 - (8 - j) = j + 1 /\ (8 - j) - 1 = 8 - (j + 1)
          /\ 8 - (j + 1) \in 0 .. 8 /\ 8 - j \in 0 .. 8
      OBVIOUS
    <2>1. f[j + 1] = DividedNext(r, j + 1, f[j])
      BY <1>1, <2>0 DEF DividedBy
    <2>2. PICK d, e, b, x : d = c[8 - j] /\ e = c[8 - (j + 1)] /\ b = l[j + 1] /\ x = r[j + 1]
      OBVIOUS
    <2>3. l[9 - (8 - j)] * 37 + c[(8 - j) - 1] = 256 * c[8 - j] + r[9 - (8 - j)]
      BY <2>0 DEF Carries
    <2>4. b * 37 + e = 256 * d + x
      BY ONLY <2>0, <2>2, <2>3, ZenonT(60)
    <2>5. d \in Digits /\ e \in Digits /\ b \in Nat /\ b < 256
      BY <2>0, <2>2, LongIs DEF Carries
    <2>6. PICK n : n = x + 256 * d
      OBVIOUS
    <2>7. n = b * 37 + e
      <3>1. x \in Nat
        BY <2>0, <2>2, LongIs
      <3> QED BY ONLY <2>4, <2>5, <2>6, <3>1 DEF Digits
    <2>8. n % Base = e /\ n \div Base = b
      BY <2>5, <2>7, ByteDivided
    <2>9. f[j] = [rest |-> d, bytes |-> First(l, j)]
      BY <1>4, <2>2
    <2>10. f[j].rest = d /\ f[j].bytes = First(l, j)
      BY ONLY <2>9
    <2>11. f[j + 1] = [rest |-> n % Base, bytes |-> Append(First(l, j), n \div Base)]
      BY ONLY <2>1, <2>2, <2>6, <2>10, ZenonT(60) DEF DividedNext
    <2>12. Append(First(l, j), l[j + 1]) = First(l, j + 1)
      BY <2>0, FirstIs
    <2>13. f[j + 1] = [rest |-> c[8 - (j + 1)], bytes |-> First(l, j + 1)]
      BY ONLY <2>2, <2>8, <2>11, <2>12, Zenon
    <2> QED BY <2>0, <2>13
  <1>5. f[8] = [rest |-> c[8 - 8], bytes |-> First(l, 8)]
    <2>1. \A k \in 0 .. 8 : k \in S
      <3> HIDE DEF S
      <3> QED BY <1>3, <1>4, InductionUpTo
    <2>2. 8 \in S
      BY <2>1
    <2> QED BY <2>2
  <1>6. First(l, 8) = l
    BY DEF First, IsLong
  <1>7. 8 - 8 = 0
    OBVIOUS
  <1> QED BY ONLY <1>2, <1>5, <1>6, <1>7, Zenon

----------------------------------------------------------------------------
(* PlayerNameToInt64: values *)

\* One byte more: the number that eight bytes stand for.
Shift(a) == 256 * a
Up(a, b) == 256 * a + b
Value(l) ==
  Up(Up(Up(Up(Up(Up(Up(l[1], l[2]), l[3]), l[4]), l[5]), l[6]), l[7]), l[8])

\* A carry out of the highest byte, and the first number that eight bytes do not hold.
Over(c) == Shift(Shift(Shift(Shift(Shift(Shift(Shift(Shift(c))))))))
Top == Over(1)

\* The value of a product.
LEMMA ValueTimes ==
  ASSUME NEW l, IsLong(l), NEW r, IsLong(r), NEW c, Carries(l, r, c)
  PROVE  37 * Value(l) + c[0] = Value(r) + Over(c[8])
  <1>1. \A k \in 1 .. 8 : l[k] \in Int /\ r[k] \in Int
    BY LongIs
  <1>2. \A k \in 0 .. 8 : c[k] \in Int
    BY DEF Carries, Digits
  <1>3. \A k \in 1 .. 8 : l[9 - k] * 37 + c[k - 1] = Shift(c[k]) + r[9 - k]
    BY DEF Carries, Shift
  <1>0. PICK t1 : t1 = Shift(c[8])
    OBVIOUS
  <1>4. l[1] \in Int /\ r[1] \in Int /\ t1 \in Int /\ 37 * l[1] + c[7] = r[1] + t1
    <2>1. l[9 - 8] * 37 + c[8 - 1] = Shift(c[8]) + r[9 - 8]
      BY ONLY <1>3
    <2>2. l[1] \in Int /\ r[1] \in Int /\ c[8] \in Int /\ c[7] \in Int
      BY ONLY <1>1, <1>2
    <2>3. l[1] * 37 + c[7] = Shift(c[8]) + r[1]
      BY ONLY <2>1
    <2> QED BY ONLY <1>0, <2>2, <2>3 DEF Shift
  <1>5. PICK a2, p2, t2 : a2 = Up(l[1], l[2]) /\ p2 = Up(r[1], r[2]) /\ t2 = Shift(t1)
    OBVIOUS
  <1>6. /\ a2 \in Int /\ p2 \in Int /\ t2 \in Int
        /\ 37 * a2 + c[6] = p2 + t2
    <2>1. l[9 - 7] * 37 + c[7 - 1] = Shift(c[7]) + r[9 - 7]
      BY ONLY <1>3
    <2>2. l[2] * 37 + c[6] = Shift(c[7]) + r[2]
      BY ONLY <2>1
    <2>3. l[2] \in Int /\ r[2] \in Int /\ c[6] \in Int /\ c[7] \in Int
      BY ONLY <1>1, <1>2
    <2>4. PICK a, p, b, q, d, e : /\ a = l[1] /\ p = r[1]
                                  /\ b = l[2] /\ q = r[2] /\ d = c[6] /\ e = c[7]
      OBVIOUS
    <2>5. /\ a \in Int /\ p \in Int /\ t1 \in Int /\ 37 * a + e = p + t1
          /\ b \in Int /\ q \in Int /\ d \in Int /\ e \in Int /\ b * 37 + d = Shift(e) + q
          /\ a2 = Up(a, b) /\ p2 = Up(p, q) /\ t2 = Shift(t1)
      BY ONLY <1>4, <1>5, <2>2, <2>3, <2>4, Zenon
    <2>6. a2 \in Int /\ p2 \in Int /\ t2 \in Int /\ 37 * a2 + d = p2 + t2
      BY ONLY <2>5 DEF Up, Shift
    <2> QED BY ONLY <2>4, <2>6, Zenon
  <1>7. PICK a3, p3, t3 : a3 = Up(a2, l[3]) /\ p3 = Up(p2, r[3]) /\ t3 = Shift(t2)
    OBVIOUS
  <1>8. /\ a3 \in Int /\ p3 \in Int /\ t3 \in Int
        /\ 37 * a3 + c[5] = p3 + t3
    <2>1. l[9 - 6] * 37 + c[6 - 1] = Shift(c[6]) + r[9 - 6]
      BY ONLY <1>3
    <2>2. l[3] * 37 + c[5] = Shift(c[6]) + r[3]
      BY ONLY <2>1
    <2>3. l[3] \in Int /\ r[3] \in Int /\ c[5] \in Int /\ c[6] \in Int
      BY ONLY <1>1, <1>2
    <2>4. PICK a, p, b, q, d, e : /\ a = a2 /\ p = p2
                                  /\ b = l[3] /\ q = r[3] /\ d = c[5] /\ e = c[6]
      OBVIOUS
    <2>5. /\ a \in Int /\ p \in Int /\ t2 \in Int /\ 37 * a + e = p + t2
          /\ b \in Int /\ q \in Int /\ d \in Int /\ e \in Int /\ b * 37 + d = Shift(e) + q
          /\ a3 = Up(a, b) /\ p3 = Up(p, q) /\ t3 = Shift(t2)
      BY ONLY <1>6, <1>7, <2>2, <2>3, <2>4, Zenon
    <2>6. a3 \in Int /\ p3 \in Int /\ t3 \in Int /\ 37 * a3 + d = p3 + t3
      BY ONLY <2>5 DEF Up, Shift
    <2> QED BY ONLY <2>4, <2>6, Zenon
  <1>9. PICK a4, p4, t4 : a4 = Up(a3, l[4]) /\ p4 = Up(p3, r[4]) /\ t4 = Shift(t3)
    OBVIOUS
  <1>10. /\ a4 \in Int /\ p4 \in Int /\ t4 \in Int
        /\ 37 * a4 + c[4] = p4 + t4
    <2>1. l[9 - 5] * 37 + c[5 - 1] = Shift(c[5]) + r[9 - 5]
      BY ONLY <1>3
    <2>2. l[4] * 37 + c[4] = Shift(c[5]) + r[4]
      BY ONLY <2>1
    <2>3. l[4] \in Int /\ r[4] \in Int /\ c[4] \in Int /\ c[5] \in Int
      BY ONLY <1>1, <1>2
    <2>4. PICK a, p, b, q, d, e : /\ a = a3 /\ p = p3
                                  /\ b = l[4] /\ q = r[4] /\ d = c[4] /\ e = c[5]
      OBVIOUS
    <2>5. /\ a \in Int /\ p \in Int /\ t3 \in Int /\ 37 * a + e = p + t3
          /\ b \in Int /\ q \in Int /\ d \in Int /\ e \in Int /\ b * 37 + d = Shift(e) + q
          /\ a4 = Up(a, b) /\ p4 = Up(p, q) /\ t4 = Shift(t3)
      BY ONLY <1>8, <1>9, <2>2, <2>3, <2>4, Zenon
    <2>6. a4 \in Int /\ p4 \in Int /\ t4 \in Int /\ 37 * a4 + d = p4 + t4
      BY ONLY <2>5 DEF Up, Shift
    <2> QED BY ONLY <2>4, <2>6, Zenon
  <1>11. PICK a5, p5, t5 : a5 = Up(a4, l[5]) /\ p5 = Up(p4, r[5]) /\ t5 = Shift(t4)
    OBVIOUS
  <1>12. /\ a5 \in Int /\ p5 \in Int /\ t5 \in Int
        /\ 37 * a5 + c[3] = p5 + t5
    <2>1. l[9 - 4] * 37 + c[4 - 1] = Shift(c[4]) + r[9 - 4]
      BY ONLY <1>3
    <2>2. l[5] * 37 + c[3] = Shift(c[4]) + r[5]
      BY ONLY <2>1
    <2>3. l[5] \in Int /\ r[5] \in Int /\ c[3] \in Int /\ c[4] \in Int
      BY ONLY <1>1, <1>2
    <2>4. PICK a, p, b, q, d, e : /\ a = a4 /\ p = p4
                                  /\ b = l[5] /\ q = r[5] /\ d = c[3] /\ e = c[4]
      OBVIOUS
    <2>5. /\ a \in Int /\ p \in Int /\ t4 \in Int /\ 37 * a + e = p + t4
          /\ b \in Int /\ q \in Int /\ d \in Int /\ e \in Int /\ b * 37 + d = Shift(e) + q
          /\ a5 = Up(a, b) /\ p5 = Up(p, q) /\ t5 = Shift(t4)
      BY ONLY <1>10, <1>11, <2>2, <2>3, <2>4, Zenon
    <2>6. a5 \in Int /\ p5 \in Int /\ t5 \in Int /\ 37 * a5 + d = p5 + t5
      BY ONLY <2>5 DEF Up, Shift
    <2> QED BY ONLY <2>4, <2>6, Zenon
  <1>13. PICK a6, p6, t6 : a6 = Up(a5, l[6]) /\ p6 = Up(p5, r[6]) /\ t6 = Shift(t5)
    OBVIOUS
  <1>14. /\ a6 \in Int /\ p6 \in Int /\ t6 \in Int
        /\ 37 * a6 + c[2] = p6 + t6
    <2>1. l[9 - 3] * 37 + c[3 - 1] = Shift(c[3]) + r[9 - 3]
      BY ONLY <1>3
    <2>2. l[6] * 37 + c[2] = Shift(c[3]) + r[6]
      BY ONLY <2>1
    <2>3. l[6] \in Int /\ r[6] \in Int /\ c[2] \in Int /\ c[3] \in Int
      BY ONLY <1>1, <1>2
    <2>4. PICK a, p, b, q, d, e : /\ a = a5 /\ p = p5
                                  /\ b = l[6] /\ q = r[6] /\ d = c[2] /\ e = c[3]
      OBVIOUS
    <2>5. /\ a \in Int /\ p \in Int /\ t5 \in Int /\ 37 * a + e = p + t5
          /\ b \in Int /\ q \in Int /\ d \in Int /\ e \in Int /\ b * 37 + d = Shift(e) + q
          /\ a6 = Up(a, b) /\ p6 = Up(p, q) /\ t6 = Shift(t5)
      BY ONLY <1>12, <1>13, <2>2, <2>3, <2>4, Zenon
    <2>6. a6 \in Int /\ p6 \in Int /\ t6 \in Int /\ 37 * a6 + d = p6 + t6
      BY ONLY <2>5 DEF Up, Shift
    <2> QED BY ONLY <2>4, <2>6, Zenon
  <1>15. PICK a7, p7, t7 : a7 = Up(a6, l[7]) /\ p7 = Up(p6, r[7]) /\ t7 = Shift(t6)
    OBVIOUS
  <1>16. /\ a7 \in Int /\ p7 \in Int /\ t7 \in Int
        /\ 37 * a7 + c[1] = p7 + t7
    <2>1. l[9 - 2] * 37 + c[2 - 1] = Shift(c[2]) + r[9 - 2]
      BY ONLY <1>3
    <2>2. l[7] * 37 + c[1] = Shift(c[2]) + r[7]
      BY ONLY <2>1
    <2>3. l[7] \in Int /\ r[7] \in Int /\ c[1] \in Int /\ c[2] \in Int
      BY ONLY <1>1, <1>2
    <2>4. PICK a, p, b, q, d, e : /\ a = a6 /\ p = p6
                                  /\ b = l[7] /\ q = r[7] /\ d = c[1] /\ e = c[2]
      OBVIOUS
    <2>5. /\ a \in Int /\ p \in Int /\ t6 \in Int /\ 37 * a + e = p + t6
          /\ b \in Int /\ q \in Int /\ d \in Int /\ e \in Int /\ b * 37 + d = Shift(e) + q
          /\ a7 = Up(a, b) /\ p7 = Up(p, q) /\ t7 = Shift(t6)
      BY ONLY <1>14, <1>15, <2>2, <2>3, <2>4, Zenon
    <2>6. a7 \in Int /\ p7 \in Int /\ t7 \in Int /\ 37 * a7 + d = p7 + t7
      BY ONLY <2>5 DEF Up, Shift
    <2> QED BY ONLY <2>4, <2>6, Zenon
  <1>17. PICK a8, p8, t8 : a8 = Up(a7, l[8]) /\ p8 = Up(p7, r[8]) /\ t8 = Shift(t7)
    OBVIOUS
  <1>18. /\ a8 \in Int /\ p8 \in Int /\ t8 \in Int
        /\ 37 * a8 + c[0] = p8 + t8
    <2>1. l[9 - 1] * 37 + c[1 - 1] = Shift(c[1]) + r[9 - 1]
      BY ONLY <1>3
    <2>2. l[8] * 37 + c[0] = Shift(c[1]) + r[8]
      BY ONLY <2>1
    <2>3. l[8] \in Int /\ r[8] \in Int /\ c[0] \in Int /\ c[1] \in Int
      BY ONLY <1>1, <1>2
    <2>4. PICK a, p, b, q, d, e : /\ a = a7 /\ p = p7
                                  /\ b = l[8] /\ q = r[8] /\ d = c[0] /\ e = c[1]
      OBVIOUS
    <2>5. /\ a \in Int /\ p \in Int /\ t7 \in Int /\ 37 * a + e = p + t7
          /\ b \in Int /\ q \in Int /\ d \in Int /\ e \in Int /\ b * 37 + d = Shift(e) + q
          /\ a8 = Up(a, b) /\ p8 = Up(p, q) /\ t8 = Shift(t7)
      BY ONLY <1>16, <1>17, <2>2, <2>3, <2>4, Zenon
    <2>6. a8 \in Int /\ p8 \in Int /\ t8 \in Int /\ 37 * a8 + d = p8 + t8
      BY ONLY <2>5 DEF Up, Shift
    <2> QED BY ONLY <2>4, <2>6, Zenon
  <1>19. Value(l) = a8 /\ Value(r) = p8
    BY ONLY <1>5, <1>7, <1>9, <1>11, <1>13, <1>15, <1>17, Zenon DEF Value
  <1>20. Over(c[8]) = t8
    BY ONLY <1>0, <1>5, <1>7, <1>9, <1>11, <1>13, <1>15, <1>17, Zenon DEF Over
  <1> QED BY ONLY <1>18, <1>19, <1>20, Zenon

\* Values are natural numbers; zero is the value of Zero only.
LEMMA ValueIs ==
  ASSUME NEW l, IsLong(l)
  PROVE  /\ Value(l) \in Nat
         /\ Value(l) = 0 => l = Zero
         /\ l = Zero => Value(l) = 0
  <1>1. \A k \in 1 .. 8 : l[k] \in Nat
    BY LongIs
  <1>2. /\ l[1] \in Nat /\ l[2] \in Nat /\ l[3] \in Nat /\ l[4] \in Nat
        /\ l[5] \in Nat /\ l[6] \in Nat /\ l[7] \in Nat /\ l[8] \in Nat
    BY ONLY <1>1
  <1>3. PICK a2 : a2 = Up(l[1], l[2])
    OBVIOUS
  <1>4. a2 \in Nat /\ (a2 = 0 => l[1] = 0 /\ l[2] = 0) /\ (l[1] = 0 /\ l[2] = 0 => a2 = 0)
    BY ONLY <1>2, <1>3 DEF Up
  <1>5. PICK a3 : a3 = Up(a2, l[3])
    OBVIOUS
  <1>6. a3 \in Nat /\ (a3 = 0 => a2 = 0 /\ l[3] = 0) /\ (a2 = 0 /\ l[3] = 0 => a3 = 0)
    BY ONLY <1>2, <1>4, <1>5 DEF Up
  <1>7. PICK a4 : a4 = Up(a3, l[4])
    OBVIOUS
  <1>8. a4 \in Nat /\ (a4 = 0 => a3 = 0 /\ l[4] = 0) /\ (a3 = 0 /\ l[4] = 0 => a4 = 0)
    BY ONLY <1>2, <1>6, <1>7 DEF Up
  <1>9. PICK a5 : a5 = Up(a4, l[5])
    OBVIOUS
  <1>10. a5 \in Nat /\ (a5 = 0 => a4 = 0 /\ l[5] = 0) /\ (a4 = 0 /\ l[5] = 0 => a5 = 0)
    BY ONLY <1>2, <1>8, <1>9 DEF Up
  <1>11. PICK a6 : a6 = Up(a5, l[6])
    OBVIOUS
  <1>12. a6 \in Nat /\ (a6 = 0 => a5 = 0 /\ l[6] = 0) /\ (a5 = 0 /\ l[6] = 0 => a6 = 0)
    BY ONLY <1>2, <1>10, <1>11 DEF Up
  <1>13. PICK a7 : a7 = Up(a6, l[7])
    OBVIOUS
  <1>14. a7 \in Nat /\ (a7 = 0 => a6 = 0 /\ l[7] = 0) /\ (a6 = 0 /\ l[7] = 0 => a7 = 0)
    BY ONLY <1>2, <1>12, <1>13 DEF Up
  <1>15. PICK a8 : a8 = Up(a7, l[8])
    OBVIOUS
  <1>16. a8 \in Nat /\ (a8 = 0 => a7 = 0 /\ l[8] = 0) /\ (a7 = 0 /\ l[8] = 0 => a8 = 0)
    BY ONLY <1>2, <1>14, <1>15 DEF Up
  <1>17. Value(l) = a8
    BY ONLY <1>3, <1>5, <1>7, <1>9, <1>11, <1>13, <1>15, Zenon DEF Value
  <1>18. ASSUME Value(l) = 0 PROVE l = Zero
    <2>1. /\ l[1] = 0 /\ l[2] = 0 /\ l[3] = 0 /\ l[4] = 0
          /\ l[5] = 0 /\ l[6] = 0 /\ l[7] = 0 /\ l[8] = 0
      BY ONLY <1>4, <1>6, <1>8, <1>10, <1>12, <1>14, <1>16, <1>17, <1>18, Zenon
    <2>2. \A k \in 1 .. 8 : k = 1 \/ k = 2 \/ k = 3 \/ k = 4 \/ k = 5 \/ k = 6 \/ k = 7 \/ k = 8
      OBVIOUS
    <2>3. \A k \in 1 .. 8 : l[k] = 0
      BY ONLY <2>1, <2>2, Zenon
    <2>4. l = [k \in 1 .. 8 |-> l[k]]
      BY DEF IsLong
    <2> QED BY ONLY <2>3, <2>4, Zenon DEF Zero
  <1>19. ASSUME l = Zero PROVE Value(l) = 0
    <2>1. \A k \in 1 .. 8 : l[k] = 0
      BY ONLY <1>19 DEF Zero
    <2>2. /\ l[1] = 0 /\ l[2] = 0 /\ l[3] = 0 /\ l[4] = 0
          /\ l[5] = 0 /\ l[6] = 0 /\ l[7] = 0 /\ l[8] = 0
      BY ONLY <2>1
    <2> QED BY ONLY <2>2, <1>4, <1>6, <1>8, <1>10, <1>12, <1>14, <1>16, <1>17, Zenon
  <1> QED BY ONLY <1>16, <1>17, <1>18, <1>19, Zenon

\* The number zero.
LEMMA ZeroIs == IsLong(Zero) /\ Value(Zero) = 0
  <1>1. Zero \in Seq(Bytes) /\ Len(Zero) = 8
    BY DEF Zero, Bytes
  <1>2. IsLong(Zero)
    BY <1>1 DEF IsLong
  <1> QED BY <1>2, ValueIs

\* A product that is below the top has the value of a product, and can be divided again.
LEMMA NoCarry ==
  ASSUME NEW l, IsLong(l), NEW v \in Digits, 37 * Value(l) + v < Top
  PROVE  /\ IsLong(TimesPlus(l, v))
         /\ Value(TimesPlus(l, v)) = 37 * Value(l) + v
         /\ Divided(TimesPlus(l, v)) = [rest |-> v, bytes |-> l]
  <1>1. PICK r : r = TimesPlus(l, v)
    OBVIOUS
  <1>2. IsLong(r)
    BY <1>1, TimesPlusIs
  <1>3. PICK c : c[0] = v /\ Carries(l, r, c)
    BY <1>1, TimesPlusIs
  <1>4. 37 * Value(l) + v = Value(r) + Over(c[8])
    BY <1>2, <1>3, ValueTimes
  <1>5. Value(l) \in Nat /\ Value(r) \in Nat
    BY <1>2, ValueIs
  <1>6. c[8] \in Nat /\ v \in Nat
    BY <1>3 DEF Carries, Digits
  <1>7. c[8] = 0 /\ 37 * Value(l) + v = Value(r)
    <2>1. PICK d, x, y : d = c[8] /\ x = 37 * Value(l) + v /\ y = Value(r)
      OBVIOUS
    <2>2. x < Top /\ x = y + Over(d) /\ d \in Nat /\ y \in Nat
      BY ONLY <1>4, <1>5, <1>6, <2>1, 37 * Value(l) + v < Top, Zenon
    <2>3. d = 0 /\ x = y
      BY ONLY <2>2 DEF Top, Over, Shift
    <2> QED BY ONLY <2>1, <2>3, Zenon
  <1>8. Divided(r) = [rest |-> c[0], bytes |-> l]
    BY <1>2, <1>3, <1>7, DividedIs
  <1> QED BY ONLY <1>1, <1>2, <1>3, <1>7, <1>8, Zenon

----------------------------------------------------------------------------
(* PlayerNameToInt64: names *)

\* The powers of the base that a name can reach: eight bytes hold the twelfth, and four
\* the fifth.
LEMMA PowersAre ==
  ASSUME NEW q, PowerBy(q, 37, 12)
  PROVE  /\ \A k \in 0 .. 12 : q[k] \in Nat /\ q[k] > 0 /\ q[k] <= Top
         /\ q[0] = 1 /\ \A k \in 0 .. 11 : q[k + 1] = 37 * q[k]
         /\ q[5] < 128 * Shift(Shift(Shift(1)))
  <1>1. /\ q[0] = 1 /\ \A k \in 0 .. 11 : q[k + 1] = 37 * q[k]
    <2>1. \A k \in 0 .. 12 : q[k] = IF k = 0 THEN 1 ELSE 37 * q[k - 1]
      BY DEF PowerBy
    <2>2. ASSUME NEW k \in 0 .. 11 PROVE q[k + 1] = 37 * q[k]
      <3>1. k + 1 \in 0 .. 12 /\ k + 1 # 0 /\ (k + 1) - 1 = k
        OBVIOUS
      <3> QED BY ONLY <2>1, <3>1, Zenon
    <2>3. q[0] = 1
      BY ONLY <2>1
    <2> QED BY <2>2, <2>3
  <1>2. PICK a1, a2, a3, a4, a5, a6 :
          a1 = q[1] /\ a2 = q[2] /\ a3 = q[3] /\ a4 = q[4] /\ a5 = q[5] /\ a6 = q[6]
    OBVIOUS
  <1>3. PICK b1, b2, b3, b4, b5, b6 :
          b1 = q[7] /\ b2 = q[8] /\ b3 = q[9] /\ b4 = q[10] /\ b5 = q[11] /\ b6 = q[12]
    OBVIOUS
  <1>4. /\ a1 = 37 * 1 /\ a2 = 37 * a1 /\ a3 = 37 * a2 /\ a4 = 37 * a3 /\ a5 = 37 * a4
        /\ a6 = 37 * a5
    <2>1. /\ q[0 + 1] = 37 * q[0] /\ q[1 + 1] = 37 * q[1] /\ q[2 + 1] = 37 * q[2]
          /\ q[3 + 1] = 37 * q[3] /\ q[4 + 1] = 37 * q[4] /\ q[5 + 1] = 37 * q[5]
      BY ONLY <1>1
    <2>2. 0 + 1 = 1 /\ 1 + 1 = 2 /\ 2 + 1 = 3 /\ 3 + 1 = 4 /\ 4 + 1 = 5 /\ 5 + 1 = 6
      OBVIOUS
    <2> QED BY ONLY <1>1, <1>2, <2>1, <2>2, Zenon
  <1>5. b1 = 37 * a6 /\ b2 = 37 * b1 /\ b3 = 37 * b2 /\ b4 = 37 * b3 /\ b5 = 37 * b4 /\ b6 = 37 * b5
    <2>1. /\ q[6 + 1] = 37 * q[6] /\ q[7 + 1] = 37 * q[7] /\ q[8 + 1] = 37 * q[8]
          /\ q[9 + 1] = 37 * q[9] /\ q[10 + 1] = 37 * q[10] /\ q[11 + 1] = 37 * q[11]
      BY ONLY <1>1
    <2>2. 6 + 1 = 7 /\ 7 + 1 = 8 /\ 8 + 1 = 9 /\ 9 + 1 = 10 /\ 10 + 1 = 11 /\ 11 + 1 = 12
      OBVIOUS
    <2> QED BY ONLY <1>2, <1>3, <2>1, <2>2, Zenon
  <1>6. /\ a1 \in Nat /\ a2 \in Nat /\ a3 \in Nat /\ a4 \in Nat /\ a5 \in Nat /\ a6 \in Nat
        /\ b1 \in Nat /\ b2 \in Nat /\ b3 \in Nat /\ b4 \in Nat /\ b5 \in Nat /\ b6 \in Nat
    <2>1. \A x, y : x \in Nat /\ y = 37 * x => y \in Nat
      OBVIOUS
    <2>2. a1 \in Nat
      BY ONLY <1>4
    <2>3. a2 \in Nat /\ a3 \in Nat /\ a4 \in Nat /\ a5 \in Nat /\ a6 \in Nat
      BY ONLY <1>4, <2>1, <2>2, ZenonT(60)
    <2> QED BY ONLY <1>5, <2>1, <2>2, <2>3, ZenonT(60)
  <1>7. /\ 0 < a1 /\ a1 <= a2 /\ a2 <= a3 /\ a3 <= a4 /\ a4 <= a5 /\ a5 <= a6 /\ a6 <= b1
        /\ b1 <= b2 /\ b2 <= b3 /\ b3 <= b4 /\ b4 <= b5 /\ b5 <= b6 
    BY ONLY <1>4, <1>5, <1>6
  <1>8. Top \in Nat /\ b6 <= Top /\ 1 <= Top
    BY ONLY <1>4, <1>5, <1>6 DEF Top, Over, Shift
  <1>9. /\ 0 < a1 /\ 0 < a2 /\ 0 < a3 /\ 0 < a4 /\ 0 < a5 /\ 0 < a6
        /\ 0 < b1 /\ 0 < b2 /\ 0 < b3 /\ 0 < b4 /\ 0 < b5 /\ 0 < b6
        /\ a1 <= Top /\ a2 <= Top /\ a3 <= Top /\ a4 <= Top /\ a5 <= Top /\ a6 <= Top
        /\ b1 <= Top /\ b2 <= Top /\ b3 <= Top /\ b4 <= Top /\ b5 <= Top
    BY ONLY <1>6, <1>7, <1>8
  <1>10. a5 < 128 * Shift(Shift(Shift(1)))
    BY ONLY <1>4, <1>6 DEF Shift
  <1>11. ASSUME NEW k \in 0 .. 12 PROVE q[k] \in Nat /\ q[k] > 0 /\ q[k] <= Top
    <2>1. \/ k = 0 \/ k = 1 \/ k = 2 \/ k = 3 \/ k = 4 \/ k = 5 \/ k = 6
          \/ k = 7 \/ k = 8 \/ k = 9 \/ k = 10 \/ k = 11 \/ k = 12
      OBVIOUS
    <2>2. 0 < 1 /\ 1 \in Nat /\ q[k] \in Nat /\ q[k] <= Top
      BY ONLY <1>1, <1>2, <1>3, <1>6, <1>8, <1>9, <2>1
    <2>3. 0 < q[k]
      BY ONLY <1>1, <1>2, <1>3, <1>6, <1>8, <1>9, <2>1
    <2> QED BY ONLY <2>2, <2>3
  <1> QED BY ONLY <1>1, <1>2, <1>10, <1>11, Zenon

\* The characters that count are at most twelve.
LEMMA CountedIs ==
  ASSUME NEW name \in Seq(Bytes)
  PROVE  /\ Len(Counted(name)) \in Nat /\ Len(Counted(name)) <= 12
         /\ Len(Counted(name)) <= Len(name)
  <1>1. Len(name) \in Nat /\ MaxLength = 12
    BY DEF MaxLength
  <1> DEFINE T == {Len(name), MaxLength}
             m == Min(T)
  <1>2. \E x \in T : \A y \in T : x <= y
    BY <1>1
  <1>3. m \in T /\ \A y \in T : m <= y
    <2> HIDE DEF T
    <2> QED BY <1>2 DEF Min, m
  <1>4. m \in Nat /\ m <= Len(name) /\ m <= 12
    BY <1>1, <1>3
  <1> HIDE DEF m
  <1>5. Len(SubSeq(name, 1, m)) = m
    <2>1. 1 \in Int /\ m \in Int /\ \A i \in 1 .. m : name[i] \in Bytes
      BY <1>1, <1>4, ElementOfSeq
    <2>2. Len(SubSeq(name, 1, m)) = IF 1 <= m THEN m - 1 + 1 ELSE 0
      BY <2>1, SubSeqProperties
    <2> QED BY <1>4, <2>2
  <1> QED BY <1>4, <1>5 DEF Counted, m

\* A character's value is a digit.
LEMMA CharacterIs ==
  ASSUME NEW c \in Bytes
  PROVE  CharacterValue(c) \in Digits
  BY DEF CharacterValue, Digits, Bytes

\* Numbers from zero on, each of which has one digit more than the one before.
Chain(N, d, n) ==
  /\ N[0] = Zero
  /\ \A k \in 0 .. n : IsLong(N[k])
  /\ \A k \in 0 .. n - 1 : /\ d[k + 1] \in Digits
                           /\ Value(N[k + 1]) = 37 * Value(N[k]) + d[k + 1]
                           /\ Divided(N[k + 1]) = [rest |-> d[k + 1], bytes |-> N[k]]

\* The values of the characters that count.
ValuesOf(name) == [k \in 1 .. Len(Counted(name)) |-> CharacterValue(name[k])]

\* The loop over the characters of a name: a 64-bit number holds the digits of twelve.
LEMMA NumbersAre ==
  ASSUME NEW name \in Seq(Bytes), NEW N, NumbersOfBy(N, name, Len(Counted(name)))
  PROVE  Chain(N, ValuesOf(name), Len(Counted(name)))
  <1>1. PICK n : n = Len(Counted(name))
    OBVIOUS
  <1>2. n \in Nat /\ n <= 12 /\ n <= Len(name) /\ Len(name) \in Nat
    BY <1>1, CountedIs
  <1>3. PICK q : PowerBy(q, 37, 12)
    BY PowerExist
  <1>4. PICK d : d = ValuesOf(name)
    OBVIOUS
  <1>5. ASSUME NEW k \in 0 .. n - 1
        PROVE  d[k + 1] \in Digits /\ d[k + 1] = CharacterValue(name[k + 1])
    <2>1. k + 1 \in 1 .. n /\ k + 1 \in 1 .. Len(name)
      BY <1>2
    <2>2. d[k + 1] = CharacterValue(name[k + 1])
      BY ONLY <1>1, <1>4, <2>1 DEF ValuesOf
    <2>3. name[k + 1] \in Bytes
      BY <2>1, ElementOfSeq
    <2> QED BY <2>2, <2>3, CharacterIs
  <1>6. /\ N[0] = Zero
        /\ \A k \in 0 .. n - 1 : N[k + 1] = TimesPlus(N[k], d[k + 1])
    <2>1. N = [k \in 0 .. n |-> IF k = 0 THEN Zero ELSE NumberNext(name, k, N[k - 1])]
      BY <1>1 DEF NumbersOfBy
    <2>2. N[0] = Zero
      BY ONLY <1>2, <2>1
    <2>3. ASSUME NEW k \in 0 .. n - 1 PROVE N[k + 1] = TimesPlus(N[k], d[k + 1])
      <3>1. k + 1 \in 0 .. n /\ k + 1 # 0 /\ (k + 1) - 1 = k
        BY <1>2
      <3>2. N[k + 1] = NumberNext(name, k + 1, N[(k + 1) - 1])
        BY ONLY <2>1, <3>1, Zenon
      <3>3. N[k + 1] = NumberNext(name, k + 1, N[k])
        BY ONLY <3>1, <3>2, Zenon
      <3> QED BY ONLY <1>5, <3>3, Zenon DEF NumberNext
    <2> QED BY <2>2, <2>3
  <1> DEFINE Good(k) == IsLong(N[k]) /\ Value(N[k]) < q[k]
             Step(k) == /\ Value(N[k + 1]) = 37 * Value(N[k]) + d[k + 1]
                        /\ Divided(N[k + 1]) = [rest |-> d[k + 1], bytes |-> N[k]]
             S == {k \in Nat : k <= n => Good(k)}
  <1>7. 0 \in S
    <2>1. IsLong(N[0]) /\ Value(N[0]) = 0
      BY ONLY <1>6, ZeroIs, Zenon
    <2>2. q[0] = 1
      BY <1>3, PowersAre
    <2>3. Value(N[0]) < q[0]
      BY ONLY <2>1, <2>2
    <2> QED BY <2>1, <2>3
  <1>8. ASSUME NEW k \in 0 .. n - 1, Good(k) PROVE Good(k + 1) /\ Step(k)
    <2>1. PICK l, e, p, r : l = N[k] /\ e = d[k + 1] /\ p = q[k] /\ r = q[k + 1]
      OBVIOUS
    <2>2. IsLong(l) /\ e \in Digits /\ Value(l) < p
      BY ONLY <1>5, <1>8, <2>1, Zenon
    <2>3. p \in Nat /\ r \in Nat /\ r = 37 * p /\ r <= Top
      <3>1. k \in 0 .. 11 /\ k \in 0 .. 12 /\ k + 1 \in 0 .. 12
        BY <1>2
      <3>2. /\ \A j \in 0 .. 12 : q[j] \in Nat /\ q[j] > 0 /\ q[j] <= Top
            /\ \A j \in 0 .. 11 : q[j + 1] = 37 * q[j]
        BY <1>3, PowersAre
      <3> QED BY ONLY <2>1, <3>1, <3>2, Zenon
    <2>4. PICK v : v = Value(l)
      OBVIOUS
    <2>5. v \in Nat
      BY <2>2, <2>4, ValueIs
    <2>6. 37 * v + e < r /\ 37 * v + e \in Nat
      BY ONLY <2>2, <2>3, <2>4, <2>5 DEF Digits
    <2>7. Top \in Nat
      BY DEF Top, Over, Shift
    <2>8. 37 * v + e < Top
      BY ONLY <2>3, <2>6, <2>7
    <2>9. /\ IsLong(TimesPlus(l, e))
          /\ Value(TimesPlus(l, e)) = 37 * v + e
          /\ Divided(TimesPlus(l, e)) = [rest |-> e, bytes |-> l]
      <3>1. 37 * Value(l) + e < Top
        BY ONLY <2>4, <2>8, Zenon
      <3>2. /\ IsLong(TimesPlus(l, e))
            /\ Value(TimesPlus(l, e)) = 37 * Value(l) + e
            /\ Divided(TimesPlus(l, e)) = [rest |-> e, bytes |-> l]
        BY ONLY <2>2, <3>1, NoCarry
      <3> QED BY ONLY <2>4, <3>2, Zenon
    <2>10. N[k + 1] = TimesPlus(l, e)
      BY ONLY <1>6, <2>1, Zenon
    <2>11. Value(N[k + 1]) < q[k + 1]
      BY ONLY <2>1, <2>6, <2>9, <2>10, Zenon
    <2> QED BY ONLY <2>1, <2>4, <2>9, <2>10, <2>11, Zenon
  <1>9. ASSUME NEW k \in 0 .. n - 1, k \in S PROVE k + 1 \in S
    <2>1. k <= n /\ k + 1 \in Nat
      BY <1>2
    <2>2. Good(k)
      BY ONLY <1>9, <2>1
    <2> QED BY ONLY <1>8, <2>1, <2>2
  <1>10. \A k \in 0 .. n : Good(k)
    <2>1. \A k \in 0 .. n : k \in S
      <3> HIDE DEF S
      <3> QED BY <1>2, <1>7, <1>9, InductionUpTo
    <2> HIDE DEF Good
    <2>2. \A k \in 0 .. n : k <= n
      BY <1>2
    <2> QED BY ONLY <2>1, <2>2, Zenon DEF S
  <1>11. ASSUME NEW k \in 0 .. n - 1 PROVE Step(k)
    <2>1. k \in 0 .. n
      BY <1>2
    <2> HIDE DEF Good, Step
    <2> QED BY ONLY <1>8, <1>10, <2>1, Zenon
  <1> QED BY ONLY <1>1, <1>4, <1>5, <1>6, <1>10, <1>11, Zenon DEF Chain

\* One character more.
LEMMA ChainStep ==
  ASSUME NEW n \in Nat, NEW N, NEW d, Chain(N, d, n), NEW k \in 0 .. n - 1
  PROVE  /\ Value(N[k]) \in Nat /\ Value(N[k + 1]) \in Nat /\ d[k + 1] \in Nat /\ d[k + 1] <= 36
         /\ Value(N[k + 1]) = 37 * Value(N[k]) + d[k + 1]
  <1>1. k \in 0 .. n /\ k + 1 \in 0 .. n
    OBVIOUS
  <1>2. IsLong(N[k]) /\ IsLong(N[k + 1])
    BY <1>1 DEF Chain
  <1>3. Value(N[k]) \in Nat /\ Value(N[k + 1]) \in Nat
    BY ONLY <1>2, ValueIs
  <1>4. d[k + 1] \in Digits /\ Value(N[k + 1]) = 37 * Value(N[k]) + d[k + 1]
    BY Zenon DEF Chain
  <1>5. d[k + 1] \in Nat /\ d[k + 1] <= 36
    BY ONLY <1>4 DEF Digits
  <1> QED BY ONLY <1>3, <1>4, <1>5, Zenon

\* Characters without a value leave zero as it is.
LEMMA ChainZero ==
  ASSUME NEW n \in Nat, NEW N, NEW d, Chain(N, d, n), NEW m \in 0 .. n,
         \A j \in 1 .. m : d[j] = 0
  PROVE  N[m] = Zero
  <1> DEFINE S == {k \in Nat : Value(N[k]) = 0}
  <1>1. m \in Nat /\ m <= n
    OBVIOUS
  <1>2. 0 \in S
    <2>1. Value(N[0]) = 0
      BY ONLY Chain(N, d, n), ZeroIs, Zenon DEF Chain
    <2> QED BY <2>1
  <1>3. ASSUME NEW k \in 0 .. m - 1, k \in S PROVE k + 1 \in S
    <2>1. k \in 0 .. n - 1 /\ k + 1 \in 1 .. m /\ k + 1 \in Nat
      BY <1>1
    <2>2. Value(N[k]) = 0 /\ d[k + 1] = 0
      BY <1>3, <2>1
    <2>3. Value(N[k + 1]) = 37 * Value(N[k]) + d[k + 1]
      BY <2>1, ChainStep
    <2>4. Value(N[k + 1]) = 0
      BY ONLY <2>2, <2>3
    <2> QED BY ONLY <2>1, <2>4
  <1>4. \A k \in 0 .. m : k \in S
    <2> HIDE DEF S
    <2> QED BY <1>1, <1>2, <1>3, InductionUpTo
  <1>5. m \in 0 .. m
    BY <1>1
  <1>6. Value(N[m]) = 0
    BY ONLY <1>4, <1>5
  <1>7. IsLong(N[m])
    BY DEF Chain
  <1> QED BY ONLY <1>6, <1>7, ValueIs

\* From a character with a value on, the number is not zero.
LEMMA ChainPositive ==
  ASSUME NEW n \in Nat, NEW N, NEW d, Chain(N, d, n), NEW m \in 1 .. n, d[m] # 0,
         NEW k \in m .. n
  PROVE  N[k] # Zero
  <1> DEFINE S == {j \in Nat : Value(N[m + j]) > 0}
  <1>0. PICK r : r = n - m
    OBVIOUS
  <1>1. m \in Nat /\ m <= n /\ r \in Nat /\ m > 0 /\ m + r = n
    BY <1>0
  <1>2. 0 \in S
    <2>1. m - 1 \in 0 .. n - 1 /\ (m - 1) + 1 = m /\ m + 0 = m
      BY <1>1
    <2>2. /\ Value(N[m - 1]) \in Nat /\ d[(m - 1) + 1] \in Nat
          /\ Value(N[(m - 1) + 1]) = 37 * Value(N[m - 1]) + d[(m - 1) + 1]
      BY <2>1, ChainStep
    <2>3. PICK x, y, z : x = Value(N[m - 1]) /\ y = d[m] /\ z = Value(N[m])
      OBVIOUS
    <2>4. x \in Nat /\ y \in Nat /\ z = 37 * x + y /\ y # 0
      BY ONLY <2>1, <2>2, <2>3, d[m] # 0, Zenon
    <2>5. z > 0
      BY ONLY <2>4
    <2>6. Value(N[m + 0]) > 0
      BY ONLY <2>1, <2>3, <2>5, Zenon
    <2> QED BY ONLY <2>6
  <1>3. ASSUME NEW j \in 0 .. r - 1, j \in S PROVE j + 1 \in S
    <2>1. m + j \in 0 .. n - 1 /\ (m + j) + 1 = m + (j + 1) /\ j + 1 \in Nat
      BY <1>1
    <2>2. /\ Value(N[m + j]) \in Nat /\ d[(m + j) + 1] \in Nat
          /\ Value(N[(m + j) + 1]) = 37 * Value(N[m + j]) + d[(m + j) + 1]
      BY <2>1, ChainStep
    <2>3. PICK x, y, z : x = Value(N[m + j]) /\ y = d[(m + j) + 1] /\ z = Value(N[m + (j + 1)])
      OBVIOUS
    <2>4. Value(N[m + j]) > 0
      BY ONLY <1>3
    <2>5. x \in Nat /\ y \in Nat /\ z = 37 * x + y /\ x > 0
      BY ONLY <2>1, <2>2, <2>3, <2>4, Zenon
    <2>6. z > 0
      BY ONLY <2>5
    <2>7. Value(N[m + (j + 1)]) > 0
      BY ONLY <2>3, <2>6, Zenon
    <2> QED BY ONLY <2>1, <2>7
  <1>4. \A j \in 0 .. r : j \in S
    <2> HIDE DEF S
    <2> QED BY <1>1, <1>2, <1>3, InductionUpTo
  <1>5. PICK j \in 0 .. r : j = k - m /\ m + j = k
    BY <1>0, <1>1
  <1>6. Value(N[m + j]) > 0
    BY ONLY <1>4, <1>5
  <1>7. Value(N[k]) > 0
    BY ONLY <1>5, <1>6, Zenon
  <1>8. Value(N[k]) # 0
    BY ONLY <1>7
  <1> QED BY ONLY <1>8, ZeroIs, Zenon

\* After a zero, the number of a few more characters is below that power of the base.
LEMMA ChainBelow ==
  ASSUME NEW n \in Nat, NEW N, NEW d, Chain(N, d, n), NEW a \in 0 .. n, N[a] = Zero,
         NEW q, PowerBy(q, 37, 12), NEW r \in 0 .. 12, a + r <= n
  PROVE  Value(N[a + r]) < q[r]
  <1> DEFINE S == {j \in Nat : Value(N[a + j]) < q[j]}
  <1>1. /\ \A j \in 0 .. 12 : q[j] \in Nat /\ q[j] > 0 /\ q[j] <= Top
        /\ q[0] = 1 /\ \A j \in 0 .. 11 : q[j + 1] = 37 * q[j]
    BY PowersAre
  <1>2. 0 \in S
    <2>1. a + 0 = a
      OBVIOUS
    <2>2. Value(N[a + 0]) = 0
      BY ONLY <2>1, N[a] = Zero, ZeroIs, Zenon
    <2>3. Value(N[a + 0]) < q[0]
      BY ONLY <1>1, <2>2
    <2> QED BY ONLY <2>3
  <1>3. ASSUME NEW j \in 0 .. r - 1, j \in S PROVE j + 1 \in S
    <2>1. /\ a + j \in 0 .. n - 1 /\ (a + j) + 1 = a + (j + 1) /\ j + 1 \in Nat
          /\ j \in 0 .. 11 /\ j \in 0 .. 12 /\ j + 1 \in 0 .. 12
      OBVIOUS
    <2>2. /\ Value(N[a + j]) \in Nat /\ d[(a + j) + 1] \in Nat /\ d[(a + j) + 1] <= 36
          /\ Value(N[(a + j) + 1]) = 37 * Value(N[a + j]) + d[(a + j) + 1]
      BY <2>1, ChainStep
    <2>3. PICK x, y, z, p, s : /\ x = Value(N[a + j]) /\ y = d[(a + j) + 1]
                               /\ z = Value(N[a + (j + 1)]) /\ p = q[j] /\ s = q[j + 1]
      OBVIOUS
    <2>4. Value(N[a + j]) < q[j]
      BY ONLY <1>3
    <2>5. /\ x \in Nat /\ y \in Nat /\ y <= 36 /\ z = 37 * x + y /\ x < p
          /\ p \in Nat /\ s \in Nat /\ s = 37 * p
      BY ONLY <1>1, <2>1, <2>2, <2>3, <2>4, Zenon
    <2>6. z < s
      BY ONLY <2>5
    <2>7. Value(N[a + (j + 1)]) < q[j + 1]
      BY ONLY <2>3, <2>6, Zenon
    <2> QED BY ONLY <2>1, <2>7
  <1>4. \A j \in 0 .. r : j \in S
    <2> HIDE DEF S
    <2>1. r \in Nat
      OBVIOUS
    <2> QED BY <2>1, <1>2, <1>3, InductionUpTo
  <1>5. r \in 0 .. r
    OBVIOUS
  <1> QED BY ONLY <1>4, <1>5

\* The least and the greatest place.
LEMMA PlacesAre ==
  ASSUME NEW n \in Nat, NEW T, T \subseteq 1 .. n, T # {}
  PROVE  /\ Min(T) \in T /\ Max(T) \in T
         /\ \A y \in T : Min(T) <= y /\ y <= Max(T)
  <1>1. PICK x \in T : \A y \in T : x <= y
    <2>1. T \in SUBSET Nat
      OBVIOUS
    <2> QED BY <2>1, LeastMember
  <1>2. Min(T) \in T /\ \A y \in T : Min(T) <= y
    BY <1>1 DEF Min
  <1> DEFINE U == {n - y : y \in T}
  <1>3. U \in SUBSET Nat /\ U # {}
    OBVIOUS
  <1>4. PICK z \in U : \A y \in U : z <= y
    <2> HIDE DEF U
    <2> QED BY <1>3, LeastMember
  <1>5. PICK w \in T : z = n - w
    OBVIOUS
  <1>6. \A y \in T : w >= y
    <2> SUFFICES ASSUME NEW y \in T PROVE w >= y
      OBVIOUS
    <2>1. n - y \in U
      OBVIOUS
    <2>2. n - w <= n - y
      BY <1>4, <1>5, <2>1
    <2>3. w \in Nat /\ y \in Nat
      BY <1>5
    <2> QED BY ONLY <2>2, <2>3, n \in Nat
  <1>7. Max(T) \in T /\ \A y \in T : Max(T) >= y
    BY <1>6 DEF Max
  <1>8. \A y \in T : y <= Max(T)
    BY <1>7
  <1> QED BY <1>2, <1>7, <1>8

\* The last division of a number, and none of zero.
LEMMA ChainDivided ==
  ASSUME NEW n \in Nat, NEW N, NEW d, Chain(N, d, n), NEW k \in 1 .. n
  PROVE  Divided(N[k]).rest = d[k] /\ Divided(N[k]).bytes = N[k - 1]
  <1>1. k - 1 \in 0 .. n - 1 /\ (k - 1) + 1 = k
    OBVIOUS
  <1>2. Divided(N[(k - 1) + 1]) = [rest |-> d[(k - 1) + 1], bytes |-> N[k - 1]]
    BY ONLY <1>1, Chain(N, d, n), Zenon DEF Chain
  <1>3. Divided(N[k]) = [rest |-> d[k], bytes |-> N[k - 1]]
    BY ONLY <1>1, <1>2, Zenon
  <1> QED BY ONLY <1>3

\* The while loop takes off the characters without a value at the end, and no other.
LEMMA StrippedIs ==
  ASSUME NEW n \in Nat, n <= 12, NEW N, NEW d, Chain(N, d, n),
         NEW m \in 1 .. n, d[m] # 0, NEW x \in m .. n, d[x] # 0, \A j \in x + 1 .. n : d[j] = 0
  PROVE  Stripped(N[n]) = N[x]
  <1>1. PICK f : f = CHOOSE g : StripsBy(g, N[n], 12)
    OBVIOUS
  <1>2. StripsBy(f, N[n], 12)
    BY ONLY <1>1, StripsExist
  <1>3. Stripped(N[n]) = f[12]
    BY ONLY <1>1 DEF Stripped, StripsBy, StripNext, MaxLength
  <1>4. f[0] = N[n] /\ \A j \in 0 .. 11 : f[j + 1] = StripNext(f[j])
    <2>1. f = [k \in 0 .. 12 |-> IF k = 0 THEN N[n] ELSE StripNext(f[k - 1])]
      BY ONLY <1>2 DEF StripsBy
    <2>2. f[0] = N[n]
      BY ONLY <2>1
    <2>3. ASSUME NEW j \in 0 .. 11 PROVE f[j + 1] = StripNext(f[j])
      <3>1. j + 1 \in 0 .. 12 /\ j + 1 # 0 /\ (j + 1) - 1 = j
        OBVIOUS
      <3>2. f[j + 1] = StripNext(f[(j + 1) - 1])
        BY ONLY <2>1, <3>1, Zenon
      <3> QED BY ONLY <3>1, <3>2, Zenon
    <2> QED BY ONLY <2>2, <2>3, Zenon
  <1>5. m \in Nat /\ x \in Nat /\ m > 0 /\ m <= x /\ x <= n
    OBVIOUS
  <1> DEFINE T(j) == IF n - j >= x THEN n - j ELSE x
             S == {j \in Nat : f[j] = N[T(j)]}
  <1>6. 0 \in S
    <2>1. T(0) = n
      BY <1>5
    <2> HIDE DEF T
    <2>2. f[0] = N[T(0)]
      BY ONLY <1>4, <2>1, Zenon
    <2> QED BY ONLY <2>2
  <1>7. ASSUME NEW j \in 0 .. 12 - 1, j \in S PROVE j + 1 \in S
    <2>1. PICK e, g : e = T(j) /\ g = T(j + 1)
      OBVIOUS
    <2>2. e \in m .. n /\ e \in 1 .. n /\ e \in Nat /\ x <= e
      BY <1>5, <2>1
    <2>3. f[j + 1] = StripNext(N[e])
      <3>1. j \in 0 .. 11
        OBVIOUS
      <3>2. f[j] = N[T(j)]
        BY ONLY <1>7
      <3> HIDE DEF T
      <3> QED BY ONLY <1>4, <2>1, <3>1, <3>2, Zenon
    <2>4. N[e] # Zero
      BY <2>2, ChainPositive
    <2>5. Divided(N[e]).rest = d[e] /\ Divided(N[e]).bytes = N[e - 1]
      BY <2>2, ChainDivided
    <2>6. f[j + 1] = N[g]
      <3>1. CASE e = x
        <4>1. g = x
          BY <1>5, <2>1, <3>1
        <4>2. ~ Strips(N[e])
          BY ONLY <2>5, <3>1, d[x] # 0, Zenon DEF Strips
        <4> QED BY ONLY <2>3, <3>1, <4>1, <4>2, Zenon DEF StripNext
      <3>2. CASE e # x
        <4>1. g = e - 1
          BY <1>5, <2>1, <3>2
        <4>2. e \in x + 1 .. n
          BY <1>5, <2>2, <3>2
        <4>3. d[e] = 0
          BY <4>2
        <4>4. Strips(N[e])
          BY ONLY <2>4, <2>5, <4>3, Zenon DEF Strips
        <4> QED BY ONLY <2>3, <2>5, <4>1, <4>4, Zenon DEF StripNext
      <3> QED BY ONLY <3>1, <3>2
    <2>7. j + 1 \in Nat
      OBVIOUS
    <2>8. f[j + 1] = N[T(j + 1)]
      <3> HIDE DEF T
      <3> QED BY ONLY <2>1, <2>6, Zenon
    <2> QED BY ONLY <2>7, <2>8
  <1>8. \A j \in 0 .. 12 : j \in S
    <2> HIDE DEF S
    <2>1. 12 \in Nat
      OBVIOUS
    <2> QED BY <2>1, <1>6, <1>7, InductionUpTo
  <1>9. T(12) = x
    BY <1>5
  <1>10. f[12] = N[T(12)]
    <2> HIDE DEF T
    <2>1. 12 \in 0 .. 12
      OBVIOUS
    <2> QED BY ONLY <1>8, <2>1
  <1> HIDE DEF T
  <1> QED BY ONLY <1>3, <1>9, <1>10, Zenon

\* Zero is not stripped.
LEMMA StrippedZero == Stripped(Zero) = Zero
  <1>1. PICK f : f = CHOOSE g : StripsBy(g, Zero, 12)
    OBVIOUS
  <1>2. StripsBy(f, Zero, 12)
    BY ONLY <1>1, StripsExist
  <1>3. Stripped(Zero) = f[12]
    BY ONLY <1>1 DEF Stripped, StripsBy, StripNext, MaxLength
  <1>4. f = [k \in 0 .. 12 |-> IF k = 0 THEN Zero ELSE StripNext(f[k - 1])]
    BY ONLY <1>2 DEF StripsBy
  <1> DEFINE S == {j \in Nat : f[j] = Zero}
  <1>5. 0 \in S
    <2>1. f[0] = Zero
      BY ONLY <1>4
    <2> QED BY ONLY <2>1
  <1>6. ASSUME NEW j \in 0 .. 12 - 1, j \in S PROVE j + 1 \in S
    <2>1. j + 1 \in 0 .. 12 /\ j + 1 # 0 /\ (j + 1) - 1 = j /\ j + 1 \in Nat
      OBVIOUS
    <2>2. f[j + 1] = StripNext(f[(j + 1) - 1])
      BY ONLY <1>4, <2>1, Zenon
    <2>3. f[j] = Zero
      BY ONLY <1>6
    <2>4. f[j + 1] = Zero
      BY ONLY <2>1, <2>2, <2>3, Zenon DEF StripNext, Strips
    <2> QED BY ONLY <2>1, <2>4
  <1>7. \A j \in 0 .. 12 : j \in S
    <2> HIDE DEF S
    <2>1. 12 \in Nat
      OBVIOUS
    <2> QED BY <2>1, <1>5, <1>6, InductionUpTo
  <1>8. 12 \in 0 .. 12
    OBVIOUS
  <1> QED BY ONLY <1>3, <1>7, <1>8

\* A piece of a sequence with one member more at the front.
LEMMA PieceIs ==
  ASSUME NEW X, NEW s \in Seq(X), NEW e \in 1 .. Len(s), NEW x \in e .. Len(s)
  PROVE  <<s[e]>> \o SubSeq(s, e + 1, x) = SubSeq(s, e, x)
  <1>1. Len(s) \in Nat /\ e \in Nat /\ x \in Nat /\ e > 0 /\ e <= x /\ x <= Len(s)
    OBVIOUS
  <1>2. PICK p, r : p = SubSeq(s, e + 1, x) /\ r = SubSeq(s, e, x)
    OBVIOUS
  <1>3. s[e] \in X
    BY <1>1, ElementOfSeq
  <1>4. /\ p \in Seq(X) /\ Len(p) = x - e
        /\ \A i \in 1 .. x - e : p[i] = s[e + i]
    <2>1. e + 1 \in Int /\ x \in Int /\ \A i \in e + 1 .. x : s[i] \in X
      BY <1>1, ElementOfSeq
    <2>2. /\ p \in Seq(X) /\ Len(p) = IF e + 1 <= x THEN x - (e + 1) + 1 ELSE 0
          /\ \A i \in 1 .. x - (e + 1) + 1 : p[i] = s[(e + 1) + i - 1]
      BY ONLY <1>2, <2>1, SubSeqProperties
    <2>3. Len(p) = x - e /\ x - (e + 1) + 1 = x - e
      BY ONLY <1>1, <2>2
    <2>4. ASSUME NEW i \in 1 .. x - e PROVE p[i] = s[e + i]
      <3>1. (e + 1) + i - 1 = e + i
        BY <1>1
      <3> QED BY ONLY <2>2, <2>3, <3>1, i \in 1 .. x - e, Zenon
    <2> QED BY <2>2, <2>3, <2>4
  <1>5. /\ r \in Seq(X) /\ Len(r) = x - e + 1
        /\ \A i \in 1 .. x - e + 1 : r[i] = s[e + i - 1]
    <2>1. e \in Int /\ x \in Int /\ \A i \in e .. x : s[i] \in X
      BY <1>1, ElementOfSeq
    <2>2. /\ r \in Seq(X) /\ Len(r) = IF e <= x THEN x - e + 1 ELSE 0
          /\ \A i \in 1 .. x - e + 1 : r[i] = s[e + i - 1]
      BY ONLY <1>2, <2>1, SubSeqProperties
    <2> QED BY ONLY <1>1, <2>2
  <1>6. PICK t : t = <<s[e]>> \o p
    OBVIOUS
  <1>7. /\ t \in Seq(X) /\ Len(t) = Len(p) + 1 /\ t[1] = s[e]
        /\ \A j \in 1 .. Len(p) : t[j + 1] = p[j]
    BY ONLY <1>3, <1>4, <1>6, Prepended
  <1>8. ASSUME NEW i \in 1 .. x - e + 1 PROVE t[i] = r[i]
    <2>1. CASE i = 1
      <3>1. e + 1 - 1 = e /\ 1 \in 1 .. x - e + 1
        BY <1>1
      <3> QED BY ONLY <1>5, <1>7, <2>1, <3>1, Zenon
    <2>2. CASE i # 1
      <3>1. PICK j : j = i - 1
        OBVIOUS
      <3>2. j \in 1 .. x - e /\ j + 1 = i /\ e + i - 1 = e + j
        BY <1>1, <2>2, <3>1
      <3>3. t[j + 1] = s[e + j]
        BY ONLY <1>4, <1>7, <3>2, Zenon
      <3>4. r[i] = s[e + i - 1]
        BY <1>5
      <3> QED BY ONLY <3>2, <3>3, <3>4, Zenon
    <2> QED BY <2>1, <2>2
  <1>9. t = r
    <2>1. Len(t) = x - e + 1 /\ Len(r) = x - e + 1
      BY ONLY <1>4, <1>5, <1>7
    <2>2. t = [i \in 1 .. x - e + 1 |-> t[i]] /\ r = [i \in 1 .. x - e + 1 |-> r[i]]
      BY ONLY <1>5, <1>7, <2>1
    <2> QED BY ONLY <1>8, <2>2, Zenon
  <1> QED BY ONLY <1>2, <1>6, <1>9, Zenon

\* The client takes off one character after the other, back to the first with a value.
LEMMA NameIs ==
  ASSUME NEW n \in Nat, n <= 12, NEW N, NEW d \in Seq(Digits), Len(d) = n, Chain(N, d, n),
         NEW m \in 1 .. n, d[m] # 0, NEW x \in m .. n, \A j \in 1 .. m - 1 : d[j] = 0
  PROVE  NameOf(N[x]) = SubSeq(d, m, x)
  <1>1. PICK f : f = CHOOSE g : NamesBy(g, N[x], 13)
    OBVIOUS
  <1>2. NamesBy(f, N[x], 13)
    BY ONLY <1>1, NamesExist
  <1>3. NameOf(N[x]) = f[13].name
    <2>1. MaxLength + 1 = 13
      BY DEF MaxLength
    <2>2. NameOf(N[x]) = (CHOOSE g : NamesBy(g, N[x], MaxLength + 1))[MaxLength + 1].name
      BY ONLY DEF NameOf, NamesBy, NameNext
    <2> QED BY ONLY <1>1, <2>1, <2>2, Zenon
  <1>4. f[0] = [left |-> N[x], name |-> <<>>] /\ \A j \in 0 .. 12 : f[j + 1] = NameNext(f[j])
    <2>1. f = [k \in 0 .. 13 |-> IF k = 0 THEN [left |-> N[x], name |-> <<>>] ELSE NameNext(f[k - 1])]
      BY ONLY <1>2 DEF NamesBy
    <2>2. f[0] = [left |-> N[x], name |-> <<>>]
      BY ONLY <2>1
    <2>3. ASSUME NEW j \in 0 .. 12 PROVE f[j + 1] = NameNext(f[j])
      <3>1. j + 1 \in 0 .. 13 /\ j + 1 # 0 /\ (j + 1) - 1 = j
        OBVIOUS
      <3>2. f[j + 1] = NameNext(f[(j + 1) - 1])
        BY ONLY <2>1, <3>1, Zenon
      <3> QED BY ONLY <3>1, <3>2, Zenon
    <2> QED BY ONLY <2>2, <2>3, Zenon
  <1>5. PICK a : a = m - 1
    OBVIOUS
  <1>6. /\ m \in Nat /\ x \in Nat /\ m > 0 /\ m <= x /\ x <= n /\ a \in Nat /\ a + 1 = m
        /\ a \in 0 .. n
    BY <1>5
  <1>7. N[a] = Zero
    BY <1>5, <1>6, ChainZero
  <1> DEFINE T(j) == IF x - j >= a THEN x - j ELSE a
             R(e) == [left |-> N[e], name |-> SubSeq(d, e + 1, x)]
             S == {j \in Nat : f[j] = R(T(j))}
  <1>8. 0 \in S
    <2>1. T(0) = x
      BY <1>6
    <2>2. SubSeq(d, x + 1, x) = <<>>
      BY <1>6, SubSeqEmpty
    <2>3. f[0] = R(T(0))
      <3> HIDE DEF T
      <3> QED BY ONLY <1>4, <2>1, <2>2, Zenon
    <2> QED BY ONLY <2>3
  <1>9. ASSUME NEW j \in 0 .. 13 - 1, j \in S PROVE j + 1 \in S
    <2>1. PICK e, g : e = T(j) /\ g = T(j + 1)
      OBVIOUS
    <2>2. e \in Nat /\ a <= e /\ e <= x
      BY <1>6, <2>1
    <2>3. f[j + 1] = NameNext(R(e))
      <3>1. j \in 0 .. 12
        OBVIOUS
      <3>2. f[j] = R(T(j))
        BY ONLY <1>9
      <3> HIDE DEF T, R
      <3> QED BY ONLY <1>4, <2>1, <3>1, <3>2, Zenon
    <2>4. R(e).left = N[e] /\ R(e).name = SubSeq(d, e + 1, x)
      BY ONLY DEF R
    <2>5. f[j + 1] = R(g)
      <3>1. CASE e = a
        <4>1. g = e
          BY <1>6, <2>1, <3>1
        <4>2. R(e).left = Zero
          BY ONLY <1>7, <2>4, <3>1, Zenon
        <4> HIDE DEF R
        <4> QED BY ONLY <2>3, <4>1, <4>2, Zenon DEF NameNext
      <3>2. CASE e # a
        <4>1. g = e - 1 /\ e \in m .. n /\ e \in 1 .. n /\ e \in 1 .. Len(d) /\ x \in e .. Len(d)
          BY <1>6, <2>1, <2>2, <3>2
        <4>2. N[e] # Zero
          BY <4>1, ChainPositive
        <4>3. Divided(N[e]).rest = d[e] /\ Divided(N[e]).bytes = N[e - 1]
          BY <4>1, ChainDivided
        <4>4. <<d[e]>> \o SubSeq(d, e + 1, x) = SubSeq(d, e, x)
          BY <4>1, PieceIs
        <4>5. NameNext(R(e)) = [left |-> N[e - 1], name |-> SubSeq(d, e, x)]
          <5> HIDE DEF R
          <5> QED BY ONLY <2>4, <4>2, <4>3, <4>4, Zenon DEF NameNext
        <4>6. g + 1 = e
          BY <2>2, <4>1
        <4>7. R(g) = [left |-> N[e - 1], name |-> SubSeq(d, e, x)]
          BY ONLY <4>1, <4>6, Zenon
        <4> HIDE DEF R
        <4> QED BY ONLY <2>3, <4>5, <4>7, Zenon
      <3> QED BY ONLY <3>1, <3>2
    <2>6. j + 1 \in Nat
      OBVIOUS
    <2>7. f[j + 1] = R(T(j + 1))
      <3> HIDE DEF T, R
      <3> QED BY ONLY <2>1, <2>5, Zenon
    <2> QED BY ONLY <2>6, <2>7
  <1>10. \A j \in 0 .. 13 : j \in S
    <2> HIDE DEF S
    <2>1. 13 \in Nat
      OBVIOUS
    <2> QED BY <2>1, <1>8, <1>9, InductionUpTo
  <1>11. T(13) = a
    BY <1>6
  <1>12. f[13] = R(T(13))
    <2> HIDE DEF T, R
    <2>1. 13 \in 0 .. 13
      OBVIOUS
    <2> QED BY ONLY <1>10, <2>1
  <1>13. f[13] = R(a)
    <2> HIDE DEF T, R
    <2> QED BY ONLY <1>11, <1>12, Zenon
  <1>14. R(a).name = SubSeq(d, a + 1, x)
    OBVIOUS
  <1> HIDE DEF R
  <1> QED BY ONLY <1>3, <1>6, <1>13, <1>14, Zenon

\* Zero is the number of no characters.
LEMMA NameOfZero == NameOf(Zero) = <<>>
  <1>1. PICK f : f = CHOOSE g : NamesBy(g, Zero, 13)
    OBVIOUS
  <1>2. NamesBy(f, Zero, 13)
    BY ONLY <1>1, NamesExist
  <1>3. NameOf(Zero) = f[13].name
    <2>1. MaxLength + 1 = 13
      BY DEF MaxLength
    <2>2. NameOf(Zero) = (CHOOSE g : NamesBy(g, Zero, MaxLength + 1))[MaxLength + 1].name
      BY ONLY DEF NameOf, NamesBy, NameNext
    <2> QED BY ONLY <1>1, <2>1, <2>2, Zenon
  <1> DEFINE none == [left |-> Zero, name |-> <<>>]
  <1>4. f = [k \in 0 .. 13 |-> IF k = 0 THEN none ELSE NameNext(f[k - 1])]
    BY ONLY <1>2 DEF NamesBy
  <1>5. none.left = Zero /\ none.name = <<>>
    OBVIOUS
  <1> HIDE DEF none
  <1> DEFINE S == {j \in Nat : f[j] = none}
  <1>6. 0 \in S
    <2>1. f[0] = none
      BY ONLY <1>4
    <2> QED BY ONLY <2>1
  <1>7. ASSUME NEW j \in 0 .. 13 - 1, j \in S PROVE j + 1 \in S
    <2>1. j + 1 \in 0 .. 13 /\ j + 1 # 0 /\ (j + 1) - 1 = j /\ j + 1 \in Nat
      OBVIOUS
    <2>2. f[j + 1] = NameNext(f[(j + 1) - 1])
      BY ONLY <1>4, <2>1, Zenon
    <2>3. f[j] = none
      BY ONLY <1>7
    <2>4. f[j + 1] = NameNext(none)
      BY ONLY <2>1, <2>2, <2>3, Zenon
    <2>5. f[j + 1] = none
      BY ONLY <1>5, <2>4, Zenon DEF NameNext
    <2> QED BY ONLY <2>1, <2>5
  <1>8. \A j \in 0 .. 13 : j \in S
    <2> HIDE DEF S
    <2>1. 13 \in Nat
      OBVIOUS
    <2> QED BY <2>1, <1>6, <1>7, InductionUpTo
  <1>9. 13 \in 0 .. 13
    OBVIOUS
  <1>10. f[13] = none
    BY ONLY <1>8, <1>9
  <1> QED BY ONLY <1>3, <1>5, <1>10, Zenon

\* A number below 2^31 is within the int32_t of WriteLong.
LEMMA SmallIs ==
  ASSUME NEW l, IsLong(l), Value(l) < 128 * Shift(Shift(Shift(1)))
  PROVE  Shortened(l) = l
  <1>1. PICK b1, b2, b3, b4, b5, b6, b7, b8 :
          /\ b1 = l[1] /\ b2 = l[2] /\ b3 = l[3] /\ b4 = l[4]
          /\ b5 = l[5] /\ b6 = l[6] /\ b7 = l[7] /\ b8 = l[8]
    OBVIOUS
  <1>2. /\ b1 \in Nat /\ b2 \in Nat /\ b3 \in Nat /\ b4 \in Nat
        /\ b5 \in Nat /\ b6 \in Nat /\ b7 \in Nat /\ b8 \in Nat
    <2>1. \A k \in 1 .. 8 : l[k] \in Nat
      BY LongIs
    <2>2. /\ l[1] \in Nat /\ l[2] \in Nat /\ l[3] \in Nat /\ l[4] \in Nat
          /\ l[5] \in Nat /\ l[6] \in Nat /\ l[7] \in Nat /\ l[8] \in Nat
      BY ONLY <2>1
    <2> QED BY ONLY <1>1, <2>2, Zenon
  <1>3. PICK v : v = Value(l)
    OBVIOUS
  <1>4. v = Up(Up(Up(Up(Up(Up(Up(b1, b2), b3), b4), b5), b6), b7), b8)
    BY ONLY <1>1, <1>3, Zenon DEF Value
  <1>5. v < 128 * Shift(Shift(Shift(1)))
    BY ONLY <1>3, Value(l) < 128 * Shift(Shift(Shift(1))), Zenon
  <1>6. b1 = 0 /\ b2 = 0 /\ b3 = 0 /\ b4 = 0 /\ b5 < 128
    BY ONLY <1>2, <1>4, <1>5 DEF Up, Shift
  <1>7. l[1] = 0 /\ l[2] = 0 /\ l[3] = 0 /\ l[4] = 0 /\ l[5] < 128
    BY ONLY <1>1, <1>6, Zenon
  <1>8. l \in Seq(Bytes) /\ Len(l) = 8
    BY DEF IsLong
  <1>9. PICK h, t : h = [i \in 1 .. 4 |-> IF l[5] < 128 THEN 0 ELSE 255] /\ t = SubSeq(l, 5, 8)
    OBVIOUS
  <1>10. h \in Seq(Bytes) /\ Len(h) = 4 /\ \A i \in 1 .. 4 : h[i] = 0
    BY ONLY <1>7, <1>9 DEF Bytes
  <1>11. t \in Seq(Bytes) /\ Len(t) = 4 /\ \A i \in 1 .. 4 : t[i] = l[i + 4]
    <2>1. 5 \in Int /\ 8 \in Int /\ \A i \in 5 .. 8 : l[i] \in Bytes
      BY LongIs
    <2>2. /\ t \in Seq(Bytes) /\ Len(t) = IF 5 <= 8 THEN 8 - 5 + 1 ELSE 0
          /\ \A i \in 1 .. 8 - 5 + 1 : t[i] = l[5 + i - 1]
      BY ONLY <1>9, <2>1, SubSeqProperties
    <2>3. 8 - 5 + 1 = 4 /\ 5 <= 8 /\ \A i \in 1 .. 4 : 5 + i - 1 = i + 4
      OBVIOUS
    <2> QED BY ONLY <2>2, <2>3
  <1>12. /\ h \o t \in Seq(Bytes) /\ Len(h \o t) = Len(h) + Len(t)
         /\ \A i \in 1 .. Len(h) + Len(t) :
              (h \o t)[i] = IF i <= Len(h) THEN h[i] ELSE t[i - Len(h)]
    BY ONLY <1>10, <1>11, ConcatProperties
  <1>13. PICK s : s = h \o t
    OBVIOUS
  <1>14. s \in Seq(Bytes) /\ Len(s) = 8 /\ \A i \in 1 .. 8 : s[i] = IF i <= 4 THEN h[i] ELSE t[i - 4]
    BY ONLY <1>10, <1>11, <1>12, <1>13
  <1>15. ASSUME NEW i \in 1 .. 8 PROVE s[i] = l[i]
    <2>1. CASE i <= 4
      <3>1. i \in 1 .. 4 /\ (i = 1 \/ i = 2 \/ i = 3 \/ i = 4)
        BY <2>1
      <3>2. s[i] = h[i]
        BY ONLY <1>14, <2>1
      <3> QED BY ONLY <1>7, <1>10, <3>1, <3>2, Zenon
    <2>2. CASE ~ (i <= 4)
      <3>1. i - 4 \in 1 .. 4 /\ (i - 4) + 4 = i
        BY <2>2
      <3>2. s[i] = t[i - 4]
        BY ONLY <1>14, <2>2
      <3> QED BY ONLY <1>11, <3>1, <3>2, Zenon
    <2> QED BY <2>1, <2>2
  <1>16. s = l
    <2>1. s = [i \in 1 .. 8 |-> s[i]] /\ l = [i \in 1 .. 8 |-> l[i]]
      BY ONLY <1>8, <1>14
    <2> QED BY ONLY <1>15, <2>1, Zenon
  <1> QED BY ONLY <1>9, <1>13, <1>16, Zenon DEF Shortened

\* What there is to see of a name, and the numbers it is stripped of and read from.
LEMMA NameKept ==
  ASSUME NEW name \in Seq(Bytes)
  PROVE  /\ IsLong(PlayerNameToInt64(name))
         /\ NameOf(PlayerNameToInt64(name)) = Visible(name)
         /\ Len(Visible(name)) <= ShortName =>
              Shortened(PlayerNameToInt64(name)) = PlayerNameToInt64(name)
  <1>1. PICK n, d, T : /\ n = Len(Counted(name)) /\ d = ValuesOf(name)
                       /\ T = {k \in DOMAIN d : d[k] # 0}
    OBVIOUS
  <1>2. n \in Nat /\ n <= 12 /\ n <= Len(name) /\ Len(name) \in Nat
    BY <1>1, CountedIs
  <1>3. Visible(name) = IF T = {} THEN <<>> ELSE SubSeq(d, Min(T), Max(T))
    BY ONLY <1>1 DEF Visible, ValuesOf
  <1>4. d \in Seq(Digits) /\ Len(d) = n /\ DOMAIN d = 1 .. n
    <2>1. d = [k \in 1 .. n |-> CharacterValue(name[k])]
      BY ONLY <1>1 DEF ValuesOf
    <2>2. ASSUME NEW k \in 1 .. n PROVE CharacterValue(name[k]) \in Digits
      <3>1. k \in 1 .. Len(name)
        BY <1>2
      <3>2. name[k] \in Bytes
        BY <3>1, ElementOfSeq
      <3> QED BY ONLY <3>2, CharacterIs
    <2> QED BY ONLY <1>2, <2>1, <2>2
  <1>5. PICK N : N = CHOOSE g : NumbersOfBy(g, name, n)
    OBVIOUS
  <1>6. NumbersOfBy(N, name, n)
    BY ONLY <1>2, <1>5, NumbersOfExist
  <1>7. PlayerNameToInt64(name) = Stripped(N[n])
    <2>1. PlayerNameToInt64(name)
            = Stripped((CHOOSE g : NumbersOfBy(g, name, Len(Counted(name))))[Len(Counted(name))])
      BY ONLY DEF PlayerNameToInt64, NumbersOfBy, NumberNext
    <2> QED BY ONLY <1>1, <1>5, <2>1, Zenon
  <1>8. Chain(N, d, n)
    <2>1. NumbersOfBy(N, name, Len(Counted(name)))
      BY ONLY <1>1, <1>6, Zenon
    <2>2. Chain(N, ValuesOf(name), Len(Counted(name)))
      BY <2>1, NumbersAre
    <2> QED BY ONLY <1>1, <2>2, Zenon
  <1>9. PICK l : l = PlayerNameToInt64(name)
    OBVIOUS
  <1>10. CASE T = {}
    <2>1. \A j \in 1 .. n : d[j] = 0
      BY ONLY <1>1, <1>4, <1>10
    <2>2. n \in 0 .. n
      BY ONLY <1>2
    <2>3. N[n] = Zero
      BY ONLY <1>2, <1>8, <2>1, <2>2, ChainZero
    <2>4. l = Zero
      BY ONLY <1>7, <1>9, <2>3, StrippedZero, Zenon
    <2>5. Visible(name) = <<>>
      BY ONLY <1>3, <1>10
    <2>6. IsLong(l) /\ Value(l) = 0
      BY ONLY <2>4, ZeroIs, Zenon
    <2>7. Value(l) < 128 * Shift(Shift(Shift(1)))
      BY ONLY <2>6 DEF Shift
    <2>8. Shortened(l) = l
      BY ONLY <2>6, <2>7, SmallIs
    <2>9. NameOf(l) = Visible(name)
      BY ONLY <2>4, <2>5, NameOfZero, Zenon
    <2> QED BY ONLY <1>9, <2>6, <2>8, <2>9, Zenon
  <1>11. CASE T # {}
    <2>1. PICK m, x : m = Min(T) /\ x = Max(T)
      OBVIOUS
    <2>2. m \in T /\ x \in T /\ \A y \in T : m <= y /\ y <= x
      <3>1. T \subseteq 1 .. n
        BY ONLY <1>1, <1>4
      <3>2. /\ Min(T) \in T /\ Max(T) \in T
            /\ \A y \in T : Min(T) <= y /\ y <= Max(T)
        BY ONLY <1>2, <1>11, <3>1, PlacesAre
      <3> QED BY ONLY <2>1, <3>2, Zenon
    <2>3. m \in 1 .. n /\ d[m] # 0 /\ x \in 1 .. n /\ d[x] # 0 /\ m <= x
      BY ONLY <1>1, <1>4, <2>2
    <2>4. x \in m .. n /\ x \in 0 .. n /\ m - 1 \in 0 .. n
      BY ONLY <1>2, <2>3
    <2>5. \A j \in 1 .. m - 1 : d[j] = 0
      <3> SUFFICES ASSUME NEW j \in 1 .. m - 1, d[j] # 0 PROVE FALSE
        OBVIOUS
      <3>1. j \in 1 .. n /\ ~ (m <= j)
        BY ONLY <1>2, <2>3, j \in 1 .. m - 1
      <3>2. j \in T
        BY ONLY <1>1, <1>4, <3>1, d[j] # 0
      <3> QED BY ONLY <2>2, <3>1, <3>2, Zenon
    <2>6. \A j \in x + 1 .. n : d[j] = 0
      <3> SUFFICES ASSUME NEW j \in x + 1 .. n, d[j] # 0 PROVE FALSE
        OBVIOUS
      <3>1. j \in 1 .. n /\ ~ (j <= x)
        BY ONLY <1>2, <2>3, j \in x + 1 .. n
      <3>2. j \in T
        BY ONLY <1>1, <1>4, <3>1, d[j] # 0
      <3> QED BY ONLY <2>2, <3>1, <3>2, Zenon
    <2>7. Stripped(N[n]) = N[x]
      BY ONLY <1>2, <1>8, <2>3, <2>4, <2>6, StrippedIs
    <2>8. l = N[x]
      BY ONLY <1>7, <1>9, <2>7, Zenon
    <2>9. NameOf(N[x]) = SubSeq(d, m, x)
      BY ONLY <1>2, <1>4, <1>8, <2>3, <2>4, <2>5, NameIs
    <2>10. Visible(name) = SubSeq(d, m, x)
      BY ONLY <1>3, <1>11, <2>1
    <2>11. IsLong(l)
      <3>1. IsLong(N[x])
        BY ONLY <1>8, <2>4 DEF Chain
      <3> QED BY ONLY <2>8, <3>1, Zenon
    <2>12. ASSUME Len(Visible(name)) <= ShortName PROVE Shortened(l) = l
      <3>1. PICK a, r : a = m - 1 /\ r = x - a
        OBVIOUS
      <3>2. Len(SubSeq(d, m, x)) = IF m <= x THEN x - m + 1 ELSE 0
        <4>1. m \in Int /\ x \in Int /\ \A i \in m .. x : d[i] \in Digits
          BY ONLY <1>2, <1>4, <2>3, ElementOfSeq
        <4> QED BY ONLY <4>1, SubSeqProperties
      <3>3. r <= 5 /\ r \in 0 .. 12 /\ a \in 0 .. n /\ a + r = x /\ a + r <= n
        <4>1. Len(SubSeq(d, m, x)) <= 5
          BY ONLY <2>10, <2>12, Zenon DEF ShortName
        <4> QED BY ONLY <1>2, <2>3, <3>1, <3>2, <4>1
      <3>4. PICK q : PowerBy(q, 37, 12)
        BY PowerExist
      <3>5. N[a] = Zero
        <4>1. \A j \in 1 .. a : d[j] = 0
          BY ONLY <2>5, <3>1, Zenon
        <4> QED BY ONLY <1>2, <1>8, <3>3, <4>1, ChainZero
      <3>6. Value(N[a + r]) < q[r]
        BY ONLY <1>2, <1>8, <3>3, <3>4, <3>5, ChainBelow
      <3>7. Value(l) < q[r]
        BY ONLY <2>8, <3>3, <3>6, Zenon
      <3>8. q[r] <= q[5] /\ q[r] \in Nat /\ q[5] \in Nat /\ q[5] < 128 * Shift(Shift(Shift(1)))
        <4>1. /\ \A k \in 0 .. 12 : q[k] \in Nat /\ q[k] > 0 /\ q[k] <= Top
              /\ \A k \in 0 .. 11 : q[k + 1] = 37 * q[k]
              /\ q[5] < 128 * Shift(Shift(Shift(1)))
          BY ONLY <3>4, PowersAre
        <4>2. PICK p0, p1, p2, p3, p4, p5 : /\ p0 = q[0] /\ p1 = q[1] /\ p2 = q[2]
                                            /\ p3 = q[3] /\ p4 = q[4] /\ p5 = q[5]
          OBVIOUS
        <4>3. /\ p0 \in Nat /\ p1 \in Nat /\ p2 \in Nat /\ p3 \in Nat /\ p4 \in Nat /\ p5 \in Nat
          <5>1. /\ q[0] \in Nat /\ q[1] \in Nat /\ q[2] \in Nat
                /\ q[3] \in Nat /\ q[4] \in Nat /\ q[5] \in Nat
            BY ONLY <4>1
          <5> QED BY ONLY <4>2, <5>1, Zenon
        <4>4. p1 = 37 * p0 /\ p2 = 37 * p1 /\ p3 = 37 * p2 /\ p4 = 37 * p3 /\ p5 = 37 * p4
          <5>1. /\ q[0 + 1] = 37 * q[0] /\ q[1 + 1] = 37 * q[1] /\ q[2 + 1] = 37 * q[2]
                /\ q[3 + 1] = 37 * q[3] /\ q[4 + 1] = 37 * q[4]
            BY ONLY <4>1
          <5>2. 0 + 1 = 1 /\ 1 + 1 = 2 /\ 2 + 1 = 3 /\ 3 + 1 = 4 /\ 4 + 1 = 5
            OBVIOUS
          <5> QED BY ONLY <4>2, <5>1, <5>2, Zenon
        <4>5. p0 <= p5 /\ p1 <= p5 /\ p2 <= p5 /\ p3 <= p5 /\ p4 <= p5 /\ p5 <= p5
          BY ONLY <4>3, <4>4
        <4>6. r = 0 \/ r = 1 \/ r = 2 \/ r = 3 \/ r = 4 \/ r = 5
          BY ONLY <3>3
        <4>7. q[r] <= q[5] /\ q[r] \in Nat
          BY ONLY <4>2, <4>3, <4>5, <4>6, Zenon
        <4>8. q[5] \in Nat
          BY ONLY <4>2, <4>3, Zenon
        <4> QED BY ONLY <4>1, <4>7, <4>8, Zenon
      <3>9. Value(l) \in Nat
        BY ONLY <2>11, ValueIs
      <3>10. Value(l) < 128 * Shift(Shift(Shift(1)))
        BY ONLY <3>7, <3>8, <3>9 DEF Shift
      <3> QED BY ONLY <2>11, <3>10, SmallIs
    <2> QED BY ONLY <1>9, <2>8, <2>9, <2>10, <2>11, <2>12, Zenon
  <1> QED BY ONLY <1>10, <1>11, Zenon

----------------------------------------------------------------------------
(* UpdateState *)

\* The size of an appearance, as it is written and as it is read.
LEMMA SizeCoded == Coded(10, "C") = 246 /\ Decoded(246, "C") = 10 /\ 246 \in Bytes
  <1>1. \A b \in Int : Coded(b, "C") = (-b) % 256 /\ Decoded(b, "C") = (-b) % 256
    BY DEF Coded, Decoded
  <1>2. \A b \in Int : (b = 10 => (-b) % 256 = 246) /\ (b = 246 => (-b) % 256 = 10)
    OBVIOUS
  <1>3. 246 \in Bytes
    BY DEF Bytes
  <1> QED BY ONLY <1>1, <1>2, <1>3

\* A byte before others.
LEMMA PrependedByte ==
  \A x \in Bytes, b \in Seq(Bytes) :
     /\ <<x>> \o b \in Seq(Bytes) /\ Len(<<x>> \o b) = Len(b) + 1
     /\ (<<x>> \o b)[1] = x
     /\ \A j \in 1 .. Len(b) : (<<x>> \o b)[j + 1] = b[j]
  BY Prepended

\* An appearance: its size, what is before the name, the eight bytes of the name, the rest.
LEMMA AppearanceIs ==
  ASSUME NEW name \in Seq(Bytes)
  PROVE  /\ AppendAppearance(name) \in Seq(Bytes) /\ Len(AppendAppearance(name)) = 11
         /\ AppendAppearance(name)[1] = 246
         /\ \A k \in 1 .. 8 :
              AppendAppearance(name)[2 + k] = Shortened(PlayerNameToInt64(name))[k]
  <1>1. PICK v : v = Shortened(PlayerNameToInt64(name))
    OBVIOUS
  <1>2. v \in Seq(Bytes) /\ Len(v) = 8
    <2>1. IsLong(PlayerNameToInt64(name))
      BY NameKept
    <2> QED BY <1>1, <2>1, ShortenedIs DEF IsLong
  <1>3. 0 \in Bytes /\ 3 \in Bytes
    BY DEF Bytes
  <1>4. PICK a : a = Look \o v
    OBVIOUS
  <1>5. a \in Seq(Bytes) /\ Len(a) = 9 /\ \A k \in 1 .. 8 : a[k + 1] = v[k]
    <2>1. a = <<0>> \o v
      BY <1>4 DEF Look
    <2>0. /\ <<0>> \o v \in Seq(Bytes) /\ Len(<<0>> \o v) = Len(v) + 1
          /\ \A j \in 1 .. Len(v) : (<<0>> \o v)[j + 1] = v[j]
      BY ONLY <1>2, <1>3, PrependedByte, ZenonT(60)
    <2>2. a \in Seq(Bytes) /\ Len(a) = Len(v) + 1 /\ \A j \in 1 .. Len(v) : a[j + 1] = v[j]
      BY ONLY <2>0, <2>1, Zenon
    <2> QED BY ONLY <1>2, <2>2
  <1>6. PICK b : b = a \o Level
    OBVIOUS
  <1>7. b \in Seq(Bytes) /\ Len(b) = 10 /\ \A k \in 1 .. 9 : b[k] = a[k]
    <2>1. b = Append(a, 3)
      BY ONLY <1>5, <1>6 DEF Level
    <2>0. /\ Append(a, 3) \in Seq(Bytes) /\ Len(Append(a, 3)) = Len(a) + 1
          /\ \A i \in 1 .. Len(a) : Append(a, 3)[i] = a[i]
      <3>1. a \in Seq(Bytes)
        BY ONLY <1>5
      <3>2. \A x \in Bytes : /\ Append(a, x) \in Seq(Bytes) /\ Len(Append(a, x)) = Len(a) + 1
                            /\ \A i \in 1 .. Len(a) : Append(a, x)[i] = a[i]
        BY ONLY <3>1
      <3> QED BY ONLY <1>3, <3>2
    <2>2. b \in Seq(Bytes) /\ Len(b) = Len(a) + 1 /\ \A i \in 1 .. Len(a) : b[i] = a[i]
      BY ONLY <2>0, <2>1, Zenon
    <2> QED BY ONLY <1>5, <2>2
  <1>8. PICK c : c = <<246>> \o b
    OBVIOUS
  <1>9. /\ c \in Seq(Bytes) /\ Len(c) = 11 /\ c[1] = 246
        /\ \A j \in 1 .. 10 : c[j + 1] = b[j]
    <2>0. /\ <<246>> \o b \in Seq(Bytes) /\ Len(<<246>> \o b) = Len(b) + 1
          /\ (<<246>> \o b)[1] = 246 /\ \A j \in 1 .. Len(b) : (<<246>> \o b)[j + 1] = b[j]
      <3>1. 246 \in Bytes
        BY SizeCoded
      <3> QED BY ONLY <1>7, <3>1, PrependedByte, ZenonT(60)
    <2>1. /\ c \in Seq(Bytes) /\ Len(c) = Len(b) + 1 /\ c[1] = 246
          /\ \A j \in 1 .. Len(b) : c[j + 1] = b[j]
      BY ONLY <1>8, <2>0, ZenonT(60)
    <2> QED BY ONLY <1>7, <2>1
  <1>10. AppendAppearance(name) = c
    <2>1. AppendAppearance(name) = <<Coded(Len(b), "C")>> \o b
      BY ONLY <1>1, <1>4, <1>6, Zenon DEF AppendAppearance
    <2> QED BY ONLY <1>7, <1>8, <2>1, SizeCoded, Zenon
  <1>11. ASSUME NEW k \in 1 .. 8 PROVE c[2 + k] = v[k]
    <2>1. k + 1 \in 1 .. 9 /\ k + 1 \in 1 .. 10 /\ (k + 1) + 1 = 2 + k
      OBVIOUS
    <2>0. c[(k + 1) + 1] = b[k + 1] /\ b[k + 1] = a[k + 1]
      BY ONLY <1>7, <1>9, <2>1
    <2>2. c[(k + 1) + 1] = a[k + 1]
      BY ONLY <2>0, Zenon
    <2>3. a[k + 1] = v[k]
      BY ONLY <1>5, k \in 1 .. 8, Zenon
    <2> QED BY ONLY <2>1, <2>2, <2>3, Zenon
  <1> QED BY ONLY <1>1, <1>9, <1>10, <1>11, Zenon

\* The bytes UpdateState makes: none, the mask of no appearance, or that of an appearance
\* and it.
LEMMA StateIs ==
  ASSUME NEW u \in Updates
  PROVE  /\ UpdateState(u) \in Seq(Bytes)
         /\ u.needed = FALSE => UpdateState(u) = <<>> /\ Len(UpdateState(u)) = 0
         /\ u.needed = TRUE /\ u.appearance = FALSE =>
              Len(UpdateState(u)) = 1 /\ UpdateState(u)[1] = 0
         /\ u.appearance = TRUE =>
              /\ u.name \in Seq(Bytes) /\ Len(UpdateState(u)) = 12
              /\ UpdateState(u)[1] = 16 /\ UpdateState(u)[2] = 246
              /\ \A k \in 1 .. 8 :
                   UpdateState(u)[3 + k] = Shortened(PlayerNameToInt64(u.name))[k]
  <1> DEFINE s == UpdateState(u)
  <1>1. \/ u.needed = FALSE /\ u.appearance = FALSE
        \/ u.needed = TRUE /\ u.appearance = FALSE
        \/ u.needed = TRUE /\ u.appearance = TRUE /\ u.name \in Names
    BY UpdateIs
  <1>2. CASE u.needed = FALSE /\ u.appearance = FALSE
    <2>1. s = <<>>
      BY ONLY <1>2, Zenon DEF UpdateState
    <2> HIDE DEF s
    <2>2. s \in Seq(Bytes) /\ Len(s) = 0
      BY ONLY <2>1
    <2> QED BY ONLY <1>2, <2>1, <2>2, Zenon DEF s
  <1>3. CASE u.needed = TRUE /\ u.appearance = FALSE
    <2>1. s = <<0>>
      BY ONLY <1>3, Zenon DEF UpdateState
    <2> HIDE DEF s
    <2>2. s \in Seq(Bytes) /\ Len(s) = 1 /\ s[1] = 0
      BY ONLY <2>1 DEF Bytes
    <2> QED BY ONLY <1>3, <2>2, Zenon DEF s
  <1>4. CASE u.needed = TRUE /\ u.appearance = TRUE /\ u.name \in Names
    <2>1. PICK a : a = AppendAppearance(u.name)
      OBVIOUS
    <2>2. s = <<16>> \o a
      BY ONLY <1>4, <2>1, Zenon DEF UpdateState
    <2>3. u.name \in Seq(Bytes)
      BY <1>4, NamesAssumption
    <2>4. /\ a \in Seq(Bytes) /\ Len(a) = 11 /\ a[1] = 246
          /\ \A k \in 1 .. 8 : a[2 + k] = Shortened(PlayerNameToInt64(u.name))[k]
      <3>1. /\ AppendAppearance(u.name) \in Seq(Bytes) /\ Len(AppendAppearance(u.name)) = 11
            /\ AppendAppearance(u.name)[1] = 246
            /\ \A k \in 1 .. 8 :
                 AppendAppearance(u.name)[2 + k] = Shortened(PlayerNameToInt64(u.name))[k]
        BY ONLY <2>3, AppearanceIs
      <3> QED BY ONLY <2>1, <3>1, Zenon
    <2> HIDE DEF s
    <2>5. /\ s \in Seq(Bytes) /\ Len(s) = 12 /\ s[1] = 16
          /\ \A j \in 1 .. 11 : s[j + 1] = a[j]
      <3>1. 16 \in Bytes
        BY DEF Bytes
      <3>0. /\ <<16>> \o a \in Seq(Bytes) /\ Len(<<16>> \o a) = Len(a) + 1
            /\ (<<16>> \o a)[1] = 16 /\ \A j \in 1 .. Len(a) : (<<16>> \o a)[j + 1] = a[j]
        <4>1. a \in Seq(Bytes)
          BY ONLY <2>4
        <4> QED BY ONLY <3>1, <4>1, PrependedByte
      <3>2. /\ s \in Seq(Bytes) /\ Len(s) = Len(a) + 1 /\ s[1] = 16
            /\ \A j \in 1 .. Len(a) : s[j + 1] = a[j]
        BY ONLY <2>2, <3>0, Zenon
      <3> QED BY ONLY <2>4, <3>2
    <2>6. s[2] = 246
      <3>1. s[1 + 1] = a[1] /\ 1 + 1 = 2
        BY ONLY <2>5
      <3> QED BY ONLY <2>4, <3>1
    <2>7. ASSUME NEW k \in 1 .. 8 PROVE s[3 + k] = Shortened(PlayerNameToInt64(u.name))[k]
      <3>1. 2 + k \in 1 .. 11 /\ (2 + k) + 1 = 3 + k
        OBVIOUS
      <3>2. s[(2 + k) + 1] = a[2 + k]
        BY ONLY <2>5, <3>1, Zenon
      <3>3. a[2 + k] = Shortened(PlayerNameToInt64(u.name))[k]
        BY ONLY <2>4, k \in 1 .. 8, Zenon
      <3> QED BY ONLY <3>1, <3>2, <3>3, Zenon
    <2> QED BY ONLY <1>4, <2>3, <2>5, <2>6, <2>7, Zenon DEF s
  <1> QED BY ONLY <1>1, <1>2, <1>3, <1>4, Zenon

----------------------------------------------------------------------------
(* The calls of WriteBits for a part *)

\* A width and a value.
FieldsOf == (1 .. MaxWidth) \X Int

\* Fields are pairs.
LEMMA FieldsTyped ==
  ASSUME NEW fields \in Seq(FieldsOf)
  PROVE  /\ Len(fields) \in Nat /\ AreFields(fields, Len(fields)) /\ fields \in Seq(Int \X Int)
  <1>1. Len(fields) \in Nat
    OBVIOUS
  <1>2. ASSUME NEW k \in 1 .. Len(fields)
        PROVE  fields[k][1] \in 1 .. MaxWidth /\ fields[k][2] \in Int /\ fields[k] \in Int \X Int
    <2>1. fields[k] \in FieldsOf
      BY ElementOfSeq
    <2> QED BY <2>1 DEF FieldsOf
  <1>3. AreFields(fields, Len(fields))
    BY <1>2 DEF AreFields
  <1>4. fields \in Seq(Int \X Int)
    <2>1. fields = [k \in 1 .. Len(fields) |-> fields[k]]
      OBVIOUS
    <2> QED BY <1>1, <1>2, <2>1
  <1> QED BY <1>1, <1>3, <1>4

\* A flag is a field.
LEMMA FlagTyped == ASSUME NEW b \in BOOLEAN PROVE Flag(b) \in FieldsOf
  <1>1. Flag(b) = <<1, 1>> \/ Flag(b) = <<1, 0>>
    BY DEF Flag
  <1> QED BY <1>1, FieldWidths DEF FieldsOf

\* So are the others.
LEMMA WidthsTyped ==
  \A x \in Int : /\ <<2, x>> \in FieldsOf /\ <<3, x>> \in FieldsOf /\ <<5, x>> \in FieldsOf
                 /\ <<7, x>> \in FieldsOf /\ <<8, x>> \in FieldsOf /\ <<11, x>> \in FieldsOf
  BY FieldWidths DEF FieldsOf

\* The fields of a movement.
LEMMA MovementTyped ==
  ASSUME NEW m \in Seq(0 .. 7), Len(m) <= 2, NEW u, u.needed \in BOOLEAN
  PROVE  MovementFields(m, u) \in Seq(FieldsOf)
  <1> DEFINE fields == MovementFields(m, u)
  <1>1. \A a, b, c, d, e \in FieldsOf :
          /\ <<a>> \in Seq(FieldsOf) /\ <<a, b>> \in Seq(FieldsOf)
          /\ <<a, b, c, d>> \in Seq(FieldsOf) /\ <<a, b, c, d, e>> \in Seq(FieldsOf)
    OBVIOUS
  <1>2. Flag(TRUE) \in FieldsOf /\ Flag(FALSE) \in FieldsOf /\ Flag(u.needed) \in FieldsOf
    BY FlagTyped
  <1>3. <<2, 2>> \in FieldsOf /\ <<2, 1>> \in FieldsOf /\ <<2, 0>> \in FieldsOf
    <2>1. 0 \in Int /\ 1 \in Int /\ 2 \in Int
      OBVIOUS
    <2> QED BY ONLY <2>1, WidthsTyped, Zenon
  <1>4. \/ m = <<>> /\ Len(m) = 0
        \/ Len(m) = 1 /\ \E x \in 0 .. 7 : m = <<x>> /\ m[1] = x
        \/ Len(m) = 2 /\ \E x, y \in 0 .. 7 : m = <<x, y>> /\ m[1] = x /\ m[2] = y
    BY MoveIs
  <1>5. CASE m = <<>> /\ Len(m) = 0
    <2>1. Len(m) # 1 /\ Len(m) # 2
      BY ONLY <1>5
    <2>2. CASE u.needed = TRUE
      <3>1. fields = <<Flag(TRUE), <<2, 0>>>>
        BY ONLY <1>5, <2>1, <2>2, Zenon DEF MovementFields
      <3>2. <<Flag(TRUE), <<2, 0>>>> \in Seq(FieldsOf)
        BY ONLY <1>1, <1>2, <1>3, Zenon
      <3> QED BY ONLY <3>1, <3>2, Zenon
    <2>3. CASE u.needed = FALSE
      <3>1. fields = <<Flag(FALSE)>>
        BY ONLY <1>5, <2>1, <2>3, Zenon DEF MovementFields
      <3>2. <<Flag(FALSE)>> \in Seq(FieldsOf)
        BY ONLY <1>1, <1>2, <1>3, Zenon
      <3> QED BY ONLY <3>1, <3>2, Zenon
    <2> QED BY ONLY <2>2, <2>3, u.needed \in BOOLEAN, Zenon
  <1>6. CASE Len(m) = 1 /\ \E x \in 0 .. 7 : m = <<x>> /\ m[1] = x
    <2>1. PICK x \in 0 .. 7 : m[1] = x
      BY ONLY <1>6
    <2>2. <<3, x>> \in FieldsOf /\ <<3, m[1]>> = <<3, x>>
      <3>1. x \in Int
        OBVIOUS
      <3> QED BY ONLY <2>1, <3>1, WidthsTyped, Zenon
    <2>3. Len(m) # 2 /\ m # <<>>
      BY ONLY <1>6
    <2>4. fields = <<Flag(TRUE), <<2, 1>>, <<3, m[1]>>, Flag(u.needed)>>
      BY ONLY <1>6, <2>3, Zenon DEF MovementFields
    <2>5. <<Flag(TRUE), <<2, 1>>, <<3, x>>, Flag(u.needed)>> \in Seq(FieldsOf)
      BY ONLY <1>1, <1>2, <1>3, <2>2, Zenon
    <2> QED BY ONLY <2>2, <2>4, <2>5, Zenon
  <1>7. CASE Len(m) = 2 /\ \E x, y \in 0 .. 7 : m = <<x, y>> /\ m[1] = x /\ m[2] = y
    <2>1. PICK x \in 0 .. 7, y \in 0 .. 7 : m[1] = x /\ m[2] = y
      BY ONLY <1>7
    <2>2. /\ <<3, x>> \in FieldsOf /\ <<3, m[1]>> = <<3, x>>
          /\ <<3, y>> \in FieldsOf /\ <<3, m[2]>> = <<3, y>>
      <3>1. x \in Int /\ y \in Int
        OBVIOUS
      <3> QED BY ONLY <2>1, <3>1, WidthsTyped, Zenon
    <2>3. Len(m) # 1 /\ m # <<>>
      BY ONLY <1>7
    <2>4. fields = <<Flag(TRUE), <<2, 2>>, <<3, m[1]>>, <<3, m[2]>>, Flag(u.needed)>>
      BY ONLY <1>7, <2>3, Zenon DEF MovementFields
    <2>5. <<Flag(TRUE), <<2, 2>>, <<3, x>>, <<3, y>>, Flag(u.needed)>> \in Seq(FieldsOf)
      BY ONLY <1>1, <1>2, <1>3, <2>2, Zenon
    <2> QED BY ONLY <2>2, <2>4, <2>5, Zenon
  <1> QED BY ONLY <1>4, <1>5, <1>6, <1>7, Zenon

\* Those of a placement, of a removal and of an addition.
LEMMA PartTyped ==
  ASSUME NEW x \in Int, NEW y \in Int, NEW slot \in Int, NEW d \in BOOLEAN
  PROVE  /\ PlacementFields(x, y, d) \in Seq(FieldsOf) /\ RemovalFields \in Seq(FieldsOf)
         /\ AdditionFields(slot, x, y) \in Seq(FieldsOf)
  <1>1. \A a, b, c, e, f, g, h \in FieldsOf :
          /\ <<a, b>> \in Seq(FieldsOf) /\ <<a, b, c, e, f>> \in Seq(FieldsOf)
          /\ <<a, b, c, e, f, g, h>> \in Seq(FieldsOf)
    OBVIOUS
  <1>2. Flag(TRUE) \in FieldsOf /\ Flag(d) \in FieldsOf
    BY FlagTyped
  <1>3. /\ <<2, 3>> \in FieldsOf /\ <<2, 0>> \in FieldsOf /\ <<7, x>> \in FieldsOf
        /\ <<7, y>> \in FieldsOf /\ <<5, x>> \in FieldsOf /\ <<5, y>> \in FieldsOf
        /\ <<11, slot>> \in FieldsOf
    <2>1. 0 \in Int /\ 3 \in Int
      OBVIOUS
    <2> QED BY <2>1, WidthsTyped, Zenon
  <1>4. PlacementFields(x, y, d) \in Seq(FieldsOf)
    BY ONLY <1>1, <1>2, <1>3, Zenon DEF PlacementFields
  <1>5. RemovalFields \in Seq(FieldsOf)
    BY ONLY <1>1, <1>2, <1>3, Zenon DEF RemovalFields
  <1>6. AdditionFields(slot, x, y) \in Seq(FieldsOf)
    BY ONLY <1>1, <1>2, <1>3, Zenon DEF AdditionFields
  <1> QED BY ONLY <1>4, <1>5, <1>6, Zenon

\* The sizes of lists that eight bits hold.
Sizes == 0 .. 255

\* The size of the list, behind the fields of the player's own part.
LEMMA ListRead ==
  ASSUME NEW bytes, NEW at \in Nat, NEW fields \in Seq(FieldsOf), NEW size \in Sizes, NEW end,
         NEW last, last = <<8, size>>, FieldsFrom(bytes, at, Append(fields, last), end)
  PROVE  \E mid : /\ FieldsFrom(bytes, at, fields, mid)
                  /\ mid \in Nat /\ end = mid + 8 /\ ReadBits(bytes, mid, 8) = size
  <1>1. PICK n, more : n = Len(fields) /\ more = Append(fields, last)
    OBVIOUS
  <1>2. last[1] = 8 /\ last[2] = size /\ last \in Int \X Int
    BY ONLY last = <<8, size>>, size \in Sizes DEF Sizes
  <1>3. n \in Nat /\ fields \in Seq(Int \X Int)
    BY <1>1, FieldsTyped
  <1>4. Len(more) = n + 1
    BY <1>1, <1>2, <1>3, Appended
  <1>5. PICK p : p[0] = at /\ p[n + 1] = end /\ FieldsAt(bytes, p, more, n + 1)
    <2>1. PICK p : p[0] = at /\ p[Len(more)] = end /\ FieldsAt(bytes, p, more, Len(more))
      BY ONLY <1>1, FieldsFrom(bytes, at, Append(fields, last), end), Zenon DEF FieldsFrom
    <2> QED BY ONLY <1>4, <2>1, Zenon
  <1>6. FieldsAt(bytes, p, fields, n) /\ more[n + 1] = last
    <2>1. FieldsAt(bytes, p, Append(fields, last), Len(fields) + 1)
      BY ONLY <1>1, <1>5, Zenon
    <2>2. /\ FieldsAt(bytes, p, fields, Len(fields))
          /\ Append(fields, last)[Len(fields) + 1] = last
      BY ONLY <1>2, <1>3, <2>1, FieldsFirst
    <2> QED BY ONLY <1>1, <2>2, Zenon
  <1>7. FieldsFrom(bytes, at, fields, p[n])
    BY ONLY <1>1, <1>5, <1>6, Zenon DEF FieldsFrom
  <1>8. /\ p[n] \in Nat /\ p[n + 1] = p[n] + 8
        /\ ReadBits(bytes, p[n], 8) = size % Pow2[8]
    <2>1. n + 1 \in 1 .. n + 1 /\ (n + 1) - 1 = n
      BY ONLY <1>3
    <2>2. /\ p[(n + 1) - 1] \in Nat /\ p[n + 1] = p[(n + 1) - 1] + more[n + 1][1]
          /\ ReadBits(bytes, p[(n + 1) - 1], more[n + 1][1]) = more[n + 1][2] % Pow2[more[n + 1][1]]
      BY ONLY <1>5, <2>1, Zenon DEF FieldsAt
    <2> QED BY ONLY <1>2, <1>6, <2>1, <2>2, Zenon
  <1>9. size % Pow2[8] = size
    <2>1. Pow2[8] = 256
      BY Pow2Byte
    <2>2. size % 256 = size
      BY DEF Sizes
    <2> QED BY ONLY <2>1, <2>2
  <1>10. end = p[n] + 8 /\ ReadBits(bytes, p[n], 8) = size
    BY ONLY <1>5, <1>8, <1>9, Zenon
  <1> QED BY ONLY <1>7, <1>8, <1>10, Zenon

----------------------------------------------------------------------------
(* The steps *)

\* A part: its fields can be read behind everything else, which stays.
LEMMA SaysIs ==
  ASSUME Inv, ~InBytes, block \in Seq(Bytes), NEW m, NEW u \in Updates,
         NEW fields \in Seq(FieldsOf), Says(m, u, fields)
  PROVE  /\ Inv' /\ ~InBytes'
         /\ bitPosition \in Nat /\ bitPosition' \in Nat /\ bitPosition <= bitPosition'
         /\ Agrees(buffer', buffer, bitPosition)
         /\ FieldsFrom(buffer', bitPosition, fields, bitPosition')
         /\ UpdateState(u) \in Seq(Bytes) /\ block' = block \o UpdateState(u)
         /\ block' \in Seq(Bytes) /\ Len(block') \in Nat
         /\ said' = Append(said, [means |-> m, update |-> u,
                                  end |-> bitPosition', attributes |-> Len(block')])
  <1>1. /\ buffer' = PutFields(buffer, bitPosition, fields).bytes
        /\ bitPosition' = PutFields(buffer, bitPosition, fields).at
        /\ block' = block \o UpdateState(u)
        /\ said' = Append(said, [means |-> m, update |-> u,
                                 end |-> bitPosition', attributes |-> Len(block')])
        /\ UNCHANGED <<pos, access, frame, header, items, finished>>
    BY DEF Says
  <1>2. /\ buffer \in Seq(Bytes) /\ Len(buffer) \in Nat /\ pos \in 0 .. Len(buffer) /\ pos \in Nat
        /\ bitPosition \in Nat /\ bitPosition <= 8 * Len(buffer)
    BY DEF Inv, TypeOK
  <1>3. PICK n : n = Len(fields)
    OBVIOUS
  <1>4. n \in Nat /\ AreFields(fields, n)
    BY ONLY <1>3, fields \in Seq(FieldsOf), FieldsTyped
  <1>5. PICK put : put = PutFields(buffer, bitPosition, fields)
    OBVIOUS
  <1>6. /\ put.bytes \in Seq(Bytes) /\ Len(buffer) <= Len(put.bytes)
        /\ put.at \in Nat /\ bitPosition <= put.at /\ put.at <= 8 * Len(put.bytes)
        /\ Agrees(put.bytes, buffer, bitPosition)
        /\ \E p : p[0] = bitPosition /\ p[n] = put.at /\ FieldsAt(put.bytes, p, fields, n)
    <2>1. LET q == PutFields(buffer, bitPosition, fields)
          IN  /\ q.bytes \in Seq(Bytes) /\ Len(buffer) <= Len(q.bytes)
              /\ q.at \in Nat /\ bitPosition <= q.at /\ q.at <= 8 * Len(q.bytes)
              /\ Agrees(q.bytes, buffer, bitPosition)
              /\ \E p : p[0] = bitPosition /\ p[n] = q.at /\ FieldsAt(q.bytes, p, fields, n)
      BY <1>2, <1>3, <1>4, FieldsPut, ZenonT(60)
    <2> QED BY ONLY <1>5, <2>1, Zenon
  <1>7. buffer' = put.bytes /\ bitPosition' = put.at
    BY ONLY <1>1, <1>5, Zenon
  <1>8. /\ buffer' \in Seq(Bytes) /\ Len(buffer) <= Len(buffer')
        /\ bitPosition' \in Nat /\ bitPosition <= bitPosition' /\ bitPosition' <= 8 * Len(buffer')
        /\ Agrees(buffer', buffer, bitPosition)
        /\ \E p : p[0] = bitPosition /\ p[n] = bitPosition' /\ FieldsAt(buffer', p, fields, n)
    BY ONLY <1>6, <1>7, Zenon
  <1>9. FieldsFrom(buffer', bitPosition, fields, bitPosition')
    BY ONLY <1>3, <1>8, Zenon DEF FieldsFrom
  <1>10. TypeOK'
    <2>1. pos' \in 0 .. Len(buffer') /\ bitPosition' \in 0 .. 8 * Len(buffer')
      <3>1. Len(buffer') \in Nat
        BY <1>8
      <3> QED BY ONLY <1>1, <1>2, <1>8, <3>1
    <2> QED BY <1>1, <1>8, <2>1 DEF Inv, TypeOK
  <1>11. ~InBytes' /\ Here = bitPosition /\ Here' = bitPosition'
    BY <1>1 DEF Here, InBytes
  <1>12. bitPosition >= 8 * pos /\ ~finished
    BY DEF Inv, Progress
  <1>13. Progress'
    <2>1. bitPosition' >= 8 * pos'
      BY ONLY <1>1, <1>2, <1>8, <1>12
    <2> QED BY <1>1, <1>11, <1>12, <2>1 DEF Inv, Progress
  <1>14. SizeFieldRight'
    BY <1>1, <1>12 DEF SizeFieldRight
  <1>15. AllStored'
    <2>1. Here' \in Nat /\ Here <= Here' /\ Agrees(buffer', buffer, Here)
      BY ONLY <1>8, <1>11, Zenon
    <2> QED BY <1>1, <2>1, StoredBefore
  <1>16. Inv'
    BY <1>10, <1>13, <1>14, <1>15 DEF Inv
  <1>17. UpdateState(u) \in Seq(Bytes)
    BY StateIs
  <1>18. block \o UpdateState(u) \in Seq(Bytes) /\ Len(block \o UpdateState(u)) \in Nat
    BY <1>17, ConcatProperties
  <1> QED BY ONLY <1>1, <1>2, <1>8, <1>9, <1>11, <1>16, <1>17, <1>18, Zenon

\* Bytes that agree with others have their bits.
LEMMA AgreesSame ==
  ASSUME NEW new, NEW old, NEW place, Agrees(new, old, place), NEW from
  PROVE  SameBits(new, old, from, place)
  BY DEF Agrees, SameBits

\* What is kept of a part that has been said.
LEMMA SentenceMade ==
  ASSUME NEW m \in Meanings, NEW u \in Updates, NEW end \in Nat, NEW n \in Nat
  PROVE  LET e == [means |-> m, update |-> u, end |-> end, attributes |-> n]
         IN  /\ e \in Sentences /\ e.means = m /\ e.update = u /\ e.end = end /\ e.attributes = n
             /\ AsMeant(e) = Part(m, u.needed, end)
  BY DEF Sentences, AsMeant

\* The values of the constants.
LEMMA ConstantsAre ==
  /\ \A m \in Moves : m \in Seq(0 .. 7) /\ Len(m) <= 2
  /\ \A x \in Locals : x \in 0 .. 127
  /\ \A x \in Offsets : x \in -16 .. 15
  /\ \A x \in SlotsSent : x \in Nat /\ x < EndMark
  /\ \A x \in 0 .. MaxParts - 1 : x \in 0 .. 255
  <1>1. \A m \in Moves : m \in Seq(0 .. 7) /\ Len(m) <= 2
    BY PartsAssumption
  <1>2. Locals \subseteq 0 .. 127 /\ Offsets \subseteq -16 .. 15
    BY PartsAssumption
  <1>3. SlotsSent \subseteq 0 .. 2046 /\ MaxParts \in 1 .. 255
    BY PartsAssumption
  <1>4. \A x \in SlotsSent : x \in Nat /\ x < EndMark
    BY ONLY <1>3 DEF EndMark
  <1>5. \A x \in 0 .. MaxParts - 1 : x \in 0 .. 255
    BY ONLY <1>3
  <1>6. \A x \in Locals : x \in 0 .. 127
    BY ONLY <1>2
  <1>7. \A x \in Offsets : x \in -16 .. 15
    BY ONLY <1>2
  <1> QED BY ONLY <1>1, <1>4, <1>5, <1>6, <1>7

\* A movement, or nothing, can be meant.
LEMMA MeantIs ==
  ASSUME NEW m \in Moves, NEW u \in Updates
  PROVE  Meant(m, u) \in Meanings
  <1>1. Meant(m, u) = Nothing \/ Meant(m, u) = Movement(m)
    BY Zenon DEF Meant
  <1>2. Meanings = {Nothing, Removal} \cup {Movement(x) : x \in Moves} \cup Placements \cup Additions
    BY DEF Meanings
  <1>3. Nothing \in Meanings /\ Movement(m) \in Meanings
    BY ONLY <1>2, m \in Moves
  <1> QED BY ONLY <1>1, <1>3, Zenon

\* So can a placement and an addition.
LEMMA MeaningsAre ==
  /\ Removal \in Meanings
  /\ \A x, y \in Locals, discard \in BOOLEAN : Placement(x, y, discard) \in Meanings
  /\ \A slot \in SlotsSent, x, y \in Offsets : Addition(slot, x, y) \in Meanings
  <1>1. Meanings = {Nothing, Removal} \cup {Movement(x) : x \in Moves} \cup Placements \cup Additions
    BY DEF Meanings
  <1>2. Removal \in Meanings /\ Placements \subseteq Meanings /\ Additions \subseteq Meanings
    BY ONLY <1>1
  <1>3. \A x, y \in Locals, discard \in BOOLEAN : Placement(x, y, discard) \in Placements
    BY DEF Placements
  <1>4. \A slot \in SlotsSent, x, y \in Offsets : Addition(slot, x, y) \in Additions
    BY DEF Additions
  <1> QED BY ONLY <1>2, <1>3, <1>4, Zenon

\* What is kept of a part is written with it, and its attributes are in the block.
LEMMA SaidIs ==
  ASSUME PacketInv, stage \in {"self", "list"}, NEW m \in Meanings, NEW u \in Updates,
         NEW fields \in Seq(FieldsOf), Says(m, u, fields)
  PROVE  \E e \in Sentences :
           /\ e.means = m /\ e.update = u /\ e.end = bitPosition'
           /\ AsMeant(e) = Part(m, u.needed, bitPosition')
           /\ said' = Append(said, e) /\ said' \in Seq(Sentences) /\ said' # <<>>
           /\ Len(said') = Len(said) + 1 /\ said'[Len(said) + 1] = e /\ Len(said) \in Nat
           /\ Inv' /\ ~InBytes' /\ block' \in Seq(Bytes)
           /\ bitPosition \in Nat /\ bitPosition' \in Nat
           /\ Agrees(buffer', buffer, bitPosition)
           /\ FieldsFrom(buffer', bitPosition, fields, bitPosition')
           /\ BlocksStored(said', block')
  <1>1. Inv /\ block \in Seq(Bytes) /\ said \in Seq(Sentences) /\ stage # "other"
    BY DEF PacketInv, PacketTypeOK
  <1>2. ~InBytes
    BY DEF PacketInv, StageInv
  <1>3. /\ Inv' /\ ~InBytes'
        /\ bitPosition \in Nat /\ bitPosition' \in Nat /\ bitPosition <= bitPosition'
        /\ Agrees(buffer', buffer, bitPosition)
        /\ FieldsFrom(buffer', bitPosition, fields, bitPosition')
        /\ UpdateState(u) \in Seq(Bytes) /\ block' = block \o UpdateState(u)
        /\ block' \in Seq(Bytes) /\ Len(block') \in Nat
        /\ said' = Append(said, [means |-> m, update |-> u,
                                 end |-> bitPosition', attributes |-> Len(block')])
    BY ONLY <1>1, <1>2, m \in Meanings, u \in Updates, fields \in Seq(FieldsOf),
            Says(m, u, fields), SaysIs
  <1>4. PICK e : e = [means |-> m, update |-> u, end |-> bitPosition', attributes |-> Len(block')]
    OBVIOUS
  <1>5. /\ e \in Sentences /\ e.means = m /\ e.update = u /\ e.end = bitPosition'
        /\ e.attributes = Len(block') /\ AsMeant(e) = Part(m, u.needed, bitPosition')
    <2>1. PICK end, n : end = bitPosition' /\ n = Len(block')
      OBVIOUS
    <2>2. end \in Nat /\ n \in Nat
      BY ONLY <1>3, <2>1, Zenon
    <2>3. e = [means |-> m, update |-> u, end |-> end, attributes |-> n]
      BY ONLY <1>4, <2>1, Zenon
    <2>4. LET s == [means |-> m, update |-> u, end |-> end, attributes |-> n]
          IN  /\ s \in Sentences /\ s.means = m /\ s.update = u /\ s.end = end /\ s.attributes = n
              /\ AsMeant(s) = Part(m, u.needed, end)
      BY ONLY <2>2, m \in Meanings, u \in Updates, SentenceMade
    <2> QED BY ONLY <2>1, <2>3, <2>4, Zenon
  <1>6. said' = Append(said, e)
    BY ONLY <1>3, <1>4, Zenon
  <1>7. /\ said' \in Seq(Sentences) /\ Len(said') = Len(said) + 1 /\ Len(said) \in Nat
        /\ said'[Len(said) + 1] = e
    <2>1. /\ Append(said, e) \in Seq(Sentences) /\ Len(Append(said, e)) = Len(said) + 1
          /\ Len(said) \in Nat /\ Append(said, e)[Len(said) + 1] = e
      BY ONLY <1>1, <1>5, Appended
    <2> QED BY ONLY <1>6, <2>1, Zenon
  <1>8. said' # <<>>
    BY ONLY <1>7
  <1>9. BlocksStored(said', block')
    <2>1. BlocksStored(said, block)
      BY <1>1 DEF PacketInv
    <2>2. PICK state : state = UpdateState(u)
      OBVIOUS
    <2>3. /\ state \in Seq(Bytes) /\ state = UpdateState(e.update)
          /\ e.attributes = Len(block \o state)
      BY ONLY <1>3, <1>5, <2>2, Zenon
    <2>4. BlocksStored(Append(said, e), block \o state)
      BY ONLY <1>1, <1>5, <2>1, <2>3, BlockAdded
    <2> QED BY ONLY <1>3, <1>6, <2>2, <2>4, Zenon
  <1> QED BY ONLY <1>3, <1>5, <1>6, <1>7, <1>8, <1>9, Zenon

\* UpdateLocalPlayerMovement, and the size of the list.
LEMMA SelfStep ==
  ASSUME PacketInv, stage = "self", stage' = "list", UNCHANGED listed,
         NEW m \in Meanings, NEW u \in Updates, NEW fields \in Seq(FieldsOf),
         Says(m, u, Append(fields, <<8, listed>>)),
         \A bytes, end : FieldsFrom(bytes, 24, fields, end) =>
           ReadMovement(bytes, 24, TRUE) = Part(m, u.needed, end) /\ end \in Nat /\ 24 < end
  PROVE  PacketInv'
  <1>1. /\ listed \in 0 .. MaxParts - 1 /\ listed \in 0 .. 255 /\ listed \in Nat /\ said = <<>>
        /\ bitPosition = 24
    <2>1. listed \in 0 .. MaxParts - 1 /\ said = <<>> /\ bitPosition = 24
      BY DEF PacketInv, PacketTypeOK, StageInv
    <2>2. listed \in 0 .. 255
      BY ONLY <2>1, ConstantsAre
    <2> QED BY ONLY <2>1, <2>2
  <1>2. PICK all : all = Append(fields, <<8, listed>>)
    OBVIOUS
  <1>3. all \in Seq(FieldsOf)
    <2>1. listed \in Int
      BY ONLY <1>1
    <2>2. PICK last : last = <<8, listed>>
      OBVIOUS
    <2>3. last \in FieldsOf
      BY ONLY <2>1, <2>2, WidthsTyped, Zenon
    <2>4. Append(fields, last) \in Seq(FieldsOf)
      BY ONLY <2>3, fields \in Seq(FieldsOf), Appended
    <2> QED BY ONLY <1>2, <2>2, <2>4, Zenon
  <1>4. Says(m, u, all)
    BY ONLY <1>2, Says(m, u, Append(fields, <<8, listed>>)), Zenon
  <1>5. PICK e \in Sentences :
          /\ e.means = m /\ e.update = u /\ e.end = bitPosition'
          /\ AsMeant(e) = Part(m, u.needed, bitPosition')
          /\ said' = Append(said, e) /\ said' \in Seq(Sentences) /\ said' # <<>>
          /\ Len(said') = Len(said) + 1 /\ said'[Len(said) + 1] = e /\ Len(said) \in Nat
          /\ Inv' /\ ~InBytes' /\ block' \in Seq(Bytes)
          /\ bitPosition \in Nat /\ bitPosition' \in Nat
          /\ Agrees(buffer', buffer, bitPosition)
          /\ FieldsFrom(buffer', bitPosition, all, bitPosition')
          /\ BlocksStored(said', block')
    <2>1. stage \in {"self", "list"}
      OBVIOUS
    <2> QED BY ONLY PacketInv, <1>3, <1>4, <2>1, m \in Meanings, u \in Updates, SaidIs
  <1>6. PICK b, end : b = buffer' /\ end = bitPosition'
    OBVIOUS
  <1>7. PICK mid : /\ FieldsFrom(b, 24, fields, mid)
                   /\ mid \in Nat /\ end = mid + 8 /\ ReadBits(b, mid, 8) = listed
    <2>1. PICK size : size = listed
      OBVIOUS
    <2>2. FieldsFrom(b, 24, Append(fields, <<8, size>>), end) /\ size \in 0 .. 255
      BY ONLY <1>1, <1>2, <1>5, <1>6, <2>1, Zenon
    <2>3. 24 \in Nat
      OBVIOUS
    <2>4. \E mid : /\ FieldsFrom(b, 24, fields, mid)
                   /\ mid \in Nat /\ end = mid + 8 /\ ReadBits(b, mid, 8) = size
      <3>1. PICK last : last = <<8, size>>
        OBVIOUS
      <3>2. FieldsFrom(b, 24, Append(fields, last), end)
        BY ONLY <2>2, <3>1, Zenon
      <3>3. PICK at : at = 24
        OBVIOUS
      <3>4. at \in Nat /\ FieldsFrom(b, at, Append(fields, last), end)
        BY ONLY <2>3, <3>2, <3>3, Zenon
      <3>5. size \in Sizes
        BY ONLY <2>2 DEF Sizes
      <3>6. \E mid : /\ FieldsFrom(b, at, fields, mid)
                     /\ mid \in Nat /\ end = mid + 8 /\ ReadBits(b, mid, 8) = size
        BY ONLY <3>1, <3>4, <3>5, fields \in Seq(FieldsOf), ListRead
      <3> QED BY ONLY <3>3, <3>6, Zenon
    <2> QED BY ONLY <2>1, <2>4, Zenon
  <1>8. ReadMovement(b, 24, TRUE) = Part(m, u.needed, mid) /\ 24 < mid
    BY ONLY <1>7, \A bytes, to : FieldsFrom(bytes, 24, fields, to) =>
         ReadMovement(bytes, 24, TRUE) = Part(m, u.needed, to) /\ to \in Nat /\ 24 < to, Zenon
  <1>9. said' = <<e>> /\ said'[Len(said')] = e /\ Len(said') # 0
    <2>1. said' = Append(<<>>, e) /\ Len(said) = 0
      BY ONLY <1>1, <1>5
    <2>2. Append(<<>>, e) = <<e>>
      OBVIOUS
    <2>3. Len(said') = Len(said) + 1 /\ Len(said) + 1 # 0
      BY ONLY <1>5
    <2> QED BY ONLY <1>5, <2>1, <2>2, <2>3, Zenon
  <1>10. PartsStored(b, <<e>>, listed, e.end)
    <2>1. e.end = mid + 8 /\ ReadMovement(b, 24, TRUE) = Part(e.means, e.update.needed, mid)
      BY ONLY <1>5, <1>6, <1>7, <1>8, Zenon
    <2>2. mid > 24
      BY ONLY <1>7, <1>8
    <2>3. PICK more \in Nat : more = listed
      BY ONLY <1>1
    <2>4. ReadBits(b, mid, 8) = more
      BY ONLY <1>7, <2>3, Zenon
    <2>5. PartsStored(b, <<e>>, more, e.end)
      BY ONLY <1>5, <1>7, <2>1, <2>2, <2>4, SelfAdded
    <2> QED BY ONLY <2>3, <2>5, Zenon
  <1>11. PartsStored(buffer', said', listed', bitPosition')
    <2>1. listed' = listed
      OBVIOUS
    <2> QED BY ONLY <1>5, <1>6, <1>9, <1>10, <2>1, Zenon
  <1>12. PacketTypeOK'
    BY <1>1, <1>5 DEF PacketTypeOK
  <1>13. bitPosition' = Ended(said', Len(said'))
    BY ONLY <1>5, <1>9, Zenon DEF Ended
  <1>14. StageInv'
    BY ONLY <1>5, <1>13, stage' = "list" DEF StageInv
  <1> QED BY <1>5, <1>11, <1>12, <1>14 DEF PacketInv

\* An entry of the local list, or a new player.
LEMMA OtherStep ==
  ASSUME PacketInv, stage = "list", stage' = "list", listed' \in 0 .. MaxParts - 1,
         NEW m \in Meanings, NEW u \in Updates, NEW fields \in Seq(FieldsOf), Says(m, u, fields),
         \A bytes, end : \A at \in Nat : FieldsFrom(bytes, at, fields, end) =>
           /\ at < end
           /\ \/ /\ listed > 0 /\ listed' = listed - 1
                 /\ ReadMovement(bytes, at, FALSE) = Part(m, u.needed, end)
              \/ /\ listed = 0 /\ listed' = 0
                 /\ ReadAddition(bytes, at) = Part(m, u.needed, end)
                 /\ ReadBits(bytes, at, 11) # EndMark /\ end = at + 23
  PROVE  PacketInv'
  <1>1. /\ listed \in 0 .. MaxParts - 1 /\ said \in Seq(Sentences) /\ said # <<>>
        /\ bitPosition = Ended(said, Len(said)) /\ PartsStored(buffer, said, listed, bitPosition)
    BY DEF PacketInv, PacketTypeOK, StageInv
  <1>2. listed \in Nat /\ listed' \in Nat
    BY ONLY <1>1, listed' \in 0 .. MaxParts - 1
  <1>3. PICK e \in Sentences :
          /\ e.means = m /\ e.update = u /\ e.end = bitPosition'
          /\ AsMeant(e) = Part(m, u.needed, bitPosition')
          /\ said' = Append(said, e) /\ said' \in Seq(Sentences) /\ said' # <<>>
          /\ Len(said') = Len(said) + 1 /\ said'[Len(said) + 1] = e /\ Len(said) \in Nat
          /\ Inv' /\ ~InBytes' /\ block' \in Seq(Bytes)
          /\ bitPosition \in Nat /\ bitPosition' \in Nat
          /\ Agrees(buffer', buffer, bitPosition)
          /\ FieldsFrom(buffer', bitPosition, fields, bitPosition')
          /\ BlocksStored(said', block')
    <2>1. stage \in {"self", "list"}
      OBVIOUS
    <2> QED BY ONLY PacketInv, <2>1, Says(m, u, fields), fields \in Seq(FieldsOf),
                    m \in Meanings, u \in Updates, SaidIs
  <1>4. PICK new, old, at, more, left, s : /\ new = buffer' /\ old = buffer /\ at = bitPosition
                                           /\ more = listed /\ left = listed' /\ s = said
    OBVIOUS
  <1>5. /\ more \in Nat /\ left \in Nat /\ at \in Nat /\ at = Ended(s, Len(s))
        /\ s \in Seq(Sentences) /\ s # <<>> /\ PartsStored(old, s, more, at)
        /\ Agrees(new, old, at) /\ FieldsFrom(new, at, fields, e.end)
    BY ONLY <1>1, <1>2, <1>3, <1>4, Zenon
  <1>6. SameBits(new, old, 24, at)
    BY ONLY <1>5, AgreesSame
  <1>7. /\ at < e.end
        /\ \/ more > 0 /\ left = more - 1 /\ ReadMovement(new, at, FALSE) = AsMeant(e)
           \/ /\ more = 0 /\ left = 0
              /\ ReadAddition(new, at) = AsMeant(e) /\ ReadBits(new, at, 11) # EndMark
              /\ e.end = at + 23
    <2>0. ASSUME NEW bytes, NEW end, NEW from \in Nat, FieldsFrom(bytes, from, fields, end)
          PROVE  /\ from < end
                 /\ \/ /\ listed > 0 /\ listed' = listed - 1
                       /\ ReadMovement(bytes, from, FALSE) = Part(m, u.needed, end)
                    \/ /\ listed = 0 /\ listed' = 0
                       /\ ReadAddition(bytes, from) = Part(m, u.needed, end)
                       /\ ReadBits(bytes, from, 11) # EndMark /\ end = from + 23
      BY <2>0, Zenon
    <2>1. /\ at < e.end
          /\ \/ /\ listed > 0 /\ listed' = listed - 1
                /\ ReadMovement(new, at, FALSE) = Part(m, u.needed, e.end)
             \/ /\ listed = 0 /\ listed' = 0
                /\ ReadAddition(new, at) = Part(m, u.needed, e.end)
                /\ ReadBits(new, at, 11) # EndMark /\ e.end = at + 23
      <3>1. at \in Nat /\ FieldsFrom(new, at, fields, e.end)
        BY ONLY <1>5
      <3> QED BY ONLY <2>0, <3>1
    <2>2. AsMeant(e) = Part(m, u.needed, e.end)
      BY ONLY <1>3, Zenon
    <2> QED BY ONLY <1>4, <2>1, <2>2, Zenon
  <1>8. PartsStored(new, Append(s, e), left, e.end)
    BY ONLY <1>3, <1>5, <1>6, <1>7, PartAdded
  <1>9. PartsStored(buffer', said', listed', bitPosition')
    BY ONLY <1>3, <1>4, <1>8, Zenon
  <1>10. PacketTypeOK'
    BY <1>3 DEF PacketTypeOK
  <1>11. bitPosition' = Ended(said', Len(said'))
    <2>1. Len(said') # 0 /\ Len(said') = Len(said) + 1
      BY ONLY <1>3
    <2>2. said'[Len(said')] = e
      BY ONLY <1>3, <2>1, Zenon
    <2> QED BY ONLY <1>3, <2>1, <2>2, Zenon DEF Ended
  <1>12. StageInv'
    BY ONLY <1>3, <1>11, stage' = "list" DEF StageInv
  <1> QED BY <1>3, <1>9, <1>10, <1>12 DEF PacketInv

\* The actions that write a part of the packet: the player's own movement.
LEMMA MoveSelfStep ==
  ASSUME PacketInv, NEW m \in Moves, NEW u \in Updates, MoveSelf(m, u)
  PROVE  PacketInv'
  <1>1. /\ stage = "self" /\ stage' = "list" /\ UNCHANGED listed
        /\ Says(Meant(m, u), u, Append(MovementFields(m, u), <<8, listed>>))
    BY DEF MoveSelf
  <1>2. m \in Seq(0 .. 7) /\ Len(m) <= 2 /\ u.needed \in BOOLEAN
    BY ConstantsAre, UpdateIs
  <1>3. PICK fields, means : fields = MovementFields(m, u) /\ means = Meant(m, u)
    OBVIOUS
  <1>4. fields \in Seq(FieldsOf) /\ means \in Meanings
    BY <1>2, <1>3, MovementTyped, MeantIs
  <1>5. ASSUME NEW bytes, NEW end, FieldsFrom(bytes, 24, fields, end)
        PROVE  ReadMovement(bytes, 24, TRUE) = Part(means, u.needed, end) /\ end \in Nat /\ 24 < end
    <2>1. PICK at, self : at = 24 /\ self = TRUE
      OBVIOUS
    <2>2. at \in Nat /\ self \in BOOLEAN
      BY ONLY <2>1
    <2>3. FieldsFrom(bytes, at, MovementFields(m, u), end)
      BY ONLY <1>3, <1>5, <2>1, Zenon
    <2>4. /\ ReadMovement(bytes, at, self) = Part(Meant(m, u), u.needed, end)
          /\ end \in Nat /\ at < end
      <3>1. m \in Seq(0 .. 7)
        BY ONLY <1>2
      <3>2. Len(m) <= 2
        BY ONLY <1>2
      <3>3. u.needed \in BOOLEAN
        BY ONLY <1>2
      <3>4. at \in Nat
        BY ONLY <2>2
      <3>5. self \in BOOLEAN
        BY ONLY <2>2
      <3> QED BY ONLY <3>1, <3>2, <3>3, <3>4, <3>5, <2>3, MovementRead
    <2> QED BY ONLY <1>3, <2>1, <2>4, Zenon
  <1>6. Says(means, u, Append(fields, <<8, listed>>))
    BY ONLY <1>1, <1>3, Zenon
  <1> QED BY ONLY PacketInv, <1>1, <1>4, <1>5, <1>6, u \in Updates, SelfStep

\* Its own placement.
LEMMA PlaceSelfStep ==
  ASSUME PacketInv, NEW x \in Locals, NEW y \in Locals, NEW discard \in BOOLEAN, NEW u \in Updates,
         PlaceSelf(x, y, discard, u)
  PROVE  PacketInv'
  <1>1. /\ stage = "self" /\ stage' = "list" /\ UNCHANGED listed /\ u.needed
        /\ Says(Placement(x, y, discard), u, Append(PlacementFields(x, y, discard), <<8, listed>>))
    BY DEF PlaceSelf
  <1>2. x \in 0 .. 127 /\ y \in 0 .. 127 /\ u.needed = TRUE
    <2>1. u.needed \in BOOLEAN
      BY UpdateIs
    <2>2. u.needed = TRUE
      BY ONLY <1>1, <2>1, Zenon
    <2> QED BY <2>2, ConstantsAre
  <1>3. PICK fields, means : fields = PlacementFields(x, y, discard) /\ means = Placement(x, y, discard)
    OBVIOUS
  <1>4. fields \in Seq(FieldsOf) /\ means \in Meanings
    <2>1. x \in Int /\ y \in Int /\ 0 \in Int
      BY ONLY <1>2
    <2>2. PlacementFields(x, y, discard) \in Seq(FieldsOf)
      BY <2>1, PartTyped
    <2>3. Placement(x, y, discard) \in Meanings
      BY MeaningsAre
    <2> QED BY ONLY <1>3, <2>2, <2>3, Zenon
  <1>5. ASSUME NEW bytes, NEW end, FieldsFrom(bytes, 24, fields, end)
        PROVE  ReadMovement(bytes, 24, TRUE) = Part(means, u.needed, end) /\ end \in Nat /\ 24 < end
    <2>1. PICK at : at = 24
      OBVIOUS
    <2>2. at \in Nat
      BY ONLY <2>1
    <2>3. FieldsFrom(bytes, at, PlacementFields(x, y, discard), end)
      BY ONLY <1>3, <1>5, <2>1, Zenon
    <2>4. ReadMovement(bytes, at, TRUE) = Part(Placement(x, y, discard), TRUE, at + 21) /\ end = at + 21
      <3>1. x \in Places
        BY ONLY <1>2 DEF Places
      <3>2. y \in Places
        BY ONLY <1>2 DEF Places
      <3> QED BY ONLY <2>2, <2>3, <3>1, <3>2, discard \in BOOLEAN, PlacementRead, ZenonT(60)
    <2>5. end \in Nat /\ at < end
      BY ONLY <2>2, <2>4
    <2> QED BY ONLY <1>2, <1>3, <2>1, <2>4, <2>5, Zenon
  <1>6. Says(means, u, Append(fields, <<8, listed>>))
    BY ONLY <1>1, <1>3, Zenon
  <1> QED BY ONLY PacketInv, <1>1, <1>4, <1>5, <1>6, u \in Updates, SelfStep

\* A player of the list who stays in it.
LEMMA MoveOtherStep ==
  ASSUME PacketInv, NEW m \in Moves, NEW u \in Updates, MoveOther(m, u)
  PROVE  PacketInv'
  <1>1. /\ stage = "list" /\ stage' = "list" /\ listed > 0 /\ listed' = listed - 1
        /\ Says(Meant(m, u), u, MovementFields(m, u))
    BY DEF MoveOther
  <1>2. m \in Seq(0 .. 7) /\ Len(m) <= 2 /\ u.needed \in BOOLEAN
    BY ConstantsAre, UpdateIs
  <1>3. PICK fields, means : fields = MovementFields(m, u) /\ means = Meant(m, u)
    OBVIOUS
  <1>4. fields \in Seq(FieldsOf) /\ means \in Meanings
    BY <1>2, <1>3, MovementTyped, MeantIs
  <1>5. ASSUME NEW bytes, NEW end, NEW at \in Nat, FieldsFrom(bytes, at, fields, end)
        PROVE  /\ at < end
               /\ \/ /\ listed > 0 /\ listed' = listed - 1
                     /\ ReadMovement(bytes, at, FALSE) = Part(means, u.needed, end)
                  \/ /\ listed = 0 /\ listed' = 0
                     /\ ReadAddition(bytes, at) = Part(means, u.needed, end)
                     /\ ReadBits(bytes, at, 11) # EndMark /\ end = at + 23
    <2>1. PICK self : self = FALSE
      OBVIOUS
    <2>2. self \in BOOLEAN
      BY ONLY <2>1
    <2>3. FieldsFrom(bytes, at, MovementFields(m, u), end)
      BY ONLY <1>3, <1>5, Zenon
    <2>4. /\ ReadMovement(bytes, at, self) = Part(Meant(m, u), u.needed, end)
          /\ end \in Nat /\ at < end
      <3>1. m \in Seq(0 .. 7)
        BY ONLY <1>2
      <3>2. Len(m) <= 2
        BY ONLY <1>2
      <3>3. u.needed \in BOOLEAN
        BY ONLY <1>2
      <3>4. at \in Nat
        OBVIOUS
      <3>5. self \in BOOLEAN
        BY ONLY <2>2
      <3> QED BY ONLY <3>1, <3>2, <3>3, <3>4, <3>5, <2>3, MovementRead
    <2> QED BY ONLY <1>1, <1>3, <2>1, <2>4, Zenon
  <1>6. Says(means, u, fields)
    BY ONLY <1>1, <1>3, Zenon
  <1>7. listed' \in 0 .. MaxParts - 1
    <2>1. listed \in 0 .. MaxParts - 1 /\ MaxParts \in Nat
      BY PartsAssumption DEF PacketInv, PacketTypeOK
    <2> QED BY ONLY <1>1, <2>1
  <1> QED BY ONLY PacketInv, <1>1, <1>4, <1>5, <1>6, <1>7, u \in Updates, OtherStep

\* A player of the list who leaves it.
LEMMA RemoveOtherStep ==
  ASSUME PacketInv, RemoveOther
  PROVE  PacketInv'
  <1>1. /\ stage = "list" /\ stage' = "list" /\ listed > 0 /\ listed' = listed - 1
        /\ Says(Removal, NoUpdate, RemovalFields)
    BY DEF RemoveOther
  <1>2. PICK u : u = NoUpdate
    OBVIOUS
  <1>3. u \in Updates /\ u.needed = FALSE
    BY <1>2 DEF Updates, NoUpdate
  <1>4. PICK fields, means : fields = RemovalFields /\ means = Removal
    OBVIOUS
  <1>5. fields \in Seq(FieldsOf) /\ means \in Meanings
    <2>1. 0 \in Int /\ TRUE \in BOOLEAN
      OBVIOUS
    <2>2. RemovalFields \in Seq(FieldsOf)
      BY ONLY <2>1, PartTyped, Zenon
    <2> QED BY ONLY <1>4, <2>2, MeaningsAre, Zenon
  <1>6. ASSUME NEW bytes, NEW end, NEW at \in Nat, FieldsFrom(bytes, at, fields, end)
        PROVE  /\ at < end
               /\ \/ /\ listed > 0 /\ listed' = listed - 1
                     /\ ReadMovement(bytes, at, FALSE) = Part(means, u.needed, end)
                  \/ /\ listed = 0 /\ listed' = 0
                     /\ ReadAddition(bytes, at) = Part(means, u.needed, end)
                     /\ ReadBits(bytes, at, 11) # EndMark /\ end = at + 23
    <2>1. FieldsFrom(bytes, at, <<Flag(TRUE), <<2, 3>>>>, end)
      BY ONLY <1>4, <1>6, Zenon DEF RemovalFields
    <2>2. ReadMovement(bytes, at, FALSE) = Part(Removal, FALSE, at + 3) /\ end = at + 3
      BY ONLY <2>1, at \in Nat, RemovalRead
    <2>3. at < end
      BY ONLY <2>2, at \in Nat
    <2> QED BY ONLY <1>1, <1>3, <1>4, <2>2, <2>3, Zenon
  <1>7. Says(means, u, fields)
    BY ONLY <1>1, <1>2, <1>4, Zenon
  <1>8. listed' \in 0 .. MaxParts - 1
    <2>1. listed \in 0 .. MaxParts - 1 /\ MaxParts \in Nat
      BY PartsAssumption DEF PacketInv, PacketTypeOK
    <2> QED BY ONLY <1>1, <2>1
  <1> QED BY ONLY PacketInv, <1>1, <1>3, <1>5, <1>6, <1>7, <1>8, OtherStep

\* A new player.
LEMMA AddPlayerStep ==
  ASSUME PacketInv, NEW slot \in SlotsSent, NEW x \in Offsets, NEW y \in Offsets, NEW u \in Forced,
         AddPlayer(slot, x, y, u)
  PROVE  PacketInv'
  <1>1. /\ stage = "list" /\ stage' = "list" /\ listed = 0 /\ listed' = 0
        /\ Says(Addition(slot, x, y), u, AdditionFields(slot, x, y))
    BY DEF AddPlayer
  <1>2. u \in Updates /\ u.needed = TRUE
    <2>1. PICK name \in Names : u = Appearance(name)
      BY Zenon DEF Forced
    <2>2. u.needed = TRUE
      BY ONLY <2>1 DEF Appearance
    <2>3. u \in Updates
      BY Zenon DEF Updates
    <2> QED BY ONLY <2>2, <2>3
  <1>3. slot \in Nat /\ slot < EndMark /\ x \in -16 .. 15 /\ y \in -16 .. 15
    BY ConstantsAre
  <1>4. PICK fields, means : fields = AdditionFields(slot, x, y) /\ means = Addition(slot, x, y)
    OBVIOUS
  <1>5. fields \in Seq(FieldsOf) /\ means \in Meanings
    <2>1. x \in Int /\ y \in Int /\ slot \in Int /\ TRUE \in BOOLEAN
      BY ONLY <1>3
    <2>2. AdditionFields(slot, x, y) \in Seq(FieldsOf)
      BY ONLY <2>1, PartTyped, Zenon
    <2>3. Addition(slot, x, y) \in Meanings
      BY MeaningsAre
    <2> QED BY ONLY <1>4, <2>2, <2>3, Zenon
  <1>6. ASSUME NEW bytes, NEW end, NEW at \in Nat, FieldsFrom(bytes, at, fields, end)
        PROVE  /\ at < end
               /\ \/ /\ listed > 0 /\ listed' = listed - 1
                     /\ ReadMovement(bytes, at, FALSE) = Part(means, u.needed, end)
                  \/ /\ listed = 0 /\ listed' = 0
                     /\ ReadAddition(bytes, at) = Part(means, u.needed, end)
                     /\ ReadBits(bytes, at, 11) # EndMark /\ end = at + 23
    <2>1. FieldsFrom(bytes, at, <<<<11, slot>>, Flag(TRUE), Flag(TRUE), <<5, y>>, <<5, x>>>>, end)
      BY ONLY <1>4, <1>6, ZenonT(60) DEF AdditionFields
    <2>2. /\ ReadAddition(bytes, at) = Part(Addition(slot, x, y), TRUE, at + 23) /\ end = at + 23
          /\ ReadBits(bytes, at, 11) # EndMark
      BY ONLY <1>3, <2>1, at \in Nat, AdditionRead, ZenonT(60)
    <2>3. at < end
      BY ONLY <2>2, at \in Nat
    <2> QED BY ONLY <1>1, <1>2, <1>4, <2>2, <2>3, Zenon
  <1>7. Says(means, u, fields)
    BY ONLY <1>1, <1>4, Zenon
  <1>8. listed' \in 0 .. MaxParts - 1
    <2>1. MaxParts \in Nat /\ MaxParts > 0
      BY PartsAssumption
    <2> QED BY ONLY <1>1, <2>1
  <1> QED BY ONLY PacketInv, <1>1, <1>2, <1>5, <1>6, <1>7, <1>8, OtherStep

----------------------------------------------------------------------------
(* The header, the accesses, the end *)

\* Before the first part there is nothing to find.
LEMMA NothingStored ==
  ASSUME NEW s, s = <<>>, NEW b, b = <<>>, NEW bytes, NEW more, NEW place
  PROVE  PartsStored(bytes, s, more, place) /\ BlocksStored(s, b)
  <1>1. Len(s) = 0 /\ Len(b) = 0 /\ 1 .. Len(s) = {}
    OBVIOUS
  <1>2. PartsStored(bytes, s, more, place)
    BY ONLY <1>1, s = <<>>, Zenon DEF PartsStored
  <1>3. Attributes(s, 0) = 0
    BY ONLY Zenon DEF Attributes
  <1> QED BY ONLY <1>1, <1>2, <1>3, Zenon DEF BlocksStored

\* The last part and where it ends.
LEMMA LastIs ==
  ASSUME NEW s \in Seq(Sentences), s # <<>>, NEW bytes, NEW more, NEW place,
         PartsStored(bytes, s, more, place)
  PROVE  /\ Len(s) \in Nat /\ Len(s) > 0 /\ Len(s) \in 1 .. Len(s)
         /\ Ended(s, Len(s)) = s[Len(s)].end
         /\ Ended(s, Len(s)) \in Nat /\ Ended(s, Len(s)) >= 25 /\ Ended(s, Len(s)) <= place
  <1>1. Len(s) \in Nat /\ Len(s) > 0 /\ Len(s) \in 1 .. Len(s)
    BY ONLY s \in Seq(Sentences), s # <<>>
  <1>2. PICK n : n = Len(s)
    OBVIOUS
  <1>3. s[n].end \in Nat
    BY ONLY <1>1, <1>2, s \in Seq(Sentences), SentenceIs
  <1>4. PartStored(bytes, s, n) /\ s[n].end <= place
    BY ONLY <1>1, <1>2, PartsStored(bytes, s, more, place), Zenon DEF PartsStored
  <1>5. n + 24 <= s[n].end
    BY ONLY <1>4, Zenon DEF PartStored
  <1>6. Ended(s, n) = s[n].end
    BY ONLY <1>1, <1>2 DEF Ended
  <1>7. s[n].end >= 25
    BY ONLY <1>1, <1>2, <1>3, <1>5
  <1> QED BY ONLY <1>1, <1>2, <1>3, <1>4, <1>6, <1>7, Zenon

\* The mark stays with the bits before it.
LEMMA MarkStays ==
  ASSUME NEW s \in Seq(Sentences), s # <<>>, NEW old, NEW new, NEW more, NEW place \in Nat,
         PartsStored(old, s, more, place), Marked(old, s, place), SameBits(new, old, 24, place)
  PROVE  Marked(new, s, place)
  <1>1. PICK at : at = Ended(s, Len(s))
    OBVIOUS
  <1>2. at \in Nat /\ at >= 25
    BY ONLY <1>1, s \in Seq(Sentences), s # <<>>, PartsStored(old, s, more, place), LastIs, Zenon
  <1>3. place = at + 11 /\ ReadBits(old, at, 11) = EndMark
    BY ONLY <1>1, Marked(old, s, place), Zenon DEF Marked
  <1>4. \A j \in Nat : at <= j /\ j < at + 11 => Bit(new, j) = Bit(old, j)
    BY ONLY <1>2, <1>3, SameBits(new, old, 24, place) DEF SameBits
  <1>5. ReadBits(new, at, 11) = ReadBits(old, at, 11)
    <2>1. 11 \in Nat
      OBVIOUS
    <2> QED BY ONLY <1>2, <1>4, <2>1, ReadSame
  <1> QED BY ONLY <1>1, <1>3, <1>5, ZenonT(60) DEF Marked

\* UpdatePlayer goes on, and the parts stay.
LEMMA FromStep ==
  ASSUME PacketInv, Inv', NEW there, there # "other", PacketTypeOK', StageInv', stage' = there,
         stage # "other", UNCHANGED <<listed, said, block>>,
         SameBits(buffer', buffer, 24, bitPosition), bitPosition <= bitPosition'
  PROVE  PacketInv'
  <1>1. PICK new, old, place, to : new = buffer' /\ old = buffer /\ place = bitPosition /\ to = bitPosition'
    OBVIOUS
  <1>2. place \in Nat /\ to \in Nat
    BY <1>1 DEF PacketInv, Inv, TypeOK
  <1>3. said \in Seq(Sentences) /\ listed \in Nat /\ PartsStored(old, said, listed, place)
    BY <1>1, PartsAssumption DEF PacketInv, PacketTypeOK
  <1>4. SameBits(new, old, 24, place) /\ place <= to
    BY ONLY <1>1, SameBits(buffer', buffer, 24, bitPosition), bitPosition <= bitPosition', Zenon
  <1>5. PartsStored(new, said, listed, to)
    BY ONLY <1>2, <1>3, <1>4, PartsStay
  <1>6. said' = said /\ block' = block /\ listed' = listed
    OBVIOUS
  <1>7. PartsStored(buffer', said', listed', bitPosition')
    BY ONLY <1>1, <1>5, <1>6, Zenon
  <1>8. BlocksStored(said', block')
    <2>1. BlocksStored(said, block)
      BY DEF PacketInv
    <2> QED BY ONLY <1>6, <2>1, Zenon
  <1> QED BY <1>7, <1>8 DEF PacketInv

\* The types of the stages.
LEMMA StageTyped ==
  ASSUME PacketInv, UNCHANGED <<listed, said, block>>,
         stage' \in {"other", "header", "bits", "self", "list", "bytes", "block", "size", "sent"}
  PROVE  PacketTypeOK'
  BY DEF PacketInv, PacketTypeOK

\* The header: an opcode and two bytes.
LEMMA StartHeaderStep ==
  ASSUME PacketInv, StartHeader
  PROVE  PacketInv'
  <1>1. PICK opcode \in Opcodes : WriteHeader(opcode, "SHORT")
    BY DEF StartHeader
  <1>2. stage = "header" /\ stage' = "bits" /\ UNCHANGED <<listed, said, block>>
    BY DEF StartHeader, From
  <1>3. Inv'
    <2>1. "SHORT" \in DOMAIN SizeBytes
      BY DEF SizeBytes
    <2>2. Inv
      BY DEF PacketInv
    <2> QED BY ONLY <1>1, <2>1, <2>2, WriteHeaderStep
  <1>4. pos' = 3 /\ InBytes'
    BY <1>1 DEF WriteHeader, SizeBytes, InBytes
  <1>5. said' = <<>> /\ block' = <<>>
    BY <1>2 DEF PacketInv, StageInv
  <1>6. PacketTypeOK'
    BY <1>2, StageTyped
  <1>7. StageInv'
    BY ONLY <1>2, <1>4, <1>5 DEF StageInv
  <1>8. PartsStored(buffer', said', listed', bitPosition') /\ BlocksStored(said', block')
    BY ONLY <1>5, NothingStored
  <1> QED BY <1>3, <1>6, <1>7, <1>8 DEF PacketInv

\* Bits from the fourth byte on.
LEMMA StartBitsStep ==
  ASSUME PacketInv, StartBits
  PROVE  PacketInv'
  <1>1. SetBitAccess /\ stage = "bits" /\ stage' = "self" /\ UNCHANGED <<listed, said, block>>
    BY DEF StartBits, From
  <1>2. Inv'
    BY <1>1, SetBitAccessStep DEF PacketInv
  <1>3. said' = <<>> /\ block' = <<>> /\ pos = 3
    BY <1>1 DEF PacketInv, StageInv
  <1>4. bitPosition' = 24 /\ ~InBytes'
    BY <1>1, <1>3 DEF SetBitAccess, InBytes
  <1>5. PacketTypeOK'
    BY <1>1, StageTyped
  <1>6. StageInv'
    BY ONLY <1>1, <1>3, <1>4 DEF StageInv
  <1>7. PartsStored(buffer', said', listed', bitPosition') /\ BlocksStored(said', block')
    BY ONLY <1>3, NothingStored
  <1> QED BY <1>2, <1>5, <1>6, <1>7 DEF PacketInv

\* The end mark is read as it was written.
LEMMA MarkEndStep ==
  ASSUME PacketInv, MarkEnd
  PROVE  PacketInv'
  <1>1. /\ listed = 0 /\ block # <<>> /\ stage = "list" /\ stage' = "bytes"
        /\ UNCHANGED <<listed, said, block>> /\ WriteBits(11, EndMark)
    BY DEF MarkEnd, From
  <1>2. Inv /\ said \in Seq(Sentences)
    BY DEF PacketInv, PacketTypeOK
  <1>3. 11 \in 1 .. MaxWidth /\ EndMark \in Int
    BY DEF MaxWidth, EndMark
  <1>4. Inv'
    <2>1. PICK amount, value : amount = 11 /\ value = EndMark
      OBVIOUS
    <2>2. amount \in 1 .. MaxWidth /\ value \in Int /\ WriteBits(amount, value)
      BY ONLY <1>1, <1>3, <2>1, Zenon
    <2> QED BY ONLY <1>2, <2>2, WriteBitsStep
  <1>5. /\ ~InBytes' /\ buffer' = PutBits(buffer, bitPosition, 11, EndMark)
        /\ bitPosition' = bitPosition + 11
    BY <1>1 DEF WriteBits, InBytes
  <1>6. said # <<>> /\ bitPosition = Ended(said, Len(said))
    BY <1>1 DEF PacketInv, StageInv
  <1>7. /\ buffer \in Seq(Bytes) /\ bitPosition \in Nat /\ bitPosition <= 8 * Len(buffer)
        /\ Len(buffer) \in Nat
    BY <1>2 DEF Inv, TypeOK
  <1>8. /\ Agrees(buffer', buffer, bitPosition)
        /\ ReadBits(buffer', bitPosition, 11) = EndMark % Pow2[11]
    <2>1. PICK bytes, at, amount, value, new :
            /\ bytes = buffer /\ at = bitPosition /\ amount = 11 /\ value = EndMark /\ new = buffer'
      OBVIOUS
    <2>2. /\ bytes \in Seq(Bytes) /\ at \in Nat /\ at <= 8 * Len(bytes)
          /\ amount \in 1 .. MaxWidth /\ value \in Int /\ new = PutBits(bytes, at, amount, value)
      BY ONLY <1>3, <1>5, <1>7, <2>1, Zenon
    <2>3. /\ Agrees(PutBits(bytes, at, amount, value), bytes, at)
          /\ ReadBits(PutBits(bytes, at, amount, value), at, amount) = value % Pow2[amount]
      BY ONLY <2>2, FieldPut
    <2> QED BY ONLY <2>1, <2>2, <2>3, Zenon
  <1>9. EndMark % Pow2[11] = EndMark
    <2>1. Pow2[11] = 2048
      BY ONLY SmallPowers
    <2> QED BY ONLY <2>1 DEF EndMark
  <1>10. SameBits(buffer', buffer, 24, bitPosition)
    BY ONLY <1>8, AgreesSame
  <1>11. bitPosition <= bitPosition'
    BY ONLY <1>5, <1>7
  <1>12. Marked(buffer', said', bitPosition')
    <2>1. said' = said
      BY ONLY <1>1
    <2>2. ReadBits(buffer', bitPosition, 11) = EndMark
      BY ONLY <1>8, <1>9, Zenon
    <2> QED BY ONLY <1>5, <1>6, <2>1, <2>2, Zenon DEF Marked
  <1>13. PacketTypeOK'
    BY ONLY PacketInv, <1>1, StageTyped
  <1>14. said' # <<>> /\ listed' = 0 /\ block' # <<>>
    BY ONLY <1>1, <1>6
  <1>15. StageInv'
    BY ONLY <1>1, <1>5, <1>12, <1>14 DEF StageInv
  <1>16. PICK there : there = "bytes"
    OBVIOUS
  <1>17. there # "other" /\ stage' = there /\ stage # "other"
    BY ONLY <1>1, <1>16
  <1> QED BY ONLY PacketInv, <1>1, <1>4, <1>10, <1>11, <1>13, <1>15, <1>17, FromStep

\* The next byte is the first one no bit has reached.
LEMMA EndBitsStep ==
  ASSUME PacketInv, EndBits
  PROVE  PacketInv'
  <1>1. /\ \/ listed = 0 /\ block = <<>> /\ stage = "list" /\ stage' = "size"
           \/ stage = "bytes" /\ stage' = "block"
        /\ UNCHANGED <<listed, said, block>> /\ SetByteAccess
    BY DEF EndBits, From
  <1>2. Inv /\ bitPosition \in Nat
    BY DEF PacketInv, Inv, TypeOK
  <1>3. Inv'
    BY ONLY <1>1, <1>2, SetByteAccessStep
  <1>4. InBytes' /\ buffer' = buffer /\ bitPosition' = bitPosition /\ pos' = (bitPosition + 7) \div 8
    BY <1>1 DEF SetByteAccess, InBytes
  <1>5. pos' = Rounded(bitPosition')
    BY ONLY <1>4 DEF Rounded
  <1>6. SameBits(buffer', buffer, 24, bitPosition) /\ bitPosition <= bitPosition'
    <2>1. SameBits(buffer', buffer, 24, bitPosition)
      BY ONLY <1>4, Zenon DEF SameBits
    <2> QED BY ONLY <1>2, <1>4, <2>1
  <1>7. PacketTypeOK'
    BY <1>1, StageTyped
  <1>8. StageInv'
    <2>1. said' = said /\ listed' = listed /\ block' = block
      BY ONLY <1>1
    <2>2. CASE listed = 0 /\ block = <<>> /\ stage = "list" /\ stage' = "size"
      <3>1. said # <<>> /\ bitPosition = Ended(said, Len(said))
        BY <2>2 DEF PacketInv, StageInv
      <3>2. bitPosition' = Ended(said', Len(said')) /\ said' # <<>> /\ listed' = 0 /\ block' = <<>>
        BY ONLY <1>4, <2>1, <2>2, <3>1, Zenon
      <3> QED BY ONLY <1>4, <1>5, <2>2, <3>2 DEF StageInv
    <2>3. CASE stage = "bytes" /\ stage' = "block"
      <3>1. said # <<>> /\ listed = 0 /\ block # <<>> /\ Marked(buffer, said, bitPosition)
        BY <2>3 DEF PacketInv, StageInv
      <3>2. said' # <<>> /\ listed' = 0 /\ block' # <<>> /\ Marked(buffer', said', bitPosition')
        BY ONLY <1>4, <2>1, <3>1, Zenon
      <3> QED BY ONLY <1>4, <1>5, <2>3, <3>2 DEF StageInv
    <2> QED BY ONLY <1>1, <2>2, <2>3
  <1>9. PICK there : there = stage'
    OBVIOUS
  <1>10. there # "other" /\ stage' = there /\ stage # "other"
    BY ONLY <1>1, <1>9
  <1> QED BY ONLY PacketInv, <1>1, <1>3, <1>6, <1>7, <1>8, <1>10, FromStep

\* The bits are inside the bytes they are rounded to.
LEMMA RoundedIs ==
  ASSUME NEW n \in Nat
  PROVE  /\ Rounded(n) \in Nat /\ n <= 8 * Rounded(n) /\ 8 * Rounded(n) <= n + 7
         /\ n >= 24 => Rounded(n) >= 3
  BY DEF Rounded

\* The blocks come behind all of the bits.
LEMMA AppendBlockStep ==
  ASSUME PacketInv, AppendBlock
  PROVE  PacketInv'
  <1>1. /\ stage = "block" /\ stage' = "size" /\ UNCHANGED <<listed, said, block>>
        /\ WriteBytes(block)
    BY DEF AppendBlock, From
  <1>2. /\ Inv /\ block \in Seq(Bytes) /\ said \in Seq(Sentences) /\ listed \in Nat
        /\ PartsStored(buffer, said, listed, bitPosition)
    BY <1>1, PartsAssumption DEF PacketInv, PacketTypeOK
  <1>3. /\ buffer \in Seq(Bytes) /\ pos \in 0 .. Len(buffer) /\ bitPosition \in Nat
        /\ Len(buffer) \in Nat
    BY <1>2 DEF Inv, TypeOK
  <1>4. Inv'
    BY ONLY <1>1, <1>2, WriteBytesStep
  <1>5. /\ InBytes /\ said # <<>> /\ listed = 0 /\ block # <<>>
        /\ Marked(buffer, said, bitPosition) /\ pos = Rounded(bitPosition)
    BY <1>1 DEF PacketInv, StageInv
  <1>6. pos' = pos + Len(block) /\ InBytes' /\ bitPosition' = bitPosition
    BY <1>1, <1>5 DEF WriteBytes, InBytes
  <1>7. WrittenAt(buffer', buffer, pos, block)
    BY ONLY <1>1, <1>2, <1>3, BytesWritten
  <1>8. Agrees(buffer', buffer, 8 * pos)
    <2>1. PICK new, old, at : new = buffer' /\ old = buffer /\ at = pos
      OBVIOUS
    <2>2. old \in Seq(Bytes) /\ at \in 0 .. Len(old) /\ WrittenAt(new, old, at, block)
      BY ONLY <1>3, <1>7, <2>1, Zenon
    <2>3. Agrees(new, old, 8 * at)
      BY ONLY <1>2, <2>2, WrittenAgrees
    <2> QED BY ONLY <2>1, <2>3, Zenon
  <1>9. SameBits(buffer', buffer, 24, bitPosition)
    <2>1. SameBits(buffer', buffer, 24, 8 * pos)
      BY ONLY <1>8, AgreesSame
    <2>2. bitPosition <= 8 * pos
      BY ONLY <1>3, <1>5, RoundedIs
    <2>3. pos \in Nat
      BY ONLY <1>3
    <2> QED BY ONLY <1>3, <2>1, <2>2, <2>3 DEF SameBits
  <1>10. Marked(buffer', said', bitPosition')
    <2>1. PICK new, old, place : new = buffer' /\ old = buffer /\ place = bitPosition
      OBVIOUS
    <2>2. /\ place \in Nat /\ PartsStored(old, said, listed, place) /\ Marked(old, said, place)
          /\ SameBits(new, old, 24, place)
      BY ONLY <1>2, <1>3, <1>5, <1>9, <2>1, Zenon
    <2>3. Marked(new, said, place)
      BY ONLY <1>2, <1>5, <2>2, MarkStays
    <2>4. said' = said
      BY ONLY <1>1
    <2> QED BY ONLY <1>6, <2>1, <2>3, <2>4, Zenon
  <1>11. /\ said' # <<>> /\ listed' = 0 /\ block' # <<>>
         /\ pos' = Rounded(bitPosition') + Len(block')
    <2>1. said' = said /\ listed' = listed /\ block' = block
      BY ONLY <1>1
    <2> QED BY ONLY <1>5, <1>6, <2>1, Zenon
  <1>12. \A k \in 1 .. Len(block') : buffer'[Rounded(bitPosition') + k] = block'[k]
    <2>1. \A k \in 1 .. Len(block) : buffer'[pos + k] = block[k]
      BY ONLY <1>7, Zenon DEF WrittenAt
    <2>2. block' = block
      BY ONLY <1>1
    <2> QED BY ONLY <1>5, <1>6, <2>1, <2>2, Zenon
  <1>13. PacketTypeOK'
    BY ONLY PacketInv, <1>1, StageTyped
  <1>14. StageInv'
    BY ONLY <1>1, <1>6, <1>10, <1>11, <1>12 DEF StageInv
  <1>15. PICK there : there = "size"
    OBVIOUS
  <1>16. there # "other" /\ stage' = there /\ stage # "other" /\ bitPosition <= bitPosition'
    BY ONLY <1>1, <1>3, <1>6, <1>15
  <1> QED BY ONLY PacketInv, <1>1, <1>4, <1>9, <1>13, <1>14, <1>16, FromStep

\* The size field is before all of the parts and blocks.
LEMMA FinishSame ==
  ASSUME NEW new, NEW old, Len(old) \in Nat, \A i \in 4 .. Len(old) : new[i] = old[i],
         NEW place \in Nat, place <= 8 * Len(old)
  PROVE  SameBits(new, old, 24, place)
  <1> SUFFICES ASSUME NEW j \in Nat, 24 <= j, j < place
               PROVE  Bit(new, j) = Bit(old, j)
    BY DEF SameBits
  <1>1. (j \div 8) + 1 \in 4 .. Len(old)
    <2>1. PICK n : n = Len(old)
      OBVIOUS
    <2>2. n \in Nat /\ j < 8 * n
      BY ONLY <2>1, Len(old) \in Nat, place \in Nat, place <= 8 * Len(old), j \in Nat, j < place
    <2>3. (j \div 8) + 1 \in 4 .. n
      BY ONLY <2>2, j \in Nat, 24 <= j
    <2> QED BY ONLY <2>1, <2>3, Zenon
  <1>2. new[(j \div 8) + 1] = old[(j \div 8) + 1]
    BY ONLY <1>1, \A i \in 4 .. Len(old) : new[i] = old[i], Zenon
  <1> QED BY ONLY <1>2, Zenon DEF Bit

\* The size of the packet is filled in.
LEMMA FinishPacketStep ==
  ASSUME PacketInv, Finish
  PROVE  PacketInv'
  <1>1. /\ stage = "size" /\ stage' = "sent" /\ UNCHANGED <<listed, said, block>>
        /\ FinishVariableHeader
    BY DEF Finish, From
  <1>2. /\ Inv /\ block \in Seq(Bytes) /\ said \in Seq(Sentences) /\ listed \in Nat
        /\ PartsStored(buffer, said, listed, bitPosition)
    BY <1>1, PartsAssumption DEF PacketInv, PacketTypeOK
  <1>3. /\ bitPosition \in Nat /\ Len(buffer) \in Nat /\ bitPosition <= 8 * Len(buffer)
        /\ pos <= Len(buffer)
    BY <1>2 DEF Inv, TypeOK
  <1>4. Inv'
    BY ONLY <1>1, <1>2, FinishStep
  <1>5. Len(buffer') = Len(buffer) /\ \A i \in 4 .. Len(buffer) : buffer'[i] = buffer[i]
    BY ONLY <1>1, <1>2, FieldFilled
  <1>6. pos' = pos /\ bitPosition' = bitPosition
    BY <1>1 DEF FinishVariableHeader
  <1>7. SameBits(buffer', buffer, 24, bitPosition)
    <2>1. PICK new, old, place : new = buffer' /\ old = buffer /\ place = bitPosition
      OBVIOUS
    <2>2. /\ Len(old) \in Nat /\ (\A i \in 4 .. Len(old) : new[i] = old[i])
          /\ place \in Nat /\ place <= 8 * Len(old)
      BY ONLY <1>3, <1>5, <2>1, Zenon
    <2>3. SameBits(new, old, 24, place)
      BY ONLY <2>2, FinishSame
    <2> QED BY ONLY <2>1, <2>3, Zenon
  <1>8. said # <<>> /\ listed = 0
    BY <1>1 DEF PacketInv, StageInv
  <1>9. said' = said /\ listed' = listed /\ block' = block
    BY ONLY <1>1
  <1>10. StageInv'
    <2>1. CASE block = <<>>
      <3>1. bitPosition = Ended(said, Len(said)) /\ pos = Rounded(bitPosition)
        BY <1>1, <2>1 DEF PacketInv, StageInv
      <3>2. /\ bitPosition' = Ended(said', Len(said')) /\ pos' = Rounded(bitPosition')
            /\ said' # <<>> /\ listed' = 0 /\ block' = <<>>
        BY ONLY <1>6, <1>8, <1>9, <2>1, <3>1, Zenon
      <3> QED BY ONLY <1>1, <3>2 DEF StageInv
    <2>2. CASE block # <<>>
      <3>1. /\ Marked(buffer, said, bitPosition) /\ pos = Rounded(bitPosition) + Len(block)
            /\ \A k \in 1 .. Len(block) : buffer[Rounded(bitPosition) + k] = block[k]
        BY <1>1, <2>2 DEF PacketInv, StageInv
      <3>2. Marked(buffer', said, bitPosition)
        <4>1. PICK new, old, place : new = buffer' /\ old = buffer /\ place = bitPosition
          OBVIOUS
        <4>2. /\ place \in Nat /\ PartsStored(old, said, listed, place) /\ Marked(old, said, place)
              /\ SameBits(new, old, 24, place)
          BY ONLY <1>2, <1>3, <1>7, <3>1, <4>1, Zenon
        <4>3. Marked(new, said, place)
          BY ONLY <1>2, <1>8, <4>2, MarkStays
        <4> QED BY ONLY <4>1, <4>3, Zenon
      <3>3. \A k \in 1 .. Len(block) : buffer'[Rounded(bitPosition) + k] = block[k]
        <4>1. bitPosition >= 24
          <5>1. PICK at, place : at = Ended(said, Len(said)) /\ place = bitPosition
            OBVIOUS
          <5>2. PartsStored(buffer, said, listed, place)
            BY ONLY <1>2, <5>1, Zenon
          <5>3. at \in Nat /\ at >= 25 /\ at <= place
            BY ONLY <1>2, <1>8, <5>1, <5>2, LastIs, Zenon
          <5>4. place \in Nat
            BY ONLY <1>3, <5>1
          <5> QED BY ONLY <5>1, <5>3, <5>4
        <4>2. PICK r, n : r = Rounded(bitPosition) /\ n = Len(block)
          OBVIOUS
        <4>3. r \in Nat /\ r >= 3
          BY ONLY <1>3, <4>1, <4>2, RoundedIs
        <4>4. n \in Nat /\ r + n <= Len(buffer)
          BY ONLY <1>2, <1>3, <3>1, <4>2
        <4>5. \A k \in 1 .. n : r + k \in 4 .. Len(buffer)
          BY ONLY <1>3, <4>3, <4>4
        <4> QED BY ONLY <1>5, <3>1, <4>2, <4>5, Zenon
      <3>4. /\ Marked(buffer', said', bitPosition') /\ pos' = Rounded(bitPosition') + Len(block')
            /\ \A k \in 1 .. Len(block') : buffer'[Rounded(bitPosition') + k] = block'[k]
            /\ said' # <<>> /\ listed' = 0 /\ block' # <<>>
        BY ONLY <1>6, <1>8, <1>9, <2>2, <3>1, <3>2, <3>3, Zenon
      <3> QED BY ONLY <1>1, <3>4 DEF StageInv
    <2> QED BY ONLY <2>1, <2>2
  <1>11. PacketTypeOK'
    BY ONLY PacketInv, <1>1, StageTyped
  <1>12. PICK there : there = "sent"
    OBVIOUS
  <1>13. there # "other" /\ stage' = there /\ stage # "other" /\ bitPosition <= bitPosition'
    BY ONLY <1>1, <1>3, <1>6, <1>12
  <1> QED BY ONLY PacketInv, <1>1, <1>4, <1>7, <1>10, <1>11, <1>13, FromStep

\* Another packet, which has no parts.
LEMMA OtherPacketStep ==
  ASSUME PacketInv, OtherPacket
  PROVE  PacketInv'
  <1>1. stage = "other" /\ stage' = "other" /\ Next /\ UNCHANGED <<listed, said, block>>
    BY DEF OtherPacket, updateVars
  <1>2. Inv'
    BY <1>1, StepInv DEF PacketInv
  <1>3. PacketTypeOK'
    BY <1>1, StageTyped
  <1>4. StageInv'
    BY ONLY <1>1 DEF StageInv
  <1> QED BY <1>1, <1>2, <1>3, <1>4 DEF PacketInv

\* Nothing.
LEMMA PacketStutter ==
  ASSUME PacketInv, UNCHANGED packetVars
  PROVE  PacketInv'
  <1>1. UNCHANGED vars /\ UNCHANGED <<stage, listed, said, block>>
    BY DEF packetVars, updateVars
  <1>2. /\ buffer' = buffer /\ pos' = pos /\ bitPosition' = bitPosition /\ access' = access
        /\ stage' = stage /\ listed' = listed /\ said' = said /\ block' = block
    BY <1>1 DEF vars
  <1>3. Inv'
    BY <1>1, StepInv DEF PacketInv
  <1>4. PacketTypeOK'
    BY ONLY PacketInv, <1>2 DEF PacketInv, PacketTypeOK
  <1>5. StageInv'
    <2>1. StageInv
      BY DEF PacketInv
    <2>2. InBytes' <=> InBytes
      BY ONLY <1>2, Zenon DEF InBytes
    <2> QED BY ONLY <1>2, <2>1, <2>2, Zenon DEF StageInv
  <1>6. stage' # "other" =>
          PartsStored(buffer', said', listed', bitPosition') /\ BlocksStored(said', block')
    <2>1. stage # "other" => PartsStored(buffer, said, listed, bitPosition) /\ BlocksStored(said, block)
      BY DEF PacketInv
    <2> QED BY ONLY <1>2, <2>1, Zenon
  <1> QED BY <1>3, <1>4, <1>5, <1>6 DEF PacketInv

\* Every step keeps the invariant.
LEMMA PacketStepInv == PacketInv /\ [PacketNext]_packetVars => PacketInv'
  <1> SUFFICES ASSUME PacketInv, [PacketNext]_packetVars PROVE PacketInv'
    OBVIOUS
  <1>1. CASE StartHeader
    BY <1>1, StartHeaderStep
  <1>2. CASE StartBits
    BY <1>2, StartBitsStep
  <1>3. ASSUME NEW m \in Moves, NEW u \in Updates, MoveSelf(m, u) PROVE PacketInv'
    BY <1>3, MoveSelfStep
  <1>4. ASSUME NEW m \in Moves, NEW u \in Updates, MoveOther(m, u) PROVE PacketInv'
    BY <1>4, MoveOtherStep
  <1>5. ASSUME NEW x \in Locals, NEW y \in Locals, NEW discard \in BOOLEAN, NEW u \in Updates,
               PlaceSelf(x, y, discard, u)
        PROVE  PacketInv'
    BY <1>5, PlaceSelfStep
  <1>6. CASE RemoveOther
    BY <1>6, RemoveOtherStep
  <1>7. ASSUME NEW slot \in SlotsSent, NEW x \in Offsets, NEW y \in Offsets, NEW u \in Forced,
               AddPlayer(slot, x, y, u)
        PROVE  PacketInv'
    BY <1>7, AddPlayerStep
  <1>8. CASE MarkEnd
    BY <1>8, MarkEndStep
  <1>9. CASE EndBits
    BY <1>9, EndBitsStep
  <1>10. CASE AppendBlock
    BY <1>10, AppendBlockStep
  <1>11. CASE Finish
    BY <1>11, FinishPacketStep
  <1>12. CASE OtherPacket
    BY <1>12, OtherPacketStep
  <1>13. CASE UNCHANGED packetVars
    BY <1>13, PacketStutter
  <1> QED BY ONLY <1>1, <1>2, <1>3, <1>4, <1>5, <1>6, <1>7, <1>8, <1>9, <1>10, <1>11, <1>12, <1>13,
                  [PacketNext]_packetVars, Zenon DEF PacketNext, UpdatePlayer

\* The first state has it.
LEMMA PacketInitInv == PacketInit => PacketInv
  <1> SUFFICES ASSUME PacketInit PROVE PacketInv
    OBVIOUS
  <1>1. /\ Inv /\ stage \in {"other", "header"} /\ listed \in 0 .. MaxParts - 1
        /\ said = <<>> /\ block = <<>>
    BY InitInv DEF PacketInit
  <1>2. PacketTypeOK
    BY <1>1 DEF PacketTypeOK
  <1>3. StageInv
    BY ONLY <1>1 DEF StageInv
  <1>4. PartsStored(buffer, said, listed, bitPosition) /\ BlocksStored(said, block)
    BY ONLY <1>1, NothingStored
  <1> QED BY <1>1, <1>2, <1>3, <1>4 DEF PacketInv

----------------------------------------------------------------------------
(* What the client reads *)

\* The number a block has for a name.
NumberOf(u) == IF u.appearance = TRUE THEN Shortened(PlayerNameToInt64(u.name)) ELSE Zero

\* The bytes of a block are in the packet.
StateAt(packet, at, state) ==
  /\ Len(state) > 0 => at + Len(state) <= Len(packet)
  /\ \A k \in 1 .. Len(state) : packet[at + k] = state[k]

\* The attributes UpdateState wrote are read, to their end.
LEMMA BlockRead ==
  ASSUME NEW packet \in Seq(Bytes), NEW u \in Updates, NEW at \in Nat,
         StateAt(packet, at, UpdateState(u)), NEW part, part.update = u.needed
  PROVE  BlockAt(packet, part, at) = Block(u.appearance, NumberOf(u), at + Len(UpdateState(u)))
  <1>1. PICK state : state = UpdateState(u)
    OBVIOUS
  <1>2. StateAt(packet, at, state)
    BY ONLY <1>1, StateAt(packet, at, UpdateState(u)), Zenon
  <1>3. \A k \in 1 .. Len(state) : packet[at + k] = state[k]
    BY ONLY <1>2, Zenon DEF StateAt
  <1>4. SUFFICES BlockAt(packet, part, at) = Block(u.appearance, NumberOf(u), at + Len(state))
    BY <1>1, Zenon
  <1>5. CASE u.needed = FALSE
    <2>1. u.appearance = FALSE /\ part.update = FALSE
      BY ONLY <1>5, UpdateIs, u \in Updates, part.update = u.needed, Zenon
    <2>2. Len(state) = 0
      BY ONLY <1>5, StateIs, u \in Updates, <1>1
    <2>3. at + Len(state) = at
      BY ONLY <2>2, at \in Nat
    <2>4. NumberOf(u) = Zero
      BY ONLY <2>1, Zenon DEF NumberOf
    <2>5. BlockAt(packet, part, at) = Block(FALSE, Zero, at)
      BY ONLY <2>1, Zenon DEF BlockAt
    <2> QED BY ONLY <2>1, <2>3, <2>4, <2>5, Zenon
  <1>6. CASE u.needed = TRUE /\ u.appearance = FALSE
    <2>1. Len(state) = 1 /\ state[1] = 0
      BY ONLY <1>6, StateIs, u \in Updates, <1>1
    <2>2. packet[at + 1] = 0
      BY ONLY <2>1, <1>3
    <2>3. (packet[at + 1] \div 16) % 2 # 1
      BY ONLY <2>2
    <2>4. ReadBlock(packet, at) = Block(FALSE, Zero, at + 1)
      BY ONLY <2>3, Zenon DEF ReadBlock
    <2>5. part.update = TRUE
      BY ONLY <1>6, part.update = u.needed, Zenon
    <2>6. BlockAt(packet, part, at) = Block(FALSE, Zero, at + 1)
      BY ONLY <2>4, <2>5, Zenon DEF BlockAt
    <2>7. u.appearance # TRUE
      BY ONLY <1>6, Zenon
    <2>8. NumberOf(u) = Zero
      BY ONLY <2>7, Zenon DEF NumberOf
    <2> QED BY ONLY <1>6, <2>1, <2>6, <2>8, Zenon
  <1>7. CASE u.needed = TRUE /\ u.appearance = TRUE
    <2>1. PICK number : number = Shortened(PlayerNameToInt64(u.name))
      OBVIOUS
    <2>2. /\ u.name \in Seq(Bytes) /\ Len(state) = 12
          /\ state[1] = 16 /\ state[2] = 246 /\ \A k \in 1 .. 8 : state[3 + k] = number[k]
      BY ONLY <1>7, <2>1, StateIs, u \in Updates, <1>1, ZenonT(60)
    <2>3. packet[at + 1] = 16 /\ packet[at + 2] = 246
      BY ONLY <2>2, <1>3
    <2>4. (packet[at + 1] \div 16) % 2 = 1
      BY ONLY <2>3
    <2>5. Decoded(packet[at + 2], "C") = 10
      <3>1. Decoded(246, "C") = 10
        BY ONLY SizeCoded
      <3> QED BY ONLY <2>3, <3>1
    <2>6. number \in Seq(Bytes) /\ Len(number) = 8
      <3>1. PICK v : v = PlayerNameToInt64(u.name)
        OBVIOUS
      <3>2. IsLong(v)
        BY ONLY <2>2, <3>1, NameKept
      <3>3. v \in Seq(Bytes) /\ Len(v) = 8
        BY ONLY <3>2, Zenon DEF IsLong
      <3>4. Shortened(v) \in Seq(Bytes) /\ Len(Shortened(v)) = 8
        BY ONLY <3>3, ShortenedIs
      <3> QED BY ONLY <2>1, <3>1, <3>4, Zenon
    <2>7. \A k \in 1 .. 8 : packet[at + 3 + k] = number[k]
      <3> SUFFICES ASSUME NEW k \in 1 .. 8 PROVE packet[at + 3 + k] = number[k]
        OBVIOUS
      <3>1. 3 + k \in 1 .. Len(state)
        BY ONLY <2>2, k \in 1 .. 8
      <3>2. packet[at + (3 + k)] = state[3 + k]
        BY ONLY <3>1, <1>3, Zenon
      <3>3. at + (3 + k) = at + 3 + k
        BY ONLY at \in Nat, k \in 1 .. 8
      <3>4. state[3 + k] = number[k]
        BY ONLY <2>2, k \in 1 .. 8, Zenon
      <3> QED BY ONLY <3>2, <3>3, <3>4, Zenon
    <2>8. SubSeq(packet, at + 3 + 1, at + 3 + 8) = number
      <3>1. PICK from : from = at + 3
        OBVIOUS
      <3>2. from \in Nat /\ from + Len(number) <= Len(packet)
        <4>1. at + Len(state) <= Len(packet)
          BY ONLY <1>2, <2>2 DEF StateAt
        <4>2. Len(packet) \in Nat
          BY ONLY packet \in Seq(Bytes)
        <4> QED BY ONLY <2>2, <2>6, <3>1, <4>1, <4>2, at \in Nat
      <3>3. \A k \in 1 .. Len(number) : packet[from + k] = number[k]
        BY ONLY <2>6, <2>7, <3>1, Zenon
      <3>4. SubSeq(packet, from + 1, from + Len(number)) = number
        BY ONLY <2>6, <3>2, <3>3, packet \in Seq(Bytes), SubSeqIs
      <3> QED BY ONLY <2>6, <3>1, <3>4, Zenon
    <2>9. at + 2 + Len(Look) = at + 3
      <3>1. Len(Look) = 1
        BY DEF Look
      <3> QED BY ONLY <3>1, at \in Nat
    <2>10. ReadBlock(packet, at) = Block(TRUE, number, at + 2 + 10)
      <3>1. ReadBlock(packet, at) =
              Block(TRUE, SubSeq(packet, at + 2 + Len(Look) + 1, at + 2 + Len(Look) + 8),
                    at + 2 + Decoded(packet[at + 2], "C"))
        BY ONLY <2>4, Zenon DEF ReadBlock
      <3> QED BY ONLY <2>5, <2>8, <2>9, <3>1, Zenon
    <2>11. at + 2 + 10 = at + Len(state)
      BY ONLY <2>2, at \in Nat
    <2>12. part.update = TRUE
      BY ONLY <1>7, part.update = u.needed, Zenon
    <2>13. BlockAt(packet, part, at) = Block(TRUE, number, at + Len(state))
      BY ONLY <2>10, <2>11, <2>12, Zenon DEF BlockAt
    <2>14. NumberOf(u) = number
      BY ONLY <1>7, <2>1, Zenon DEF NumberOf
    <2> QED BY ONLY <1>7, <2>13, <2>14, Zenon
  <1> QED BY ONLY <1>5, <1>6, <1>7, UpdateIs, u \in Updates, Zenon

\* The parts as they are meant, and the blocks as they belong to them.
PartsOf(s) == [i \in 1 .. Len(s) |-> AsMeant(s[i])]
BlocksOf(s, start) ==
  [i \in 1 .. Len(s) |-> Block(s[i].update.appearance, NumberOf(s[i].update), start + s[i].attributes)]

\* The fields of a block.
LEMMA BlockFields ==
  ASSUME NEW a, NEW n, NEW e
  PROVE  Block(a, n, e).appearance = a /\ Block(a, n, e).number = n /\ Block(a, n, e).end = e
  BY DEF Block

\* The client takes the blocks apart as they were put together.
LEMMA BlocksFound ==
  ASSUME NEW s \in Seq(Sentences), s # <<>>, NEW b \in Seq(Bytes), BlocksStored(s, b),
         NEW packet \in Seq(Bytes), NEW start \in Nat,
         start = (Ended(s, Len(s)) + 11 + 7) \div 8,
         b # <<>> => start + Len(b) <= Len(packet),
         \A k \in 1 .. Len(b) : packet[start + k] = b[k]
  PROVE  ReadBlocks(packet, PartsOf(s)) = First(BlocksOf(s, start), Len(s))
  <1>1. PICK parts, blocks, n : parts = PartsOf(s) /\ blocks = BlocksOf(s, start) /\ n = Len(s)
    OBVIOUS
  <1>2. n \in Nat /\ n > 0
    BY ONLY <1>1, s \in Seq(Sentences), s # <<>>
  <1>3. Len(parts) = n /\ \A i \in 1 .. n : parts[i] = AsMeant(s[i])
    BY ONLY <1>1, <1>2 DEF PartsOf
  <1>4. \A i \in 1 .. n :
          blocks[i] = Block(s[i].update.appearance, NumberOf(s[i].update), start + s[i].attributes)
    BY ONLY <1>1, <1>2 DEF BlocksOf
  <1>5. \A i \in 1 .. n : parts[i].end = s[i].end /\ parts[i].update = s[i].update.needed
    <2> SUFFICES ASSUME NEW i \in 1 .. n
                 PROVE  parts[i].end = s[i].end /\ parts[i].update = s[i].update.needed
      OBVIOUS
    <2>1. PICK m, needed, e : m = s[i].means /\ needed = s[i].update.needed /\ e = s[i].end
      OBVIOUS
    <2>2. parts[i] = Part(m, needed, e)
      BY ONLY <1>3, <2>1, i \in 1 .. n, Zenon DEF AsMeant
    <2>3. Part(m, needed, e).update = needed /\ Part(m, needed, e).end = e
      BY ONLY PartFields
    <2> QED BY ONLY <2>1, <2>2, <2>3, Zenon
  <1>6. parts[n].end = Ended(s, Len(s))
    <2>1. n \in 1 .. n /\ n # 0
      BY ONLY <1>2
    <2> QED BY ONLY <1>1, <1>5, <2>1, Zenon DEF Ended
  <1>7. start = (parts[n].end + 11 + 7) \div 8
    BY ONLY <1>6, start = (Ended(s, Len(s)) + 11 + 7) \div 8, Zenon
  <1>8. ASSUME NEW i \in 1 .. n
        PROVE  blocks[i] = BlockAt(packet, parts[i], IF i = 1 THEN start ELSE blocks[i - 1].end)
    <2>1. PICK u, state, before : u = s[i].update /\ state = UpdateState(u) /\ before = Attributes(s, i - 1)
      OBVIOUS
    <2>2. u \in Updates /\ s[i].attributes \in Nat
      BY ONLY <1>1, <2>1, i \in 1 .. n, s \in Seq(Sentences), SentenceIs
    <2>3. BlockStored(s, i, b)
      BY ONLY <1>1, i \in 1 .. n, BlocksStored(s, b), Zenon DEF BlocksStored
    <2>4. /\ s[i].attributes = before + Len(state) /\ s[i].attributes <= Len(b)
          /\ \A k \in 1 .. Len(state) : b[before + k] = state[k]
      BY ONLY <2>1, <2>3, Zenon DEF BlockStored
    <2>5. state \in Seq(Bytes) /\ Len(state) \in Nat
      <3>1. UpdateState(u) \in Seq(Bytes)
        BY ONLY <2>2, StateIs
      <3>2. state \in Seq(Bytes)
        BY ONLY <2>1, <3>1, Zenon
      <3> QED BY ONLY <3>2
    <2>6. before \in Nat
      <3>1. CASE i = 1
        BY ONLY <2>1, <3>1 DEF Attributes
      <3>2. CASE i # 1
        <4>1. i - 1 \in 1 .. Len(s) /\ i - 1 # 0
          BY ONLY <1>1, <1>2, <3>2, i \in 1 .. n
        <4>2. s[i - 1].attributes \in Nat
          BY ONLY <4>1, s \in Seq(Sentences), SentenceIs
        <4> QED BY ONLY <2>1, <4>1, <4>2, Zenon DEF Attributes
      <3> QED BY ONLY <3>1, <3>2
    <2>7. PICK at : at = start + before
      OBVIOUS
    <2>8. at \in Nat
      BY ONLY <2>6, <2>7, start \in Nat
    <2>9. (IF i = 1 THEN start ELSE blocks[i - 1].end) = at
      <3>1. CASE i = 1
        <4>1. before = 0
          BY ONLY <2>1, <3>1 DEF Attributes
        <4> QED BY ONLY <2>7, <3>1, <4>1, start \in Nat
      <3>2. CASE i # 1
        <4>1. i - 1 \in 1 .. n /\ i - 1 # 0
          BY ONLY <1>2, <3>2, i \in 1 .. n
        <4>2. blocks[i - 1].end = start + s[i - 1].attributes
          <5>1. PICK a, v, e : /\ a = s[i - 1].update.appearance /\ v = NumberOf(s[i - 1].update)
                               /\ e = start + s[i - 1].attributes
            OBVIOUS
          <5>2. blocks[i - 1] = Block(a, v, e)
            BY ONLY <1>4, <4>1, <5>1, Zenon
          <5>3. Block(a, v, e).end = e
            BY ONLY BlockFields
          <5> QED BY ONLY <5>1, <5>2, <5>3, Zenon
        <4>3. before = s[i - 1].attributes
          BY ONLY <2>1, <4>1, Zenon DEF Attributes
        <4> QED BY ONLY <2>7, <3>2, <4>2, <4>3, Zenon
      <3> QED BY ONLY <3>1, <3>2
    <2>10. Len(b) \in Nat
      BY ONLY b \in Seq(Bytes)
    <2>11. \A k \in 1 .. Len(state) : packet[at + k] = state[k]
      <3> SUFFICES ASSUME NEW k \in 1 .. Len(state) PROVE packet[at + k] = state[k]
        OBVIOUS
      <3>1. before + k \in 1 .. Len(b) /\ start + (before + k) = at + k
        BY ONLY <2>4, <2>5, <2>6, <2>7, <2>10, k \in 1 .. Len(state), start \in Nat
      <3>2. packet[start + (before + k)] = b[before + k]
        BY ONLY <3>1, \A l \in 1 .. Len(b) : packet[start + l] = b[l], Zenon
      <3>3. b[before + k] = state[k]
        BY ONLY <2>4, k \in 1 .. Len(state), Zenon
      <3> QED BY ONLY <3>1, <3>2, <3>3, Zenon
    <2>12. StateAt(packet, at, UpdateState(u))
      <3>1. ASSUME Len(state) > 0 PROVE at + Len(state) <= Len(packet)
        <4>1. b # <<>>
          BY ONLY <2>4, <2>5, <2>6, <3>1
        <4>2. start + Len(b) <= Len(packet)
          BY ONLY <4>1, b # <<>> => start + Len(b) <= Len(packet), Zenon
        <4>3. Len(packet) \in Nat
          BY ONLY packet \in Seq(Bytes)
        <4> QED BY ONLY <2>4, <2>5, <2>6, <2>7, <2>10, <4>2, <4>3, start \in Nat
      <3>2. StateAt(packet, at, state)
        BY ONLY <2>11, <3>1, Zenon DEF StateAt
      <3> QED BY ONLY <2>1, <3>2, Zenon
    <2>13. PICK part : part = parts[i]
      OBVIOUS
    <2>14. part.update = u.needed
      BY ONLY <1>5, <2>1, <2>13, i \in 1 .. n, Zenon
    <2>15. BlockAt(packet, part, at) = Block(u.appearance, NumberOf(u), at + Len(state))
      <3>1. BlockAt(packet, part, at)
              = Block(u.appearance, NumberOf(u), at + Len(UpdateState(u)))
        BY ONLY <2>2, <2>8, <2>12, <2>14, packet \in Seq(Bytes), BlockRead
      <3> QED BY ONLY <2>1, <3>1, Zenon
    <2>16. at + Len(state) = start + s[i].attributes
      BY ONLY <2>2, <2>4, <2>5, <2>6, <2>7, start \in Nat
    <2>17. blocks[i] = Block(u.appearance, NumberOf(u), start + s[i].attributes)
      BY ONLY <1>4, <2>1, i \in 1 .. n, Zenon
    <2> QED BY ONLY <2>9, <2>13, <2>15, <2>16, <2>17, Zenon
  <1>9. ReadBlocks(packet, parts) = First(blocks, n)
    <2>1. BlocksFrom(packet, parts, start, blocks, n)
      BY ONLY <1>8, Zenon DEF BlocksFrom
    <2> QED BY ONLY <1>2, <1>3, <1>7, <2>1, BlocksRead
  <1> QED BY ONLY <1>1, <1>9, Zenon

\* The client finds the parts that were meant.
LEMMA PartsFound ==
  ASSUME NEW s \in Seq(Sentences), s # <<>>, NEW packet, NEW length \in Nat, Len(packet) = length,
         PartsStored(packet, s, 0, 8 * length), ~MoreAdditions(packet, Ended(s, Len(s)))
  PROVE  ReadParts(packet) = PartsOf(s)
  <1>1. PICK parts, n, size : parts = PartsOf(s) /\ n = Len(s) /\ size = ListedIn(packet, s)
    OBVIOUS
  <1>2. n \in Nat /\ n > 0 /\ n \in 1 .. n /\ 1 \in 1 .. n /\ n # 0
    BY ONLY <1>1, s \in Seq(Sentences), s # <<>>
  <1>3. Len(parts) = n /\ \A i \in 1 .. n : parts[i] = AsMeant(s[i])
    BY ONLY <1>1, <1>2 DEF PartsOf
  <1>4. \A i \in 1 .. n : s[i].end \in Nat /\ parts[i].end = s[i].end
    <2> SUFFICES ASSUME NEW i \in 1 .. n PROVE s[i].end \in Nat /\ parts[i].end = s[i].end
      OBVIOUS
    <2>1. PICK m, needed, e : m = s[i].means /\ needed = s[i].update.needed /\ e = s[i].end
      OBVIOUS
    <2>2. parts[i] = Part(m, needed, e)
      BY ONLY <1>3, <2>1, i \in 1 .. n, Zenon DEF AsMeant
    <2>3. Part(m, needed, e).end = e
      BY ONLY PartFields
    <2>4. s[i].end \in Nat
      BY ONLY <1>1, i \in 1 .. n, s \in Seq(Sentences), SentenceIs
    <2> QED BY ONLY <2>1, <2>2, <2>3, <2>4, Zenon
  <1>5. \A i \in 1 .. n : PartStored(packet, s, i) /\ s[i].end <= 8 * length
    BY ONLY <1>1, PartsStored(packet, s, 0, 8 * length), Zenon DEF PartsStored
  <1>6. size \in Nat /\ size + 1 <= n
    <2>1. size \in Nat /\ size + 1 <= n + 0
      BY ONLY <1>1, PartsStored(packet, s, 0, 8 * length), s # <<>>, Zenon DEF PartsStored
    <2> QED BY ONLY <1>2, <2>1
  <1>7. n <= size + length
    <2> DEFINE new == n - size - 1
               S == {k \in Nat : 8 * k + 24 <= s[size + 1 + k].end}
    <2>0. new \in Nat
      BY ONLY <1>2, <1>6
    <2>1. 0 \in S
      <3>1. size + 1 + 0 \in 1 .. n
        BY ONLY <1>2, <1>6
      <3>2. PICK i \in 1 .. n : i = size + 1 + 0
        BY ONLY <3>1
      <3>3. i + 24 <= s[i].end /\ s[i].end \in Nat
        BY ONLY <1>4, <1>5, Zenon DEF PartStored
      <3>4. 8 * 0 + 24 <= s[i].end
        BY ONLY <1>2, <3>3
      <3> QED BY ONLY <3>2, <3>4
    <2>2. ASSUME NEW k \in 0 .. new - 1, k \in S PROVE k + 1 \in S
      <3>1. /\ size + 1 + (k + 1) \in 1 .. n /\ size + 1 + k \in 1 .. n
            /\ size + 1 + (k + 1) > 1 /\ size + 1 + (k + 1) > size + 1
            /\ (size + 1 + (k + 1)) - 1 = size + 1 + k /\ size + 1 + k # 0 /\ k \in Nat
        BY ONLY <1>2, <1>6, <2>0, k \in 0 .. new - 1
      <3>2. PICK i, h : i = size + 1 + (k + 1) /\ h = size + 1 + k
        OBVIOUS
      <3>3. i \in 1 .. n /\ h \in 1 .. n /\ i > 1 /\ i > size + 1 /\ i - 1 = h /\ h # 0
        BY ONLY <3>1, <3>2, Zenon
      <3>4. s[i].end = Ended(s, i - 1) + 23
        BY ONLY <1>1, <1>5, <3>3, Zenon DEF PartStored
      <3>5. Ended(s, i - 1) = s[h].end
        BY ONLY <3>3, Zenon DEF Ended
      <3>6. 8 * k + 24 <= s[h].end /\ s[h].end \in Nat
        BY ONLY <1>4, <2>2, <3>2, <3>3
      <3>7. 8 * (k + 1) + 24 <= s[i].end
        BY ONLY <3>1, <3>4, <3>5, <3>6
      <3> QED BY ONLY <3>1, <3>2, <3>7
    <2>3. new \in S
      <3> HIDE DEF S, new
      <3>1. \A k \in 0 .. new : k \in S
        BY ONLY <2>0, <2>1, <2>2, InductionUpTo
      <3> QED BY ONLY <2>0, <3>1
    <2>4. 8 * new + 24 <= s[size + 1 + new].end /\ size + 1 + new = n
      BY ONLY <1>2, <1>6, <2>0, <2>3
    <2>5. s[n].end <= 8 * length /\ s[n].end \in Nat
      BY ONLY <1>2, <1>4, <1>5
    <2>6. 8 * new + 24 <= s[n].end
      BY ONLY <2>4, Zenon
    <2> QED BY ONLY <1>2, <1>6, <2>0, <2>4, <2>5, <2>6, length \in Nat
  <1>8. parts[1] = ReadSelf(packet)
    <2>1. PICK m, needed, e : m = s[1].means /\ needed = s[1].update.needed /\ e = s[1].end
      OBVIOUS
    <2>2. PartStored(packet, s, 1) /\ e \in Nat
      BY ONLY <1>2, <1>4, <1>5, <2>1, Zenon
    <2>3. ReadMovement(packet, 24, TRUE) = Part(m, needed, e - 8)
      BY ONLY <2>1, <2>2, Zenon DEF PartStored
    <2>4. parts[1] = Part(m, needed, e)
      BY ONLY <1>2, <1>3, <2>1, Zenon DEF AsMeant
    <2>5. [Part(m, needed, e - 8) EXCEPT !.end = @ + 8] = Part(m, needed, e - 8 + 8)
      BY ONLY TRUE DEF Part
    <2>6. e - 8 + 8 = e
      BY ONLY <2>2
    <2>7. ReadSelf(packet) = [Part(m, needed, e - 8) EXCEPT !.end = @ + 8]
      BY ONLY <2>3 DEF ReadSelf
    <2> QED BY ONLY <2>4, <2>5, <2>6, <2>7, Zenon
  <1>9. size = ListSize(packet, parts[1])
    <2>1. parts[1].end = s[1].end
      BY ONLY <1>2, <1>4, Zenon
    <2> QED BY ONLY <1>1, <2>1, Zenon DEF ListSize, ListedIn
  <1>10. ASSUME NEW i \in 2 .. n
         PROVE  PartIs(packet, parts, size, i)
    <2>1. i \in 1 .. n /\ i - 1 \in 1 .. n /\ i - 1 # 0 /\ i > 1 /\ i \in Nat
      BY ONLY <1>2, i \in 2 .. n
    <2>2. PICK at : at = Ended(s, i - 1)
      OBVIOUS
    <2>3. at = s[i - 1].end /\ parts[i - 1].end = at /\ at \in Nat
      BY ONLY <1>4, <2>1, <2>2, Zenon DEF Ended
    <2>4. PartStored(packet, s, i) /\ s[i].end <= 8 * length /\ s[i].end \in Nat
      BY ONLY <1>4, <1>5, <2>1, Zenon
    <2>5. parts[i] = AsMeant(s[i])
      BY ONLY <1>3, <2>1, Zenon
    <2>6. CASE i <= size + 1
      <3>1. ReadMovement(packet, at, FALSE) = AsMeant(s[i])
        BY ONLY <1>1, <2>1, <2>2, <2>4, <2>6, Zenon DEF PartStored
      <3> QED BY ONLY <2>3, <2>5, <2>6, <3>1, Zenon DEF PartIs
    <2>7. CASE ~(i <= size + 1)
      <3>1. i > size + 1
        BY ONLY <1>6, <2>1, <2>7
      <3>2. /\ ReadAddition(packet, at) = AsMeant(s[i])
            /\ ReadBits(packet, at, 11) # EndMark /\ s[i].end = at + 23
        BY ONLY <1>1, <2>1, <2>2, <2>4, <3>1, Zenon DEF PartStored
      <3>3. 8 * length - at >= 11
        BY ONLY <2>3, <2>4, <3>2, length \in Nat
      <3>4. MoreAdditions(packet, at)
        BY ONLY <3>2, <3>3, Len(packet) = length, Zenon DEF MoreAdditions
      <3> QED BY ONLY <2>3, <2>5, <2>7, <3>2, <3>4, Zenon DEF PartIs
    <2> QED BY ONLY <2>6, <2>7
  <1>11. ~MoreAdditions(packet, parts[n].end)
    <2>1. parts[n].end = Ended(s, Len(s))
      BY ONLY <1>1, <1>2, <1>4, Zenon DEF Ended
    <2> QED BY ONLY <2>1, ~MoreAdditions(packet, Ended(s, Len(s))), Zenon
  <1>12. ReadParts(packet) = First(parts, n)
    <2>1. Len(packet) \in Nat /\ n <= size + Len(packet)
      BY ONLY <1>7, Len(packet) = length, length \in Nat, Zenon
    <2>2. \A i \in 2 .. n : PartIs(packet, parts, size, i)
      BY ONLY <1>10
    <2> QED BY ONLY <1>2, <1>6, <1>8, <1>9, <1>11, <2>1, <2>2, PartsRead
  <1>13. First(parts, n) = parts
    BY ONLY <1>1, <1>3 DEF First, PartsOf
  <1> QED BY ONLY <1>1, <1>12, <1>13, Zenon

\* What Client::Send copies has all of the bits.
LEMMA PacketIs ==
  ASSUME Inv
  PROVE  /\ Packet \in Seq(Bytes) /\ Len(Packet) = pos /\ pos \in Nat
         /\ \A i \in 1 .. pos : Packet[i] = buffer[i]
         /\ SameBits(Packet, buffer, 24, 8 * pos)
  <1>1. buffer \in Seq(Bytes) /\ pos \in 0 .. Len(buffer) /\ pos \in Nat
    BY DEF Inv, TypeOK
  <1>2. /\ Packet \in Seq(Bytes) /\ Len(Packet) = pos
        /\ \A i \in 1 .. pos : Packet[i] = buffer[i]
    BY ONLY <1>1 DEF Packet
  <1>3. ASSUME NEW j \in Nat, j < 8 * pos PROVE Bit(Packet, j) = Bit(buffer, j)
    <2>1. (j \div 8) + 1 \in 1 .. pos
      BY ONLY <1>1, <1>3
    <2>2. Packet[(j \div 8) + 1] = buffer[(j \div 8) + 1]
      BY ONLY <1>2, <2>1, Zenon
    <2> QED BY ONLY <2>2, Zenon DEF Bit
  <1>4. SameBits(Packet, buffer, 24, 8 * pos)
    BY ONLY <1>3, Zenon DEF SameBits
  <1> QED BY ONLY <1>1, <1>2, <1>4, Zenon

\* A packet that has been sent is read as it was meant.
LEMMA SentRead ==
  ASSUME PacketInv, stage = "sent"
  PROVE  /\ bitPosition <= 8 * pos
         /\ ReadParts(Packet) = PartsOf(said)
         /\ \E start \in Nat :
              /\ ReadBlocks(Packet, PartsOf(said)) = First(BlocksOf(said, start), Len(said))
              /\ block # <<>> => start = pos - Len(block)
  <1>1. PICK s, b, packet, length, place, old :
          /\ s = said /\ b = block /\ packet = Packet /\ length = pos /\ place = bitPosition
          /\ old = buffer
    OBVIOUS
  <1>2. /\ Inv /\ s \in Seq(Sentences) /\ s # <<>> /\ b \in Seq(Bytes) /\ listed = 0
        /\ PartsStored(old, s, listed, place) /\ BlocksStored(s, b)
    BY <1>1 DEF PacketInv, PacketTypeOK, StageInv
  <1>3. place \in Nat
    BY ONLY <1>1, <1>2 DEF Inv, TypeOK
  <1>4. /\ packet \in Seq(Bytes) /\ Len(packet) = length /\ length \in Nat
        /\ \A i \in 1 .. length : packet[i] = old[i]
        /\ SameBits(packet, old, 24, 8 * length)
    BY ONLY <1>1, <1>2, PacketIs
  <1>5. Len(b) \in Nat /\ Rounded(place) \in Nat /\ place <= 8 * Rounded(place)
        /\ 8 * Rounded(place) <= place + 7
    BY ONLY <1>2, <1>3, RoundedIs
  <1>6. PICK end : end = Ended(s, Len(s))
    OBVIOUS
  <1>7. /\ b = <<>> => place = end /\ length = Rounded(place)
        /\ b # <<>> => /\ Marked(old, s, place) /\ length = Rounded(place) + Len(b)
                       /\ \A k \in 1 .. Len(b) : old[Rounded(place) + k] = b[k]
    <2>1. StageInv
      BY DEF PacketInv
    <2> QED BY ONLY <1>1, <1>6, <2>1, stage = "sent" DEF StageInv
  <1>8. place <= 8 * length
    <2>1. CASE b = <<>>
      BY ONLY <1>5, <1>7, <2>1
    <2>2. CASE b # <<>>
      <3>1. length = Rounded(place) + Len(b)
        BY ONLY <1>7, <2>2, Zenon
      <3> QED BY ONLY <1>3, <1>5, <3>1
    <2> QED BY ONLY <2>1, <2>2
  <1>9. SameBits(packet, old, 24, place)
    BY ONLY <1>3, <1>4, <1>8 DEF SameBits
  <1>10. PartsStored(packet, s, 0, 8 * length)
    <2>1. PICK to : to = 8 * length
      OBVIOUS
    <2>2. to \in Nat /\ place <= to
      BY ONLY <1>4, <1>8, <2>1
    <2>3. PICK more \in Nat : more = 0
      OBVIOUS
    <2>4. PartsStored(old, s, more, place)
      BY ONLY <1>2, <2>3, Zenon
    <2>5. PartsStored(packet, s, more, to)
      BY ONLY <1>2, <1>3, <1>9, <2>2, <2>4, PartsStay
    <2> QED BY ONLY <2>1, <2>3, <2>5, Zenon
  <1>11. end \in Nat /\ end >= 25
    BY ONLY <1>2, <1>6, LastIs
  <1>12. ASSUME b # <<>>
         PROVE  place = end + 11 /\ ReadBits(packet, end, 11) = EndMark
    <2>1. Marked(old, s, place)
      BY ONLY <1>7, <1>12, Zenon
    <2>2. Marked(packet, s, place)
      BY ONLY <1>2, <1>3, <1>9, <2>1, MarkStays
    <2> QED BY ONLY <1>6, <2>2, Zenon DEF Marked
  <1>13. ~MoreAdditions(packet, end)
    <2>1. CASE b = <<>>
      <3>1. place = end /\ length = Rounded(place)
        BY ONLY <1>7, <2>1, Zenon
      <3>2. ~(8 * length - end >= 11)
        BY ONLY <1>3, <1>4, <1>5, <3>1
      <3> QED BY ONLY <1>4, <3>2, Zenon DEF MoreAdditions
    <2>2. CASE b # <<>>
      BY ONLY <1>12, <2>2, Zenon DEF MoreAdditions
    <2> QED BY ONLY <2>1, <2>2
  <1>14. ReadParts(packet) = PartsOf(s)
    <2>1. ~MoreAdditions(packet, Ended(s, Len(s)))
      BY ONLY <1>6, <1>13, Zenon
    <2> QED BY ONLY <1>2, <1>4, <1>10, <2>1, PartsFound
  <1>15. PICK start : start = (end + 11 + 7) \div 8
    OBVIOUS
  <1>16. start \in Nat
    BY ONLY <1>11, <1>15
  <1>17. ASSUME b # <<>>
         PROVE  /\ start = Rounded(place) /\ length = start + Len(b)
                /\ \A k \in 1 .. Len(b) : old[start + k] = b[k]
    <2>1. place = end + 11
      BY ONLY <1>12, <1>17
    <2>2. start = Rounded(place)
      BY ONLY <1>15, <2>1, Zenon DEF Rounded
    <2>3. /\ length = Rounded(place) + Len(b)
          /\ \A k \in 1 .. Len(b) : old[Rounded(place) + k] = b[k]
      BY ONLY <1>7, <1>17, Zenon
    <2> QED BY ONLY <2>2, <2>3, Zenon
  <1>18. \A k \in 1 .. Len(b) : packet[start + k] = b[k]
    <2> SUFFICES ASSUME NEW k \in 1 .. Len(b) PROVE packet[start + k] = b[k]
      OBVIOUS
    <2>1. b # <<>>
      BY ONLY <1>2, k \in 1 .. Len(b)
    <2>2. length = start + Len(b) /\ old[start + k] = b[k]
      BY ONLY <1>17, <2>1, k \in 1 .. Len(b), Zenon
    <2>3. start + k \in 1 .. length
      BY ONLY <1>5, <1>16, <2>2, k \in 1 .. Len(b)
    <2> QED BY ONLY <1>4, <2>2, <2>3, Zenon
  <1>19. b # <<>> => start + Len(b) <= Len(packet)
    <2> SUFFICES ASSUME b # <<>> PROVE start + Len(b) <= Len(packet)
      OBVIOUS
    <2>1. Len(packet) = start + Len(b)
      BY ONLY <1>4, <1>17, b # <<>>, Zenon
    <2> QED BY ONLY <1>5, <1>16, <2>1
  <1>20. ReadBlocks(packet, PartsOf(s)) = First(BlocksOf(s, start), Len(s))
    <2>1. start = (Ended(s, Len(s)) + 11 + 7) \div 8
      BY ONLY <1>6, <1>15, Zenon
    <2> QED BY ONLY <1>2, <1>4, <1>16, <1>18, <1>19, <2>1, BlocksFound
  <1>21. block # <<>> => start = pos - Len(block)
    <2>1. b # <<>> => start = length - Len(b)
      BY ONLY <1>5, <1>16, <1>17
    <2> QED BY ONLY <1>1, <2>1, Zenon
  <1> QED BY ONLY <1>1, <1>8, <1>14, <1>16, <1>20, <1>21, Zenon

\* The blocks a packet is read with.
LEMMA BlocksAre ==
  ASSUME NEW s \in Seq(Sentences), NEW start \in Nat, NEW blocks,
         blocks = First(BlocksOf(s, start), Len(s))
  PROVE  /\ Len(blocks) = Len(s)
         /\ \A i \in 1 .. Len(s) :
              /\ blocks[i].appearance = s[i].update.appearance
              /\ blocks[i].number = NumberOf(s[i].update)
              /\ blocks[i].end = start + s[i].attributes
  <1>1. Len(s) \in Nat
    BY ONLY s \in Seq(Sentences)
  <1>2. Len(blocks) = Len(s) /\ \A i \in 1 .. Len(s) : blocks[i] = BlocksOf(s, start)[i]
    <2>1. PICK n, t : n = Len(s) /\ t = BlocksOf(s, start)
      OBVIOUS
    <2>2. n \in Nat /\ blocks = First(t, n)
      BY ONLY <1>1, <2>1, blocks = First(BlocksOf(s, start), Len(s)), Zenon
    <2>3. Len(First(t, n)) = n /\ \A j \in 1 .. n : First(t, n)[j] = t[j]
      BY ONLY <2>2, FirstIs
    <2> QED BY ONLY <2>1, <2>2, <2>3, Zenon
  <1>3. ASSUME NEW i \in 1 .. Len(s)
        PROVE  /\ blocks[i].appearance = s[i].update.appearance
               /\ blocks[i].number = NumberOf(s[i].update)
               /\ blocks[i].end = start + s[i].attributes
    <2>1. PICK a, v, e : /\ a = s[i].update.appearance /\ v = NumberOf(s[i].update)
                         /\ e = start + s[i].attributes
      OBVIOUS
    <2>2. blocks[i] = BlocksOf(s, start)[i]
      BY ONLY <1>2, <1>3, Zenon
    <2>3. BlocksOf(s, start)[i]
            = Block(s[i].update.appearance, NumberOf(s[i].update), start + s[i].attributes)
      BY ONLY <1>3, Zenon DEF BlocksOf
    <2>4. blocks[i] = Block(a, v, e)
      BY ONLY <2>1, <2>2, <2>3, Zenon
    <2>5. Block(a, v, e).appearance = a /\ Block(a, v, e).number = v /\ Block(a, v, e).end = e
      BY ONLY BlockFields
    <2> QED BY ONLY <2>1, <2>4, <2>5, Zenon
  <1> QED BY ONLY <1>2, <1>3, Zenon

\* The client understands the packet.
LEMMA InvUnderstood == PacketInv => PacketUnderstood
  <1> SUFFICES ASSUME PacketInv, stage = "sent"
               PROVE  LET blocks == ReadBlocks(Packet, ReadParts(Packet))
                      IN  /\ bitPosition <= 8 * pos
                          /\ ReadParts(Packet) = Parts
                          /\ Len(blocks) = Len(said)
                          /\ \A i \in 1 .. Len(said) :
                               /\ blocks[i].appearance = said[i].update.appearance
                               /\ block # <<>> => blocks[i].end = pos - Len(block) + said[i].attributes
    BY DEF PacketUnderstood
  <1>1. /\ bitPosition <= 8 * pos /\ ReadParts(Packet) = PartsOf(said)
        /\ \E start \in Nat :
             /\ ReadBlocks(Packet, PartsOf(said)) = First(BlocksOf(said, start), Len(said))
             /\ block # <<>> => start = pos - Len(block)
    BY ONLY PacketInv, stage = "sent", SentRead
  <1>2. PICK start \in Nat :
          /\ ReadBlocks(Packet, PartsOf(said)) = First(BlocksOf(said, start), Len(said))
          /\ block # <<>> => start = pos - Len(block)
    BY ONLY <1>1
  <1>3. PICK blocks, s : blocks = ReadBlocks(Packet, ReadParts(Packet)) /\ s = said
    OBVIOUS
  <1>4. s \in Seq(Sentences)
    BY <1>3 DEF PacketInv, PacketTypeOK
  <1>5. blocks = First(BlocksOf(s, start), Len(s))
    BY ONLY <1>1, <1>2, <1>3, Zenon
  <1>6. /\ Len(blocks) = Len(s)
        /\ \A i \in 1 .. Len(s) :
             /\ blocks[i].appearance = s[i].update.appearance
             /\ blocks[i].number = NumberOf(s[i].update)
             /\ blocks[i].end = start + s[i].attributes
    BY ONLY <1>4, <1>5, start \in Nat, BlocksAre
  <1>7. PartsOf(said) = Parts
    BY ONLY Zenon DEF PartsOf, AsMeant, Parts
  <1> QED BY ONLY <1>1, <1>2, <1>3, <1>6, <1>7, Zenon

\* The names are kept, and those that are short are shown.
LEMMA InvShown == PacketInv => NamesShown
  <1> SUFFICES ASSUME PacketInv, stage = "sent", NEW i \in 1 .. Len(said), said[i].update.appearance
               PROVE  LET u == said[i].update
                          blocks == ReadBlocks(Packet, ReadParts(Packet))
                      IN  /\ NameOf(PlayerNameToInt64(u.name)) = Visible(u.name)
                          /\ Len(Visible(u.name)) <= ShortName =>
                               NameOf(blocks[i].number) = Visible(u.name)
    BY Zenon DEF NamesShown
  <1>1. /\ bitPosition <= 8 * pos /\ ReadParts(Packet) = PartsOf(said)
        /\ \E start \in Nat :
             /\ ReadBlocks(Packet, PartsOf(said)) = First(BlocksOf(said, start), Len(said))
             /\ block # <<>> => start = pos - Len(block)
    BY ONLY PacketInv, stage = "sent", SentRead
  <1>2. PICK start \in Nat :
          ReadBlocks(Packet, PartsOf(said)) = First(BlocksOf(said, start), Len(said))
    BY ONLY <1>1
  <1>3. PICK blocks, s, u : /\ blocks = ReadBlocks(Packet, ReadParts(Packet)) /\ s = said
                            /\ u = s[i].update
    OBVIOUS
  <1>4. s \in Seq(Sentences) /\ i \in 1 .. Len(s)
    BY <1>3 DEF PacketInv, PacketTypeOK
  <1>5. blocks = First(BlocksOf(s, start), Len(s))
    BY ONLY <1>1, <1>2, <1>3, Zenon
  <1>6. blocks[i].number = NumberOf(u)
    <2>1. \A j \in 1 .. Len(s) :
             /\ blocks[j].appearance = s[j].update.appearance
             /\ blocks[j].number = NumberOf(s[j].update)
             /\ blocks[j].end = start + s[j].attributes
      BY ONLY <1>4, <1>5, start \in Nat, BlocksAre
    <2> QED BY ONLY <1>3, <1>4, <2>1, Zenon
  <1>7. u \in Updates /\ u.appearance = TRUE
    <2>1. u \in Updates
      BY ONLY <1>3, <1>4, SentenceIs
    <2>2. u.appearance \in BOOLEAN
      BY ONLY <2>1, UpdateIs
    <2> QED BY ONLY <1>3, <2>1, <2>2, said[i].update.appearance, Zenon
  <1>8. u.name \in Seq(Bytes)
    BY ONLY <1>7, StateIs
  <1>9. PICK name : name = u.name
    OBVIOUS
  <1>10. /\ NameOf(PlayerNameToInt64(name)) = Visible(name)
         /\ Len(Visible(name)) <= ShortName =>
              Shortened(PlayerNameToInt64(name)) = PlayerNameToInt64(name)
    <2>1. name \in Seq(Bytes)
      BY ONLY <1>8, <1>9, Zenon
    <2> QED BY ONLY <2>1, NameKept
  <1>11. blocks[i].number = Shortened(PlayerNameToInt64(name))
    BY ONLY <1>6, <1>7, <1>9, Zenon DEF NumberOf
  <1> QED BY ONLY <1>3, <1>9, <1>10, <1>11, Zenon

----------------------------------------------------------------------------
(* Theorems *)

\* The inductive invariant of the packet holds in every state, of an update and of
\* any other packet of StreamBuffer's calls.
THEOREM PacketInvariance == PacketSpec => []PacketInv
  <1>1. PacketInit => PacketInv
    BY PacketInitInv
  <1>2. PacketInv /\ [PacketNext]_packetVars => PacketInv'
    BY PacketStepInv
  <1> QED BY <1>1, <1>2, PTL DEF PacketSpec

\* UpdatePlayer never writes beyond m_Buffer, whose first m_Pos bytes Client::Send copies.
THEOREM PacketTypeCorrect == PacketSpec => []TypeOK
  <1>1. PacketInv => TypeOK
    BY DEF PacketInv, Inv
  <1> QED BY <1>1, PacketInvariance, PTL

\* What the packet is made of can be read back where StreamBuffer wrote it.
THEOREM PacketReadBack == PacketSpec => []ReadBack
  <1>1. PacketInv => ReadBack
    BY InvReadBack DEF PacketInv
  <1> QED BY <1>1, PacketInvariance, PTL

\* FinishVariableHeader writes the number of bytes that follow.
THEOREM PacketSizeRight == PacketSpec => []SizeFieldRight
  <1>1. PacketInv => SizeFieldRight
    BY DEF PacketInv, Inv
  <1> QED BY <1>1, PacketInvariance, PTL

\* A client reads from the bytes of an update exactly the parts UpdatePlayer meant, in
\* order and no more, and the block of attributes of each.
THEOREM UpdateUnderstood == PacketSpec => []PacketUnderstood
  <1> QED BY InvUnderstood, PacketInvariance, PTL

\* PlayerNameToInt64 keeps what is visible of a name, and the client is shown the names
\* whose number WriteLong(int32_t) does not cut.
THEOREM UpdateNamesShown == PacketSpec => []NamesShown
  <1> QED BY InvShown, PacketInvariance, PTL
=============================================================================
