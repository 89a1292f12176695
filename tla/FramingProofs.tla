---------------------------- MODULE FramingProofs ----------------------------
(***************************************************************************)
(* Proofs about Framing, for any packets, any number of them, any rate     *)
(* limit and any way the stream is cut into reads.                         *)
(***************************************************************************)
EXTENDS Framing, InductionProofs

USE KindsAssumption, LimitsAssumption

----------------------------------------------------------------------------
(* The inductive invariant *)

\* What HandleIncomingData knows at each place of its loop, wherever reads end.
LoopState ==
  /\ step = "opcode" => at < end
  /\ step \in {"length", "payload"} => at <= end
  /\ step \in {"length", "payload"} => kind \in Kinds
  /\ step = "payload" => length \in Nat
  /\ step # "read" => ~closed
  /\ ~closed => rate <= MaxRate

\* Where HandleIncomingData is in the packets sent, as long as no read has ended inside
\* one and no packet handled has read on into the next: the packet at hand is the next
\* one, its key is the next one, and all of it has been read.
AtBoundary ==
  /\ \E k \in 1 .. Len(sent) + 1 : end = Begin[k]
  /\ step \in {"read", "opcode"} =>
       keys = Len(handled) /\ keys <= Len(sent) /\ at = Begin[keys + 1]
  /\ step = "read" => at = end
  /\ step \in {"length", "payload"} =>
       /\ keys = Len(handled) + 1 /\ keys <= Len(sent)
       /\ kind = sent[keys] /\ Begin[keys + 1] <= end
  /\ step = "length" => at = Begin[keys] + 1
  /\ step = "payload" => length = kind.length /\ at + length = Begin[keys + 1]

InStep ==
  aligned =>
    /\ \A i \in 1 .. Len(handled) : Intact(i) =>
         handled[i] = i /\ i <= Len(sent) /\ Begin[i + 1] <= end
    /\ ~closed /\ Intact(Len(handled) + 1) => AtBoundary

Inv == TypeOK /\ LoopState /\ InStep

----------------------------------------------------------------------------
(* The stream *)

\* f gives the beginnings of the first n packets.
Beginnings(f, n) ==
  f = [k \in 1 .. n |->
         IF k = 1 THEN 0
         ELSE IF k - 1 > Len(sent) THEN f[k - 1]
         ELSE f[k - 1] + Size(sent[k - 1])]

\* There is such a function for every n.
LEMMA BeginningsExist == ASSUME NEW n \in Nat PROVE \E f : Beginnings(f, n)
  <1> DEFINE S == {m \in Nat : \E f : Beginnings(f, m)}
  <1>1. 0 \in S
    <2>1. Beginnings([k \in 1 .. 0 |-> 0], 0)
      BY DEF Beginnings
    <2> QED BY <2>1
  <1>2. ASSUME NEW m \in S PROVE m + 1 \in S
    <2>1. PICK f : Beginnings(f, m)
      OBVIOUS
    <2> DEFINE v == IF m + 1 = 1 THEN 0
                    ELSE IF m > Len(sent) THEN f[m]
                    ELSE f[m] + Size(sent[m])
               g == [k \in 1 .. m + 1 |-> IF k = m + 1 THEN v ELSE f[k]]
    <2>2. Beginnings(g, m + 1)
      <3> SUFFICES ASSUME NEW k \in 1 .. m + 1
                   PROVE  g[k] = IF k = 1 THEN 0
                                 ELSE IF k - 1 > Len(sent) THEN g[k - 1]
                                 ELSE g[k - 1] + Size(sent[k - 1])
        BY DEF Beginnings
      <3>1. CASE k = m + 1
        <4>1. g[k] = v /\ (k # 1 => g[k - 1] = f[m])
          BY <3>1
        <4> QED BY <3>1, <4>1
      <3>2. CASE k # m + 1
        <4>1. k \in 1 .. m /\ g[k] = f[k] /\ (k # 1 => g[k - 1] = f[k - 1])
          BY <3>2
        <4> QED BY <2>1, <4>1 DEF Beginnings
      <3> QED BY <3>1, <3>2
    <2> QED BY <2>2
  <1>3. Nat \subseteq S
    <2> HIDE DEF S
    <2> QED BY <1>1, <1>2, InductionOverNat
  <1> QED BY <1>3

\* What the definition of Begin says.
LEMMA BeginIs ==
  /\ Begin[1] = 0
  /\ \A k \in 1 .. MaxPackets :
       Begin[k + 1] = IF k > Len(sent) THEN Begin[k] ELSE Begin[k] + Size(sent[k])
  <1>1. \E f : Beginnings(f, MaxPackets + 1)
    BY BeginningsExist
  <1>2. Begin = CHOOSE f : Beginnings(f, MaxPackets + 1)
    BY DEF Begin, Beginnings
  <1>3. Beginnings(Begin, MaxPackets + 1)
    BY <1>1, <1>2
  <1>4. Begin[1] = 0
    BY <1>3 DEF Beginnings
  <1>5. ASSUME NEW k \in 1 .. MaxPackets
        PROVE  Begin[k + 1] = IF k > Len(sent) THEN Begin[k] ELSE Begin[k] + Size(sent[k])
    <2>1. k + 1 \in 1 .. MaxPackets + 1 /\ k + 1 # 1 /\ (k + 1) - 1 = k
      OBVIOUS
    <2> QED BY <1>3, <2>1 DEF Beginnings
  <1> QED BY <1>4, <1>5

\* A packet has an opcode, and its payload after it.
LEMMA SizePositive ==
  ASSUME NEW k \in Kinds
  PROVE  /\ Size(k) \in Nat /\ Size(k) > 0 /\ k.length \in Nat /\ k.variable \in BOOLEAN
         /\ k.form \in Forms
         /\ Size(k) = IF k.variable THEN k.length + 2 ELSE k.length + 1
  <1>1. k \in [variable : BOOLEAN, length : Nat, form : Forms]
    OBVIOUS
  <1> QED BY <1>1 DEF Size

\* A packet begins where the one before it ends, behind its opcode.
LEMMA BeginNext ==
  ASSUME sent \in Seq(Kinds), Len(sent) <= MaxPackets, NEW k \in 1 .. Len(sent)
  PROVE  /\ sent[k] \in Kinds /\ k + 1 \in 1 .. Len(sent) + 1
         /\ Begin[k + 1] = Begin[k] + Size(sent[k])
  <1>1. k \in 1 .. MaxPackets /\ ~ (k > Len(sent)) /\ sent[k] \in Kinds
    OBVIOUS
  <1> QED BY <1>1, BeginIs

\* The beginnings are positions of the stream ...
LEMMA BeginNat ==
  ASSUME sent \in Seq(Kinds), Len(sent) <= MaxPackets
  PROVE  \A k \in 1 .. Len(sent) + 1 : Begin[k] \in Nat
  <1> DEFINE S == {m \in Nat : m + 1 \in 1 .. Len(sent) + 1 => Begin[m + 1] \in Nat}
  <1>1. 0 \in S
    BY BeginIs
  <1>2. ASSUME NEW m \in Nat, m \in S PROVE m + 1 \in S
    <2> SUFFICES ASSUME m + 2 \in 1 .. Len(sent) + 1 PROVE Begin[m + 2] \in Nat
      OBVIOUS
    <2>1. m + 1 \in 1 .. Len(sent) /\ Begin[m + 1] \in Nat
      BY <1>2
    <2>2. Begin[(m + 1) + 1] = Begin[m + 1] + Size(sent[m + 1]) /\ Size(sent[m + 1]) \in Nat
      BY <2>1, BeginNext, SizePositive
    <2>3. (m + 1) + 1 = m + 2
      OBVIOUS
    <2> QED BY <2>1, <2>2, <2>3
  <1> HIDE DEF S
  <1>3. Nat \subseteq S
    BY <1>1, <1>2, InductionOverNat
  <1> USE DEF S
  <1>4. ASSUME NEW k \in 1 .. Len(sent) + 1 PROVE Begin[k] \in Nat
    <2>1. k - 1 \in Nat /\ (k - 1) + 1 = k
      OBVIOUS
    <2> QED BY <1>3, <2>1
  <1> QED BY <1>4

\* ... in their order.
LEMMA BeginIncreases ==
  ASSUME sent \in Seq(Kinds), Len(sent) <= MaxPackets
  PROVE  \A j, k \in 1 .. Len(sent) + 1 : j < k => Begin[j] < Begin[k]
  <1> SUFFICES ASSUME NEW j \in 1 .. Len(sent) + 1
               PROVE  \A k \in 1 .. Len(sent) + 1 : j < k => Begin[j] < Begin[k]
    OBVIOUS
  <1> DEFINE S == {m \in Nat : j + m + 1 <= Len(sent) + 1 => Begin[j] < Begin[j + m + 1]}
  <1>a. \A k \in 1 .. Len(sent) + 1 : Begin[k] \in Nat
    BY BeginNat
  <1>b. ASSUME NEW k \in 1 .. Len(sent) PROVE Begin[k] < Begin[k + 1]
    <2>1. Begin[k + 1] = Begin[k] + Size(sent[k]) /\ sent[k] \in Kinds
      BY BeginNext
    <2>2. Size(sent[k]) \in Nat /\ Size(sent[k]) > 0
      BY <2>1, SizePositive
    <2>3. Begin[k] \in Nat
      BY <1>a
    <2> QED BY <2>1, <2>2, <2>3
  <1>1. 0 \in S
    <2> SUFFICES ASSUME j + 1 <= Len(sent) + 1 PROVE Begin[j] < Begin[j + 1]
      OBVIOUS
    <2>1. j \in 1 .. Len(sent)
      OBVIOUS
    <2> QED BY <1>b, <2>1
  <1>2. ASSUME NEW m \in Nat, m \in S PROVE m + 1 \in S
    <2> DEFINE i == j + m + 1
    <2> SUFFICES ASSUME i + 1 <= Len(sent) + 1 PROVE Begin[j] < Begin[i + 1]
      OBVIOUS
    <2>1. i \in 1 .. Len(sent) /\ Begin[j] < Begin[i]
      BY <1>2
    <2>2. i \in 1 .. Len(sent) + 1 /\ i + 1 \in 1 .. Len(sent) + 1
      BY <2>1
    <2> HIDE DEF i
    <2>3. Begin[i] < Begin[i + 1] /\ {Begin[j], Begin[i], Begin[i + 1]} \subseteq Nat
      BY <1>a, <1>b, <2>1, <2>2
    <2> QED BY <2>1, <2>3
  <1> HIDE DEF S
  <1>3. Nat \subseteq S
    BY <1>1, <1>2, InductionOverNat
  <1>4. ASSUME NEW k \in 1 .. Len(sent) + 1, j < k PROVE Begin[j] < Begin[k]
    <2>1. k - j - 1 \in Nat /\ j + (k - j - 1) + 1 = k /\ k <= Len(sent) + 1
      BY <1>4
    <2>2. k - j - 1 \in S
      BY <1>3, <2>1
    <2> QED BY <2>1, <2>2 DEF S
  <1> QED BY <1>4
\* The stream ends where the packet after the last one would begin.
LEMMA TotalIs ==
  ASSUME sent \in Seq(Kinds), Len(sent) <= MaxPackets
  PROVE  /\ Total = Begin[Len(sent) + 1] /\ Total \in Nat
         /\ \A k \in 1 .. Len(sent) + 1 : Begin[k] \in Nat /\ Begin[k] <= Total
  <1>1. Total = Begin[Len(sent) + 1] /\ Len(sent) + 1 \in 1 .. Len(sent) + 1
    BY DEF Total
  <1>2. \A k \in 1 .. Len(sent) + 1 : Begin[k] \in Nat
    BY BeginNat
  <1>3. ASSUME NEW k \in 1 .. Len(sent) + 1 PROVE Begin[k] <= Total
    <2>1. CASE k = Len(sent) + 1
      BY <1>1, <1>2, <2>1
    <2>2. CASE k < Len(sent) + 1
      <3>1. Begin[k] < Begin[Len(sent) + 1]
        BY <1>1, <2>2, BeginIncreases
      <3> QED BY <1>1, <1>2, <3>1
    <2> QED BY <2>1, <2>2
  <1> QED BY <1>1, <1>2, <1>3

\* The peer has sent what it sends: no step changes the stream.
LEMMA StreamStays ==
  ASSUME [Next]_vars
  PROVE  sent' = sent /\ Begin' = Begin /\ Total' = Total
  <1>1. sent' = sent
    BY DEF Next, HandleRead, HandleIncomingData, DecodeOpcode, DecodeLength, HandlePacket,
       HandlePacketThrows, PayloadMissing, PayloadIncomplete, vars
  <1>2. Begin' = Begin
    BY <1>1 DEF Begin
  <1> QED BY <1>1, <1>2 DEF Total

----------------------------------------------------------------------------
(* What HandlePacket takes of a packet *)

\* A packet that does not make HandlePacket throw is taken as a whole, and one byte of
\* what is behind it at most.
LEMMA ConsumedIs ==
  ASSUME NEW f \in Forms, NEW n \in Nat, ~Throws(f, n)
  PROVE  Consumed(f, n) \in {n, n + 1}
  <1> DEFINE paths == (IF f = "minimap" THEN n - Trailer ELSE n) - 5
  <1>1. CASE f = "other"
    BY <1>1 DEF Consumed
  <1>2. CASE f # "other"
    <2>1. paths \in Int /\ paths <= n - 5
      OBVIOUS
    <2>2. Steps(f, n) = IF paths >= 0 THEN paths \div 2 ELSE -((-paths) \div 2)
      BY DEF Steps
    <2>3. ~ (Steps(f, n) < 0)
      BY <1>2 DEF Throws
    <2> HIDE DEF paths
    <2>4. CASE paths >= 0
      <3>1. Steps(f, n) \in Int /\ 2 * Steps(f, n) <= paths
        BY <2>1, <2>2, <2>4
      <3> QED BY <2>1, <3>1 DEF Consumed
    <2>5. CASE paths < 0
      <3>1. -paths \in Nat /\ (-paths) \div 2 \in Nat /\ (-paths) < 2 * ((-paths) \div 2) + 2
        BY <2>1, <2>5
      <3>2. Steps(f, n) = -((-paths) \div 2)
        BY <2>1, <2>2, <2>5
      <3>3. (-paths) \div 2 = 0
        BY <2>3, <3>1, <3>2
      <3>4. Steps(f, n) = 0 /\ n >= 4
        BY <2>1, <3>1, <3>2, <3>3
      <3> QED BY <3>4 DEF Consumed
    <2> QED BY <2>1, <2>4, <2>5
  <1> QED BY <1>1, <1>2

\* A first packet that reads on is one that none before it has led astray.
LEMMA FirstOverRead ==
  ASSUME NEW n \in Nat, Len(sent) \in Nat, ~Intact(n + 1)
  PROVE  \E k \in 1 .. n : k <= Len(sent) /\ OverReads(sent[k]) /\ Intact(k)
  <1> DEFINE First(m) == \E k \in 1 .. m : k <= Len(sent) /\ OverReads(sent[k]) /\ Intact(k)
             S == {m \in Nat : Intact(m + 1) \/ First(m)}
  <1>1. 0 \in S
    BY DEF Intact
  <1>2. ASSUME NEW m \in S PROVE m + 1 \in S
    <2>1. CASE First(m)
      BY <2>1
    <2>2. CASE Intact(m + 1) /\ m + 1 <= Len(sent) /\ OverReads(sent[m + 1])
      <3>1. m + 1 \in 1 .. m + 1
        OBVIOUS
      <3> QED BY <2>2, <3>1
    <2>3. CASE Intact(m + 1) /\ ~ (m + 1 <= Len(sent) /\ OverReads(sent[m + 1]))
      <3>1. ASSUME NEW k \in 1 .. Len(sent), k < (m + 1) + 1 PROVE ~OverReads(sent[k])
        <4>1. k < m + 1 \/ k = m + 1
          BY <3>1
        <4> QED BY <2>3, <4>1 DEF Intact
      <3> QED BY <3>1 DEF Intact
    <2> QED BY <2>1, <2>2, <2>3
  <1> HIDE DEF S
  <1>3. n \in S
    BY <1>1, <1>2, InductionOverNat
  <1> QED BY <1>3 DEF S

----------------------------------------------------------------------------
(* Types *)

\* The packet at hand is one that was sent, or none.
LEMMA PacketAtHand ==
  ASSUME TypeOK
  PROVE  /\ AtPacket \subseteq 1 .. Len(sent) /\ InPacket \subseteq 1 .. Len(sent)
         /\ \A k \in 1 .. Len(sent) : sent[k] \in Kinds
         /\ (IF InPacket # {} THEN CHOOSE k \in InPacket : TRUE ELSE 0) \in 0 .. Len(sent)
  <1>1. sent \in Seq(Kinds) /\ Len(sent) \in Nat
    BY DEF TypeOK
  <1>2. AtPacket \subseteq 1 .. Len(sent) /\ InPacket \subseteq 1 .. Len(sent)
    BY DEF AtPacket, InPacket
  <1>3. \A k \in 1 .. Len(sent) : sent[k] \in Kinds
    BY <1>1
  <1>4. CASE InPacket = {}
    BY <1>1, <1>2, <1>3, <1>4
  <1>5. CASE InPacket # {}
    <2>1. (CHOOSE k \in InPacket : TRUE) \in InPacket
      BY <1>5
    <2>2. \A k \in 1 .. Len(sent) : k \in 0 .. Len(sent)
      BY <1>1
    <2>3. (CHOOSE k \in InPacket : TRUE) \in 0 .. Len(sent)
      BY <1>2, <2>1, <2>2, Zenon
    <2> QED BY <1>2, <1>3, <1>5, <2>3
  <1> QED BY <1>4, <1>5

\* The types and what the loop knows are kept by every step: in particular no more than
\* one byte is taken that has not been read, and no packet without its length.
LEMMA TypeStep == TypeOK /\ LoopState /\ [Next]_vars => TypeOK' /\ LoopState'
  <1> SUFFICES ASSUME TypeOK, LoopState, [Next]_vars PROVE TypeOK' /\ LoopState'
    OBVIOUS
  <1>a. /\ sent \in Seq(Kinds) /\ Len(sent) \in Nat /\ Len(sent) <= MaxPackets
        /\ Total \in Nat /\ end \in 0 .. Total /\ at \in 0 .. end + 1
        /\ rate \in 0 .. MaxRate + 1 /\ burst \in 0 .. MaxRate + 1 /\ keys \in Nat
    BY TotalIs DEF TypeOK
  <1>b. sent' = sent /\ Total' = Total
    BY StreamStays
  <1>c. /\ handled \in Seq(0 .. Len(sent)) /\ closed \in BOOLEAN /\ aligned \in BOOLEAN
        /\ kind \in Kinds \cup {NoKind} /\ length \in Nat \cup {Unknown}
        /\ step \in {"read", "opcode", "length", "payload", "terminated"}
    BY DEF TypeOK
  <1>1. ASSUME NEW newSecond \in BOOLEAN, HandleRead(newSecond) PROVE TypeOK' /\ LoopState'
    <2>1. /\ step = "read" /\ ~closed
          /\ kind' = kind /\ length' = length /\ keys' = keys /\ handled' = handled
          /\ rate' = IF newSecond THEN 1 ELSE rate + 1
          /\ burst' = IF newSecond THEN 0 ELSE burst
      BY <1>1 DEF HandleRead
    <2>2. PICK e \in end + 1 .. Total :
            /\ end' = e
            /\ aligned' = (aligned /\ \E k \in 1 .. Len(sent) + 1 : e = Begin[k])
            /\ closed' = (rate' > MaxRate)
            /\ IF closed' THEN at' = e /\ UNCHANGED step
                          ELSE step' = "opcode" /\ at' = end
      BY <1>1 DEF HandleRead
    <2>3. rate' \in 0 .. MaxRate + 1 /\ burst' \in 0 .. MaxRate + 1
      BY <1>a, <2>1 DEF LoopState
    <2>4. closed' \in BOOLEAN /\ aligned' \in BOOLEAN
      BY <2>2
    <2>5. end' \in 0 .. Total /\ at' \in 0 .. end' + 1
      BY <1>a, <2>2
    <2>6. step' \in {"read", "opcode", "length", "payload", "terminated"}
      BY <1>c, <2>2
    <2>7. TypeOK'
      BY <1>a, <1>b, <1>c, <2>1, <2>3, <2>4, <2>5, <2>6 DEF TypeOK
    <2>8. CASE closed'
      BY <2>1, <2>2, <2>7, <2>8 DEF LoopState
    <2>9. CASE ~closed'
      <3>1. step' = "opcode" /\ at' = end /\ ~ (rate' > MaxRate)
        BY <2>2, <2>9
      <3>2. at' < end' /\ rate' <= MaxRate
        BY <1>a, <2>2, <2>3, <3>1
      <3> QED BY <2>7, <2>9, <3>1, <3>2 DEF LoopState
    <2> QED BY <2>8, <2>9
  <1>2. CASE DecodeOpcode
    <2>1. /\ step = "opcode" /\ at' = at + 1 /\ keys' = keys + 1 /\ step' = "length"
          /\ UNCHANGED <<end, length, handled, rate, burst, closed, aligned>>
      BY <1>2 DEF DecodeOpcode
    <2>2. kind' \in Kinds
      BY <1>2, PacketAtHand DEF DecodeOpcode
    <2>3. at' \in 0 .. end' + 1 /\ at' <= end' /\ keys' \in Nat
      BY <1>a, <2>1 DEF LoopState
    <2>4. TypeOK'
      BY <1>a, <1>b, <1>c, <2>1, <2>2, <2>3 DEF TypeOK
    <2> QED BY <2>1, <2>2, <2>3, <2>4 DEF LoopState
  <1>3. CASE DecodeLength
    <2>1. /\ step = "length" /\ kind \in Kinds /\ at <= end
          /\ UNCHANGED <<end, keys, handled, rate, burst, closed, aligned>>
      BY <1>3 DEF DecodeLength, LoopState
    <2>2. kind.length \in Nat /\ \A k \in Kinds : k.length \in Nat
      BY <2>1, SizePositive
    <2>3. /\ length' \in Nat \cup {Unknown} /\ kind' \in Kinds \cup {NoKind}
          /\ at' \in 0 .. end + 1 /\ at' <= end /\ step' \in {"read", "payload"}
          /\ step' = "payload" => length' \in Nat /\ kind' = kind
      <3>1. CASE /\ ~kind.variable /\ length' = kind.length
                 /\ step' = "payload" /\ UNCHANGED <<at, kind>>
        BY <1>a, <2>1, <2>2, <3>1
      <3>2. CASE /\ kind.variable /\ at < end
                 /\ length' \in IF InPacket # {} THEN {kind.length} ELSE {k.length : k \in Kinds}
                 /\ at' = at + 1 /\ step' = "payload" /\ UNCHANGED kind
        <4>1. length' \in Nat
          BY <2>2, <3>2
        <4>2. at' \in 0 .. end + 1 /\ at' <= end
          BY <1>a, <3>2
        <4> QED BY <2>1, <3>2, <4>1, <4>2
      <3>3. CASE /\ kind.variable /\ at = end
                 /\ step' = "read" /\ kind' = NoKind /\ UNCHANGED <<at, length>>
        BY <1>a, <1>c, <3>3
      <3> QED BY <1>3, <3>1, <3>2, <3>3 DEF DecodeLength
    <2>4. TypeOK'
      BY <1>a, <1>b, <1>c, <2>1, <2>3 DEF TypeOK
    <2> QED BY <2>1, <2>3, <2>4 DEF LoopState
  <1>4. CASE HandlePacket
    <2>1. /\ step = "payload" /\ end - at >= length /\ length \in Nat /\ ~closed
          /\ kind \in Kinds /\ ~Throws(kind.form, length)
          /\ at' = at + Consumed(kind.form, length)
          /\ burst' = IF burst > MaxRate THEN burst ELSE burst + 1
          /\ kind' = NoKind /\ length' = Unknown
          /\ step' = IF at' < end THEN "opcode" ELSE "read"
          /\ UNCHANGED <<end, keys, rate, closed, aligned>>
      BY <1>4 DEF HandlePacket, LoopState
    <2>2. PICK p \in 0 .. Len(sent) : handled' = Append(handled, p)
      BY <1>4, PacketAtHand DEF HandlePacket
    <2>3. handled' \in Seq(0 .. Len(sent))
      BY <1>c, <2>2
    <2>a. Consumed(kind.form, length) \in {length, length + 1}
      BY <2>1, ConsumedIs, SizePositive
    <2>4. at' \in 0 .. end + 1 /\ burst' \in 0 .. MaxRate + 1 /\ step' \in {"read", "opcode"}
          /\ (step' = "opcode" => at' < end)
      BY <1>a, <2>1, <2>a
    <2>5. TypeOK'
      BY <1>a, <1>b, <1>c, <2>1, <2>3, <2>4 DEF TypeOK
    <2> QED BY <2>1, <2>4, <2>5 DEF LoopState
  <1>5. CASE PayloadMissing
    <2>1. /\ step = "payload" /\ kind' = NoKind /\ length' = Unknown /\ step' = "read"
          /\ UNCHANGED <<end, at, keys, handled, rate, burst, closed, aligned>>
      BY <1>5 DEF PayloadMissing
    <2>2. TypeOK'
      BY <1>a, <1>b, <1>c, <2>1 DEF TypeOK
    <2> QED BY <2>1, <2>2 DEF LoopState
  <1>6. CASE HandlePacketThrows
    <2>1. /\ step' = "terminated" /\ ~closed
          /\ UNCHANGED <<end, at, kind, length, keys, handled, rate, burst, closed, aligned>>
      BY <1>6 DEF HandlePacketThrows, LoopState
    <2>2. TypeOK'
      BY <1>a, <1>b, <1>c, <2>1 DEF TypeOK
    <2> QED BY <2>1, <2>2 DEF LoopState
  <1>7. CASE UNCHANGED vars
    <2>1. TypeOK'
      BY <1>a, <1>b, <1>c, <1>7 DEF TypeOK, vars
    <2> QED BY <1>7, <2>1 DEF LoopState, vars
  <1> QED BY <1>1, <1>2, <1>3, <1>4, <1>5, <1>6, <1>7 DEF Next, HandleIncomingData, PayloadIncomplete
----------------------------------------------------------------------------
(* The packets in their order *)

\* At a packet's beginning, with its key, the opcode is that packet's ...
LEMMA OpcodeRight ==
  ASSUME TypeOK, LoopState, AtBoundary, step = "opcode"
  PROVE  /\ keys + 1 \in 1 .. Len(sent) /\ AtPacket = {keys + 1}
         /\ Begin[keys + 2] <= end
  <1>1. PICK k \in 1 .. Len(sent) + 1 : end = Begin[k]
    BY DEF AtBoundary
  <1>2. /\ keys \in Nat /\ keys <= Len(sent) /\ at = Begin[keys + 1] /\ at < end
        /\ sent \in Seq(Kinds) /\ Len(sent) \in Nat /\ Len(sent) <= MaxPackets
    BY DEF AtBoundary, LoopState, TypeOK
  <1>3. \A j \in 1 .. Len(sent) + 1 : Begin[j] \in Nat
    BY <1>2, BeginNat
  <1>4. \A i, j \in 1 .. Len(sent) + 1 : i < j => Begin[i] < Begin[j]
    BY <1>2, BeginIncreases
  <1>5. keys + 1 < k
    <2> SUFFICES ASSUME k <= keys + 1 PROVE FALSE
      BY <1>2
    <2>1. keys + 1 \in 1 .. Len(sent) + 1 /\ (k < keys + 1 \/ k = keys + 1)
      BY <1>2
    <2>2. Begin[k] <= Begin[keys + 1]
      BY <1>3, <1>4, <2>1
    <2> QED BY <1>1, <1>2, <1>3, <2>1, <2>2, SMTT(30)
  <1>6. keys + 1 \in 1 .. Len(sent) /\ keys + 2 \in 1 .. Len(sent) + 1 /\ keys + 2 <= k
    BY <1>2, <1>5
  <1>7. Begin[keys + 2] <= Begin[k]
    BY <1>3, <1>4, <1>6
  <1>8. AtPacket = {keys + 1}
    BY <1>2, <1>6 DEF AtPacket
  <1> QED BY <1>1, <1>6, <1>7, <1>8

\* ... and inside it, the packet being decoded is that packet.
LEMMA PacketRight ==
  ASSUME TypeOK, AtBoundary, step \in {"length", "payload"}
  PROVE  /\ InPacket = {keys} /\ keys \in 1 .. Len(sent) /\ kind \in Kinds
         /\ Begin[keys] \in Nat /\ Begin[keys + 1] \in Nat
         /\ Begin[keys + 1] = Begin[keys] + Size(kind)
         /\ Begin[keys + 1] <= end
  <1>1. /\ keys \in 1 .. Len(sent) /\ kind = sent[keys] /\ Begin[keys + 1] <= end
        /\ sent \in Seq(Kinds) /\ Len(sent) \in Nat /\ Len(sent) <= MaxPackets
    BY DEF AtBoundary, TypeOK
  <1>2. kind \in Kinds /\ Begin[keys + 1] = Begin[keys] + Size(kind)
    BY <1>1, BeginNext
  <1>3. /\ kind.length \in Nat /\ Size(kind) \in Nat /\ Size(kind) > 0
        /\ Size(kind) >= kind.length + 1
    BY <1>2, SizePositive
  <1>4. Begin[keys] \in Nat /\ Begin[keys + 1] \in Nat
    BY <1>1, BeginNat
  <1>5. at = Begin[keys] + (IF step = "payload" /\ kind.variable THEN 2 ELSE 1)
    <2>1. CASE step = "length"
      BY <2>1 DEF AtBoundary
    <2>2. CASE step = "payload"
      <3>1. at + kind.length = Begin[keys + 1] /\ kind.variable \in BOOLEAN
        BY <1>2, <2>2, SizePositive DEF AtBoundary
      <3>2. at \in Nat
        BY TotalIs DEF TypeOK
      <3>3. Size(kind) = IF kind.variable THEN kind.length + 2 ELSE kind.length + 1
        BY <1>2, SizePositive
      <3>4. CASE kind.variable
        <4>1. Size(kind) = kind.length + 2
          BY <3>3, <3>4
        <4>2. at = Begin[keys] + 2
          BY <1>2, <1>3, <1>4, <3>1, <3>2, <4>1
        <4> QED BY <2>2, <3>4, <4>2
      <3>5. CASE ~kind.variable
        <4>1. Size(kind) = kind.length + 1
          BY <3>3, <3>5
        <4>2. at = Begin[keys] + 1
          BY <1>2, <1>3, <1>4, <3>1, <3>2, <4>1
        <4> QED BY <3>5, <4>2
      <3> QED BY <3>4, <3>5
    <2> QED BY <2>1, <2>2
  <1>6. InPacket = {keys}
    BY <1>1, <1>5 DEF InPacket
  <1> QED BY <1>1, <1>2, <1>4, <1>6

\* As long as reads end between packets and packets are what HandlePacket takes of them,
\* every step keeps the decoder in step.
LEMMA InStepStep == Inv /\ [Next]_vars => InStep'
  <1> DEFINE Right(i) == handled[i] = i /\ i <= Len(sent) /\ Begin[i + 1] <= end
             Goal == /\ \A i \in 1 .. Len(handled') : Intact(i) => Right(i)'
                     /\ ~closed' /\ Intact(Len(handled') + 1) => AtBoundary'
  <1> SUFFICES ASSUME Inv, [Next]_vars, aligned'
               PROVE  Goal
    <2>1. [Next]_vars => \A n : Intact(n)' = Intact(n)
      BY StreamStays DEF Intact, OverReads, Throws, Consumed, Steps
    <2> QED BY <2>1 DEF InStep
  <1>a. TypeOK /\ LoopState /\ InStep
    BY DEF Inv
  <1>b. sent' = sent /\ Begin' = Begin /\ Total' = Total
    BY StreamStays
  <1>c. aligned
    BY DEF Next, HandleRead, HandleIncomingData, DecodeOpcode, DecodeLength, HandlePacket,
       HandlePacketThrows, PayloadMissing, PayloadIncomplete, vars
  <1>d. /\ \A i \in 1 .. Len(handled) : Intact(i) => Right(i)
        /\ ~closed /\ Intact(Len(handled) + 1) => AtBoundary
    BY <1>a, <1>c DEF InStep
  <1>e. /\ sent \in Seq(Kinds) /\ Len(sent) \in Nat /\ Len(sent) <= MaxPackets
        /\ end \in Nat /\ at \in Nat /\ keys \in Nat
        /\ handled \in Seq(0 .. Len(sent)) /\ Len(handled) \in Nat
    BY <1>a, TotalIs DEF TypeOK
  <1>f. \A i \in 1 .. Len(handled) : Intact(i) => i + 1 \in 1 .. Len(sent) + 1 /\ Begin[i + 1] \in Nat
    BY <1>d, <1>e, BeginNat
  <1>g. ASSUME handled' = handled, end' = end PROVE \A i \in 1 .. Len(handled') : Intact(i) => Right(i)'
    BY <1>b, <1>d, <1>g
  <1>1. ASSUME NEW newSecond \in BOOLEAN, HandleRead(newSecond) PROVE Goal
    <2>1. /\ step = "read" /\ ~closed
          /\ kind' = kind /\ length' = length /\ keys' = keys /\ handled' = handled
      BY <1>1 DEF HandleRead
    <2>2. PICK e \in end + 1 .. Total :
            /\ end' = e
            /\ aligned' = (aligned /\ \E k \in 1 .. Len(sent) + 1 : e = Begin[k])
            /\ IF closed' THEN at' = e /\ UNCHANGED step
                          ELSE step' = "opcode" /\ at' = end
      BY <1>1 DEF HandleRead
    <2>3. PICK k \in 1 .. Len(sent) + 1 : end' = Begin[k]
      BY <2>2
    <2>4. ~closed' => step' = "opcode" /\ at' = end
      BY <2>2
    <2>5. ASSUME ~closed', Intact(Len(handled') + 1) PROVE AtBoundary'
      <3>1. AtBoundary
        BY <1>d, <2>1, <2>5
      <3>2. keys = Len(handled) /\ keys <= Len(sent) /\ end = Begin[keys + 1]
        BY <2>1, <3>1 DEF AtBoundary
      <3> QED BY <1>b, <2>1, <2>3, <2>4, <2>5, <3>2 DEF AtBoundary
    <2>6. ASSUME NEW i \in 1 .. Len(handled'), Intact(i) PROVE Right(i)'
      <3>1. Right(i) /\ Begin[i + 1] \in Nat
        BY <1>d, <1>f, <2>1, <2>6
      <3>2. end' \in Nat /\ end < end'
        BY <1>e, <2>2
      <3>3. Begin[i + 1] <= end'
        BY <1>e, <3>1, <3>2
      <3> QED BY <1>b, <2>1, <3>1, <3>3
    <2> QED BY <2>5, <2>6
  <1>2. CASE DecodeOpcode
    <2> SUFFICES ASSUME Intact(Len(handled) + 1) PROVE AtBoundary'
      BY <1>2, <1>g DEF DecodeOpcode
    <2>1. /\ step = "opcode" /\ at' = at + 1 /\ keys' = keys + 1 /\ step' = "length"
          /\ UNCHANGED <<end, length, handled, closed>>
      BY <1>2 DEF DecodeOpcode
    <2>2. ~closed /\ AtBoundary
      BY <1>a, <1>d, <2>1 DEF LoopState
    <2>3. keys + 1 \in 1 .. Len(sent) /\ AtPacket = {keys + 1} /\ Begin[keys + 2] <= end
      BY <1>a, <2>1, <2>2, OpcodeRight
    <2>4. kind' = sent[keys + 1]
      BY <1>2, <2>3 DEF DecodeOpcode
    <2>5. keys = Len(handled) /\ at = Begin[keys + 1]
      BY <2>1, <2>2 DEF AtBoundary
    <2>6. keys' + 1 = keys + 2
      BY <1>e, <2>1
    <2>7. PICK k \in 1 .. Len(sent) + 1 : end = Begin[k]
      BY <2>2 DEF AtBoundary
    <2>8. keys' = Len(handled') + 1 /\ keys' <= Len(sent') /\ kind' = sent'[keys']
          /\ Begin'[keys' + 1] <= end' /\ at' = Begin'[keys'] + 1
      BY <1>b, <1>e, <2>1, <2>3, <2>4, <2>5, <2>6
    <2>9. AtBoundary'
      BY <1>b, <2>1, <2>7, <2>8 DEF AtBoundary
    <2> QED BY <2>9
  <1>3. CASE DecodeLength
    <2> SUFFICES ASSUME Intact(Len(handled) + 1) PROVE AtBoundary'
      BY <1>3, <1>g DEF DecodeLength
    <2>1. /\ step = "length"
          /\ UNCHANGED <<end, keys, handled, closed>>
      BY <1>3 DEF DecodeLength
    <2>2. ~closed /\ AtBoundary
      BY <1>a, <1>d, <2>1 DEF LoopState
    <2>3. /\ InPacket = {keys} /\ kind \in Kinds /\ Begin[keys] \in Nat
          /\ Begin[keys + 1] \in Nat /\ Begin[keys + 1] = Begin[keys] + Size(kind)
          /\ Begin[keys + 1] <= end
      BY <1>a, <2>1, <2>2, PacketRight
    <2>4. /\ kind.length \in Nat
          /\ Size(kind) = IF kind.variable THEN kind.length + 2 ELSE kind.length + 1
      BY <2>3, SizePositive
    <2>5. /\ at = Begin[keys] + 1 /\ keys = Len(handled) + 1 /\ keys <= Len(sent)
          /\ kind = sent[keys]
      BY <2>1, <2>2 DEF AtBoundary
    <2>6. ~ (kind.variable /\ at = end)
      BY <1>e, <2>3, <2>4, <2>5, SMTT(30)
    <2>7. /\ length' = kind.length /\ step' = "payload" /\ kind' = kind
          /\ at' = IF kind.variable THEN at + 1 ELSE at
      BY <1>3, <2>3, <2>6 DEF DecodeLength
    <2>8. at' + length' = Begin[keys + 1]
      <3>1. CASE kind.variable
        <4>1. Begin[keys + 1] = Begin[keys] + (kind.length + 2)
          BY <2>3, <2>4, <3>1, Zenon
        <4>2. at' = at + 1 /\ length' = kind.length /\ at = Begin[keys] + 1
          BY <2>5, <2>7, <3>1
        <4>3. Begin[keys] \in Nat /\ kind.length \in Nat
          BY <2>3, <2>4
        <4> QED BY <4>1, <4>2, <4>3
      <3>2. CASE ~kind.variable
        <4>1. Begin[keys + 1] = Begin[keys] + (kind.length + 1)
          BY <2>3, <2>4, <3>2, Zenon
        <4>2. at' = at /\ length' = kind.length /\ at = Begin[keys] + 1
          BY <2>5, <2>7, <3>2
        <4>3. Begin[keys] \in Nat /\ kind.length \in Nat
          BY <2>3, <2>4
        <4> QED BY <4>1, <4>2, <4>3
      <3> QED BY <3>1, <3>2
    <2>9. PICK k \in 1 .. Len(sent) + 1 : end = Begin[k]
      BY <2>2 DEF AtBoundary
    <2>10. AtBoundary'
      BY <1>b, <2>1, <2>3, <2>5, <2>7, <2>8, <2>9 DEF AtBoundary
    <2> QED BY <2>10
  <1>4. CASE HandlePacket
    <2>1. /\ step = "payload" /\ ~Throws(kind.form, length)
          /\ at' = at + Consumed(kind.form, length)
          /\ handled' = Append(handled, IF InPacket # {} THEN CHOOSE k \in InPacket : TRUE ELSE 0)
          /\ step' = IF at' < end THEN "opcode" ELSE "read"
          /\ UNCHANGED <<end, keys, closed>>
      BY <1>4 DEF HandlePacket
    <2>2. ~closed /\ kind \in Kinds /\ length \in Nat
      BY <1>a, <2>1 DEF LoopState
    <2>a. PICK p \in 0 .. Len(sent) :
            /\ handled' = Append(handled, p)
            /\ p = IF InPacket # {} THEN CHOOSE k \in InPacket : TRUE ELSE 0
      BY <1>a, <2>1, PacketAtHand
    <2>b. /\ Len(handled') = Len(handled) + 1 /\ handled'[Len(handled) + 1] = p
          /\ \A i \in 1 .. Len(handled) : handled'[i] = handled[i]
      BY <1>e, <2>a
    <2>c. ASSUME Intact(Len(handled) + 1)
          PROVE  /\ AtBoundary /\ p = keys /\ keys = Len(handled) + 1 /\ keys \in 1 .. Len(sent)
                 /\ Begin[keys + 1] \in Nat /\ Begin[keys + 1] <= end
      <3>1. AtBoundary
        BY <1>d, <2>2, <2>c
      <3>2. /\ InPacket = {keys} /\ keys \in 1 .. Len(sent) /\ Begin[keys + 1] \in Nat
            /\ Begin[keys + 1] <= end
        BY <1>a, <2>1, <3>1, PacketRight
      <3>3. p = keys
        BY <2>a, <3>2
      <3>4. keys = Len(handled) + 1
        BY <2>1, <3>1 DEF AtBoundary
      <3> QED BY <3>1, <3>2, <3>3, <3>4
    <2>3. ASSUME NEW i \in 1 .. Len(handled'), Intact(i) PROVE Right(i)'
      <3>1. CASE i \in 1 .. Len(handled)
        <4>1. Right(i) /\ handled'[i] = handled[i]
          BY <1>d, <2>3, <2>b, <3>1
        <4> QED BY <1>b, <2>1, <4>1
      <3>2. CASE i = Len(handled) + 1
        <4>1. p = i /\ i <= Len(sent) /\ Begin[i + 1] <= end
          BY <1>e, <2>3, <2>c, <3>2
        <4> QED BY <1>b, <2>1, <2>b, <3>2, <4>1
      <3> QED BY <1>e, <2>b, <3>1, <3>2
    <2>4. ASSUME Intact(Len(handled') + 1) PROVE AtBoundary'
      <3>1. Intact(Len(handled) + 1)
        <4>1. Len(handled) + 1 < Len(handled') + 1
          BY <1>e, <2>b
        <4>2. ASSUME NEW k \in 1 .. Len(sent), k < Len(handled) + 1 PROVE k < Len(handled') + 1
          BY <1>e, <2>b, <4>2
        <4> QED BY <2>4, <4>2 DEF Intact
      <3>2. /\ AtBoundary /\ p = keys /\ keys = Len(handled) + 1 /\ keys \in 1 .. Len(sent)
            /\ Begin[keys + 1] \in Nat /\ Begin[keys + 1] <= end
        BY <2>c, <3>1
      <3>3. kind = sent[keys] /\ length = kind.length /\ at + length = Begin[keys + 1]
        BY <2>1, <3>2 DEF AtBoundary
      <3>4. ~OverReads(sent[keys])
        <4>1. keys < Len(handled') + 1
          BY <1>e, <2>b, <3>2
        <4> QED BY <2>4, <3>2, <4>1 DEF Intact
      <3>5. Consumed(kind.form, length) = length
        <4>1. Consumed(kind.form, length) \in {length, length + 1}
          BY <2>1, <2>2, ConsumedIs, SizePositive
        <4>2. ~ (Consumed(kind.form, length) > length)
          BY <2>1, <3>3, <3>4 DEF OverReads
        <4> QED BY <2>2, <4>1, <4>2
      <3>6. at' = Begin[keys + 1]
        BY <2>1, <3>3, <3>5
      <3>7. step' = "read" => at' = end
        BY <1>e, <2>1, <3>2, <3>6
      <3>8. PICK k \in 1 .. Len(sent) + 1 : end = Begin[k]
        BY <3>2 DEF AtBoundary
      <3>9. keys = Len(handled') /\ keys <= Len(sent)
        BY <1>e, <2>b, <3>2
      <3> QED BY <1>b, <2>1, <3>6, <3>7, <3>8, <3>9 DEF AtBoundary
    <2> QED BY <2>3, <2>4
  <1>5. CASE PayloadMissing
    <2> SUFFICES ASSUME Intact(Len(handled) + 1) PROVE AtBoundary'
      BY <1>5, <1>g DEF PayloadMissing
    <2>1. step = "payload" /\ end - at < length
      BY <1>5 DEF PayloadMissing
    <2>2. ~closed /\ AtBoundary
      BY <1>a, <1>d, <2>1 DEF LoopState
    <2>3. Begin[keys + 1] \in Nat /\ Begin[keys + 1] <= end
      BY <1>a, <2>1, <2>2, PacketRight
    <2>4. at + length = Begin[keys + 1] /\ length \in Nat
      BY <1>a, <2>1, <2>2 DEF AtBoundary, LoopState
    <2> QED BY <1>e, <2>1, <2>3, <2>4
  <1>6. CASE HandlePacketThrows
    <2> SUFFICES ASSUME Intact(Len(handled) + 1) PROVE AtBoundary'
      BY <1>6, <1>g DEF HandlePacketThrows
    <2>1. step = "payload" /\ step' = "terminated" /\ end' = end
      BY <1>6 DEF HandlePacketThrows
    <2>2. ~closed /\ AtBoundary
      BY <1>a, <1>d, <2>1 DEF LoopState
    <2>3. PICK k \in 1 .. Len(sent) + 1 : end = Begin[k]
      BY <2>2 DEF AtBoundary
    <2> QED BY <1>b, <2>1, <2>3 DEF AtBoundary
  <1>7. CASE UNCHANGED vars
    <2>1. \A i \in 1 .. Len(handled') : Intact(i) => Right(i)'
      BY <1>7, <1>g DEF vars
    <2>2. AtBoundary => AtBoundary'
      BY <1>b, <1>7 DEF AtBoundary, vars
    <2> QED BY <1>d, <1>7, <2>1, <2>2 DEF vars
  <1> QED BY <1>1, <1>2, <1>3, <1>4, <1>5, <1>6, <1>7 DEF Next, HandleIncomingData, PayloadIncomplete

----------------------------------------------------------------------------
(* Theorems *)

\* The inductive invariant holds initially.
LEMMA InvInit == Init => Inv
  <1> SUFFICES ASSUME Init PROVE Inv
    OBVIOUS
  <1>1. /\ end = 0 /\ at = 0 /\ step = "read" /\ kind = NoKind /\ length = Unknown
        /\ keys = 0 /\ handled = <<>> /\ rate = 0 /\ burst = 0 /\ closed = FALSE
        /\ aligned = TRUE
    BY DEF Init
  <1>2. PICK n \in 1 .. MaxPackets : sent \in [1 .. n -> Kinds]
    BY DEF Init
  <1>3. sent \in Seq(Kinds) /\ Len(sent) = n /\ Len(sent) <= MaxPackets /\ Len(sent) \in Nat
    BY <1>2
  <1>4. Total \in Nat /\ Begin[1] = 0
    BY <1>3, TotalIs, BeginIs
  <1>5. handled \in Seq(0 .. Len(sent)) /\ Len(handled) = 0
    BY <1>1
  <1>6. TypeOK
    <2>1. end \in 0 .. Total /\ at \in 0 .. end /\ rate \in 0 .. MaxRate + 1
      BY <1>1, <1>4
    <2>2. closed \in BOOLEAN /\ aligned \in BOOLEAN
      BY <1>1
    <2> QED BY <1>1, <1>3, <1>5, <2>1, <2>2 DEF TypeOK
  <1>7. LoopState
    BY <1>1 DEF LoopState
  <1>8. AtBoundary
    <2>1. 1 \in 1 .. Len(sent) + 1 /\ keys = Len(handled) /\ keys <= Len(sent) /\ keys + 1 = 1
      BY <1>1, <1>3, <1>5
    <2> QED BY <1>1, <1>4, <2>1 DEF AtBoundary
  <1>9. InStep
    BY <1>5, <1>8 DEF InStep
  <1> QED BY <1>6, <1>7, <1>9 DEF Inv

\* The inductive invariant holds in every state.
THEOREM Invariance == Spec => []Inv
  <1>1. Inv /\ [Next]_vars => Inv'
    BY TypeStep, InStepStep DEF Inv
  <1> QED BY <1>1, InvInit, PTL DEF Spec

\* Every variable keeps its type: no more than one byte is taken that has not been read.
THEOREM TypeCorrect == Spec => []TypeOK
  <1>1. Inv => TypeOK
    BY DEF Inv
  <1> QED BY <1>1, Invariance, PTL

\* Reads that end between packets are decoded right, up to a movement packet that is
\* shorter than what HandlePacket reads of it: every packet once, in order, with its own
\* key, and none is left over.
THEOREM PacketsInOrder == Spec => []HandledInOrder
  <1>1. Inv => HandledInOrder
    <2> SUFFICES ASSUME Inv, aligned
                 PROVE  /\ \A i \in 1 .. Len(handled) : Intact(i) => handled[i] = i
                        /\ \A n \in 1 .. Len(sent) + 1 :
                             step = "read" /\ ~closed /\ end = Begin[n] /\ Intact(n) =>
                               keys = n - 1 /\ Len(handled) = n - 1 /\ at = end
      BY DEF HandledInOrder
    <2>1. /\ \A i \in 1 .. Len(handled) : Intact(i) =>
               handled[i] = i /\ i <= Len(sent) /\ Begin[i + 1] <= end
          /\ ~closed /\ Intact(Len(handled) + 1) => AtBoundary
      BY DEF Inv, InStep
    <2>2. /\ sent \in Seq(Kinds) /\ Len(sent) \in Nat /\ Len(sent) <= MaxPackets
          /\ Len(handled) \in Nat /\ keys \in Nat
      BY DEF Inv, TypeOK
    <2>3. /\ \A k \in 1 .. Len(sent) + 1 : Begin[k] \in Nat
          /\ \A j, k \in 1 .. Len(sent) + 1 : j < k => Begin[j] < Begin[k]
      BY <2>2, BeginNat, BeginIncreases
    <2>4. ASSUME NEW n \in 1 .. Len(sent) + 1,
                 step = "read", ~closed, end = Begin[n], Intact(n)
          PROVE  keys = n - 1 /\ Len(handled) = n - 1 /\ at = end
      <3>1. Intact(Len(handled) + 1)
        <4> SUFFICES ASSUME ~Intact(Len(handled) + 1) PROVE FALSE
          OBVIOUS
        <4>1. PICK k \in 1 .. Len(handled) :
                k <= Len(sent) /\ OverReads(sent[k]) /\ Intact(k)
          BY <2>2, FirstOverRead
        <4>2. k \in 1 .. Len(sent) /\ k + 1 \in 1 .. Len(sent) + 1
          BY <2>2, <4>1
        <4>3. Begin[k + 1] <= Begin[n]
          BY <2>1, <2>4, <4>1
        <4>4. ~ (n < k + 1)
          BY <2>3, <4>2, <4>3
        <4>5. k < n
          BY <2>2, <4>2, <4>4
        <4> QED BY <2>4, <4>1, <4>2, <4>5 DEF Intact
      <3>2. keys = Len(handled) /\ keys <= Len(sent) /\ at = Begin[keys + 1] /\ at = end
        BY <2>1, <2>4, <3>1 DEF AtBoundary
      <3>3. keys + 1 \in 1 .. Len(sent) + 1 /\ Begin[keys + 1] = Begin[n]
        BY <2>2, <2>4, <3>2
      <3>4. ~ (keys + 1 < n) /\ ~ (n < keys + 1)
        BY <2>3, <3>3
      <3>5. keys = n - 1
        BY <2>2, <3>4
      <3> QED BY <3>2, <3>5
    <2> QED BY <2>1, <2>4
  <1> QED BY <1>1, Invariance, PTL
==============================================================================
