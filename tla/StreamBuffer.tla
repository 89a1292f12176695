---------------------------- MODULE StreamBuffer ----------------------------
(***************************************************************************)
(* StreamBuffer: a buffer that grows as bytes and bits are written to it.  *)
(*                                                                         *)
(* A caller writes a packet: values of one, two, four or eight bytes in    *)
(* some byte order, the last byte of a value perhaps transformed, strings, *)
(* other buffers, and between them runs of bits; a header whose size field *)
(* is filled in at the end.  As the callers do, SetAccessType only changes *)
(* the access, bits are written in bit access, and a packet has at most    *)
(* one header, its first bytes.                                            *)
(*                                                                         *)
(* A value of several bytes is the sequence of its bytes, most significant *)
(* first, which is what the shifts of the code take apart and put together *)
(* again.  items remembers what has been written, and where.               *)
(***************************************************************************)
EXTENDS Integers, Sequences, SequencesExt

CONSTANTS
  InitialSize,  \* the size a buffer is made with
  Growth,       \* DEFAULT_BUFFER_SIZE, 512
  Opcodes,      \* the bytes a header is written with
  Writes,       \* the triples <<value, type, order>> of WriteByte to WriteLong
  Longs,        \* the longs passed to WriteLong alone
  Strings,      \* the strings and the contents of other buffers written
  BitWrites,    \* the pairs <<amount, value>> of WriteBits
  MaxCalls      \* bound: the writes of a packet

Bytes == 0 .. 255

\* The powers of two, up to the widest write of bits: BIT_MASK[n] is Pow2[n] - 1.
MaxWidth == 30
Pow2[n \in 0 .. MaxWidth] == IF n = 0 THEN 1 ELSE 2 * Pow2[n - 1]

Newline == 10

Types == {"STANDARD", "A", "C", "S"}
Orders == {"BIG", "LITTLE", "MIDDLE", "INVERSE_MIDDLE"}

\* The byte orders WriteShort, WriteInt and WriteLong support.
Supported(n) ==
  CASE n = 1 -> {"BIG"}
    [] n = 4 -> Orders
    [] n \in {2, 8} -> {"BIG", "LITTLE"}

ASSUME SizesAssumption ==
  InitialSize \in Nat /\ Growth \in Nat /\ MaxCalls \in Nat
ASSUME WritesAssumption ==
  \A w \in Writes :
    /\ w[1] \in Seq(Bytes) /\ Len(w[1]) \in {1, 2, 4, 8}
    /\ w[2] \in Types /\ w[3] \in Supported(Len(w[1]))
ASSUME LongsAssumption ==
  \A v \in Longs : v \in Seq(Bytes) /\ Len(v) = 8
ASSUME OpcodesAssumption == Opcodes \subseteq Bytes
ASSUME StringsAssumption ==
  \A s \in Strings : s \in Seq(Bytes \ {Newline})
ASSUME BitWritesAssumption ==
  \A w \in BitWrites : w[1] \in 1 .. MaxWidth /\ w[2] \in Int

VARIABLES
  buffer,       \* m_Buffer
  pos,          \* m_Pos
  bitPosition,  \* m_BitPosition
  access,       \* m_AccessType
  frame,        \* m_FrameSize: where the size field of the header is, or 0
  header,       \* m_HeaderSize
  items,        \* what has been written: kind, place in bits, value
  finished      \* whether the packet has been sent

vars == <<buffer, pos, bitPosition, access, frame, header, items, finished>>

\* The width of the size field.
SizeBytes == [NONE |-> 0, BYTE |-> 1, SHORT |-> 2]

Zeros(n) == [i \in 1 .. n |-> 0]

Init ==
  /\ buffer = Zeros(InitialSize)
  /\ pos = 0 /\ bitPosition = 0 /\ access = "BYTE_ACCESS"
  /\ frame = 0 /\ header = "NONE"
  /\ items = <<>> /\ finished = FALSE

----------------------------------------------------------------------------
(* Bytes *)

\* The transformations of WriteByte, in the byte that is kept of the result.
Coded(b, type) ==
  (CASE type = "STANDARD" -> b
     [] type = "A" -> b + 128
     [] type = "C" -> -b
     [] type = "S" -> 128 - b) % 256

\* Those of ReadByte, unsigned.
Decoded(b, type) ==
  (CASE type = "STANDARD" -> b
     [] type = "A" -> b - 128
     [] type = "C" -> -b
     [] type = "S" -> 128 - b) % 256

\* Which byte of a value goes where, by significance: WriteShort, WriteInt, WriteLong.
WriteOrder(n, order) ==
  CASE order = "BIG" -> [k \in 1 .. n |-> n - k]
    [] order = "LITTLE" -> [k \in 1 .. n |-> k - 1]
    [] order = "MIDDLE" -> <<1, 0, 3, 2>>
    [] order = "INVERSE_MIDDLE" -> <<2, 3, 0, 1>>

\* ReadShort, ReadInt, ReadLong: the significance of the byte at each place.
ReadOrder(n, order) ==
  CASE order = "BIG" -> [k \in 1 .. n |-> n - k]
    [] order = "LITTLE" -> [k \in 1 .. n |-> k - 1]
    [] order = "MIDDLE" -> <<1, 0, 3, 2>>
    [] order = "INVERSE_MIDDLE" -> <<2, 3, 0, 1>>

\* The bytes written for a value: the type is that of its least significant byte.
Laid(v, type, order) ==
  LET n == Len(v)
      at == WriteOrder(n, order)
  IN  [k \in 1 .. n |-> Coded(v[n - at[k]], IF at[k] = 0 THEN type ELSE "STANDARD")]

\* The value read from the n bytes at a place.
ReadValue(at, n, type, order) ==
  LET from == ReadOrder(n, order)
      place(s) == CHOOSE k \in 1 .. n : from[k] = s
  IN  [i \in 1 .. n |->
         Decoded(buffer[at + place(n - i)], IF i = n THEN type ELSE "STANDARD")]

\* ReadString: the bytes before the next newline.
ReadString(at) ==
  LET end == CHOOSE i \in at + 1 .. Len(buffer) :
               buffer[i] = Newline /\ \A j \in at + 1 .. i - 1 : buffer[j] # Newline
  IN  SubSeq(buffer, at + 1, end - 1)

\* m_Buffer.resize, which never makes it smaller here.
Resized(bytes, n) == bytes \o Zeros(n - Len(bytes))

\* The calls of WriteByte for a sequence of bytes, each of which makes room for one.
Written(bytes) ==
  LET room == IF Len(buffer) < pos + Len(bytes) THEN Resized(buffer, pos + Len(bytes)) ELSE buffer
  IN  [i \in 1 .. Len(room) |-> IF i \in pos + 1 .. pos + Len(bytes) THEN bytes[i - pos] ELSE room[i]]

----------------------------------------------------------------------------
(* Bits *)

\* byte with the width bits from shift on replaced by part.
WithField(byte, shift, width, part) ==
  byte + (part - ((byte \div Pow2[shift]) % Pow2[width])) * Pow2[shift]

\* The loop of WriteBits: every byte the bits reach gets its part of the value.
WrittenBits(bytes, at, amount, value) ==
  [i \in 1 .. Len(bytes) |->
     LET from == Max({at, 8 * (i - 1)})
         to == Min({at + amount, 8 * i})
     IN  IF from >= to THEN bytes[i]
         ELSE WithField(bytes[i], 8 * i - to, to - from,
                        (value \div Pow2[at + amount - to]) % Pow2[to - from])]

\* Mutant: the buffer is not made larger for bits that begin a new byte.
BytesNeededRoundedDown(bits) == bits \div 8

\* neededBytes of WriteBits.
BytesNeeded(bits) == (bits + 7) \div 8

\* What WriteBits makes of the buffer.
PutBits(bytes, at, amount, value) ==
  LET needed == BytesNeeded(at + amount)
      room == IF needed > Len(bytes) THEN Resized(bytes, needed + Growth) ELSE bytes
  IN  WrittenBits(room, at, amount, value)

\* A reader's view of the bits, one at a time, the first of a byte the highest.
Bit(bytes, i) == (bytes[(i \div 8) + 1] \div Pow2[7 - (i % 8)]) % 2

ReadBits(bytes, at, amount) ==
  LET number[k \in 0 .. amount] ==
        IF k = 0 THEN 0 ELSE 2 * number[k - 1] + Bit(bytes, at + k - 1)
  IN  number[amount]

----------------------------------------------------------------------------
(* The calls *)

\* A write of a packet that is still being built.
Calls(item) ==
  /\ ~finished
  /\ Len(items) < MaxCalls
  /\ items' = Append(items, item)
  /\ UNCHANGED finished

InBytes == access = "BYTE_ACCESS"

WriteValue(v, type, order) ==
  /\ InBytes
  /\ Calls([kind |-> "value", at |-> pos, value |-> v, type |-> type, order |-> order])
  /\ buffer' = Written(Laid(v, type, order))
  /\ pos' = pos + Len(v)
  /\ UNCHANGED <<bitPosition, access, frame, header>>

\* WriteLong called with the value only takes an int32_t: what is written is the
\* sign extension of the lower half of a long.
Shortened(v) == [i \in 1 .. 4 |-> IF v[5] < 128 THEN 0 ELSE 255] \o SubSeq(v, 5, 8)

WriteLongShortened(v) ==
  /\ InBytes
  /\ Calls([kind |-> "long", at |-> pos, value |-> v])
  /\ buffer' = Written(Shortened(v))
  /\ pos' = pos + 8
  /\ UNCHANGED <<bitPosition, access, frame, header>>

WriteString(s) ==
  /\ InBytes
  /\ Calls([kind |-> "string", at |-> pos, value |-> s])
  /\ buffer' = Written(Append(s, Newline))
  /\ pos' = pos + Len(s) + 1
  /\ UNCHANGED <<bitPosition, access, frame, header>>

\* Another buffer, which is the attribute block of an update.
WriteBytes(s) ==
  /\ InBytes
  /\ Calls([kind |-> "bytes", at |-> pos, value |-> s])
  /\ buffer' = LET n == Len(s)
                   room == IF n > 0 /\ pos + n > Len(buffer)
                           THEN Resized(buffer, pos + n + Growth) ELSE buffer
               IN  [i \in 1 .. Len(room) |-> IF i \in pos + 1 .. pos + n THEN s[i - pos] ELSE room[i]]
  /\ pos' = pos + Len(s)
  /\ UNCHANGED <<bitPosition, access, frame, header>>

WriteBits(amount, value) ==
  /\ ~InBytes
  /\ Calls([kind |-> "bits", at |-> bitPosition, value |-> value, amount |-> amount])
  /\ buffer' = PutBits(buffer, bitPosition, amount, value)
  /\ bitPosition' = bitPosition + amount
  /\ UNCHANGED <<pos, access, frame, header>>

SetBitAccess ==
  /\ InBytes /\ ~finished
  /\ access' = "BIT_ACCESS"
  /\ bitPosition' = pos * 8
  /\ UNCHANGED <<buffer, pos, frame, header, items, finished>>

\* Mutant: the position is that of the last bit's byte, which the next byte overwrites.
SetByteAccessRoundedDown ==
  /\ ~InBytes
  /\ access' = "BYTE_ACCESS"
  /\ pos' = bitPosition \div 8
  /\ UNCHANGED <<buffer, bitPosition, frame, header, items, finished>>

SetByteAccess ==
  /\ ~InBytes
  /\ access' = "BYTE_ACCESS"
  /\ pos' = (bitPosition + 7) \div 8
  /\ UNCHANGED <<buffer, bitPosition, frame, header, items, finished>>

\* The opcode, already enciphered, and a size field of zeros.
WriteHeader(opcode, size) ==
  /\ pos = 0
  /\ InBytes
  /\ Calls([kind |-> "value", at |-> 0, value |-> <<opcode>>, type |-> "STANDARD", order |-> "BIG"])
  /\ header' = size
  /\ buffer' = Written(<<opcode>> \o Zeros(SizeBytes[size]))
  /\ frame' = IF size = "NONE" THEN frame ELSE 1
  /\ pos' = 1 + SizeBytes[size]
  /\ UNCHANGED <<bitPosition, access>>

\* Mutant: the size field counts itself.
PayloadWithField == pos - frame

\* payloadSize of FinishVariableHeader less the size field.
Payload == pos - frame - SizeBytes[header]

\* FinishVariableHeader with WriteFrameSizeByte and WriteFrameSizeShort, whose offset
\* counts back from the end; the packet is sent next.
FinishVariableHeader ==
  /\ InBytes /\ ~finished /\ frame # 0
  /\ LET n == SizeBytes[header]
         offset == pos - Payload - n
         field == [i \in 1 .. n |-> (Payload \div Pow2[8 * (n - i)]) % 256]
     IN  buffer' = [i \in 1 .. Len(buffer) |->
                      IF i \in offset + 1 .. offset + n THEN field[i - offset] ELSE buffer[i]]
  /\ frame' = 0
  /\ finished' = TRUE
  /\ UNCHANGED <<pos, bitPosition, access, header, items>>

\* A packet without a size field is sent as it is.
Send ==
  /\ InBytes /\ ~finished /\ frame = 0
  /\ finished' = TRUE
  /\ UNCHANGED <<buffer, pos, bitPosition, access, frame, header, items>>

Next ==
  \/ \E w \in Writes : WriteValue(w[1], w[2], w[3])
  \/ \E v \in Longs : WriteLongShortened(v)
  \/ \E opcode \in Opcodes, size \in DOMAIN SizeBytes : WriteHeader(opcode, size)
  \/ \E s \in Strings : WriteString(s) \/ WriteBytes(s)
  \/ \E w \in BitWrites : WriteBits(w[1], w[2])
  \/ SetBitAccess
  \/ SetByteAccess
  \/ FinishVariableHeader
  \/ Send

Spec == Init /\ [][Next]_vars

----------------------------------------------------------------------------
(* Properties *)

\* What can have been written: bytes, a header, strings and buffers, bits.
Items ==
  [kind : {"value"}, at : Nat, value : Seq(Bytes), type : Types, order : Orders]
    \cup [kind : {"long", "string", "bytes"}, at : Nat, value : Seq(Bytes)]
    \cup [kind : {"bits"}, at : Nat, value : Int, amount : 1 .. MaxWidth]

\* The types; what has been written is inside the buffer, as Client::Send, which
\* copies the first m_Pos bytes, and every memcpy and index of the code rely on.
TypeOK ==
  /\ buffer \in Seq(Bytes)
  /\ pos \in 0 .. Len(buffer)
  /\ bitPosition \in 0 .. 8 * Len(buffer)
  /\ access \in {"BYTE_ACCESS", "BIT_ACCESS"}
  /\ frame \in 0 .. 1 /\ header \in DOMAIN SizeBytes
  /\ items \in Seq(Items) /\ Len(items) <= MaxCalls /\ finished \in BOOLEAN

\* A long that an int32_t holds.
Fits(v) == Shortened(v) = v

\* Everything written so far can be read back where it was written, whatever has
\* been written after it and however often the access has changed: values with the
\* byte order and type they were written with, bits modulo their width, strings up
\* to their newline, and longs of the callers of WriteLong if 32 bits hold them.
ReadBack ==
  \A k \in 1 .. Len(items) :
    LET it == items[k]
    IN  CASE it.kind = "value" -> ReadValue(it.at, Len(it.value), it.type, it.order) = it.value
          [] it.kind = "long" -> Fits(it.value) => ReadValue(it.at, 8, "STANDARD", "BIG") = it.value
          [] it.kind = "string" -> ReadString(it.at) = it.value
          [] it.kind = "bytes" -> SubSeq(buffer, it.at + 1, it.at + Len(it.value)) = it.value
          [] it.kind = "bits" -> ReadBits(buffer, it.at, it.amount) = it.value % Pow2[it.amount]

\* The size field of a finished packet is the number of bytes that follow it, as far as
\* its one or two bytes can hold it.
SizeFieldRight ==
  finished /\ header # "NONE" =>
    LET n == SizeBytes[header]
        field == IF n = 1 THEN buffer[2] ELSE 256 * buffer[2] + buffer[3]
    IN  field = (pos - n - 1) % Pow2[8 * n]
=============================================================================
