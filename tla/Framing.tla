------------------------------- MODULE Framing -------------------------------
(***************************************************************************)
(* How Client::HandleIncomingData cuts what a logged-in peer sends into    *)
(* packets, and how it limits the peer's rate.                             *)
(*                                                                         *)
(* The peer sends a sequence of packets; TCP delivers their bytes in order *)
(* but cuts them into reads as it likes.  A position of the stream is the  *)
(* number of bytes before it.  A byte that is not where the server takes   *)
(* it to be, or is decrypted with another packet's key, may decode as      *)
(* anything.  What a movement packet does to the player is in Movement,    *)
(* what it does when there is no player in NetworkThread; here it counts   *)
(* how many bytes it takes.                                                *)
(***************************************************************************)
EXTENDS Integers, Sequences

CONSTANTS
  Kinds,       \* the packets: [variable |-> BOOLEAN, length |-> Nat, form |-> Forms]
  Trailer,     \* the bytes behind the path of opcode 248: 14 in the code
  MaxPackets,  \* bound: the packets the peer sends
  MaxRate      \* MAX_PACKETS_PER_SECOND

\* How HandlePacket takes a packet: "walk" for opcodes 164 and 98, "minimap" for
\* 248, which has a trailer behind its path, "other" for one that is skipped.
Forms == {"other", "walk", "minimap"}

ASSUME KindsAssumption == Kinds \subseteq [variable : BOOLEAN, length : Nat, form : Forms]
ASSUME LimitsAssumption ==
  Trailer \in Nat /\ MaxPackets \in Nat \ {0} /\ MaxRate \in Nat

\* packetOpcode and packetLength at -1.
Unknown == -1
NoKind == [variable |-> FALSE, length |-> Unknown, form |-> "other"]

VARIABLES
  sent,     \* the packets the peer sends, one kind each
  end,      \* the end of the bytes read so far
  at,       \* the position of the byte to read next
  step,     \* where HandleIncomingData is; "read" when it is not running,
            \* "terminated" when an exception has ended the process
  kind,     \* packetOpcode, as the kind of packet it stands for
  length,   \* packetLength
  keys,     \* the keys taken from m_Decryptor
  handled,  \* the packets handled: number in sent, or 0 for one never sent
  rate,     \* m_PacketsThisSecond
  burst,    \* the packets handled since m_LastPacketSecond, no more than MaxRate + 1
            \* of them counted (history)
  closed,   \* the peer has been disconnected for flooding
  aligned   \* every read so far has ended between two packets (history)

vars == <<sent, end, at, step, kind, length, keys, handled, rate, burst, closed, aligned>>

----------------------------------------------------------------------------
(* The stream *)

\* An opcode, the length of a variable packet, the payload.
Size(k) == 1 + (IF k.variable THEN 1 ELSE 0) + k.length

\* Where the k-th packet begins; one packet more than sent, to end the stream.
Begin ==
  LET begin[k \in 1 .. MaxPackets + 1] ==
        IF k = 1 THEN 0
        ELSE IF k - 1 > Len(sent) THEN begin[k - 1]
        ELSE begin[k - 1] + Size(sent[k - 1])
  IN  begin

Total == Begin[Len(sent) + 1]

\* The packet whose opcode is the next byte, if its key is the next one too.
AtPacket == {k \in 1 .. Len(sent) : at = Begin[k] /\ keys = k - 1}

\* The packet being decoded, if it is one that was sent.
InPacket ==
  LET header == IF step = "payload" /\ kind.variable THEN 2 ELSE 1
  IN  {k \in 1 .. Len(sent) : kind = sent[k] /\ keys = k /\ at = Begin[k] + header}

----------------------------------------------------------------------------
(* What HandlePacket takes of a packet of form f and length n *)

\* The waypoints behind the first one, two bytes each: division truncates.
Steps(f, n) ==
  LET paths == (IF f = "minimap" THEN n - Trailer ELSE n) - 5
  IN  IF paths >= 0 THEN paths \div 2 ELSE -((-paths) \div 2)

\* std::vector<...> path(steps) throws std::length_error, which nobody catches.
Throws(f, n) == f # "other" /\ Steps(f, n) < 0

\* A movement packet reads two coordinates, the waypoints and the run flag, whatever
\* its length; what is left of the length is skipped.
Consumed(f, n) ==
  LET read == 5 + 2 * Steps(f, n)
  IN  IF f # "other" /\ read > n THEN read ELSE n

\* A movement packet that reads on into the bytes behind it.
OverReads(k) == ~Throws(k.form, k.length) /\ Consumed(k.form, k.length) > k.length

----------------------------------------------------------------------------

Init ==
  /\ \E n \in 1 .. MaxPackets : sent \in [1 .. n -> Kinds]
  /\ end = 0 /\ at = 0 /\ step = "read"
  /\ kind = NoKind /\ length = Unknown
  /\ keys = 0 /\ handled = <<>> /\ rate = 0 /\ burst = 0 /\ closed = FALSE
  /\ aligned = TRUE

\* A read completes, into a new buffer.  The second is over or not; a peer that has
\* used up its reads of the second is disconnected.
HandleRead(newSecond) ==
  /\ step = "read" /\ ~closed
  /\ \E e \in end + 1 .. Total :
       /\ end' = e
       /\ aligned' = (aligned /\ \E k \in 1 .. Len(sent) + 1 : e = Begin[k])
       /\ rate' = IF newSecond THEN 1 ELSE rate + 1
       /\ burst' = IF newSecond THEN 0 ELSE burst
       /\ closed' = (rate' > MaxRate)
       /\ IF closed' THEN at' = e /\ UNCHANGED step
                     ELSE step' = "opcode" /\ at' = end
  /\ UNCHANGED <<sent, kind, length, keys, handled>>

\* Mutant: the opcode takes a second key.
DecodeOpcodeTwice ==
  /\ step = "opcode"
  /\ \E k \in IF AtPacket # {} THEN {sent[p] : p \in AtPacket} ELSE Kinds : kind' = k
  /\ at' = at + 1
  /\ keys' = keys + 2
  /\ step' = "length"
  /\ UNCHANGED <<sent, end, length, handled, rate, burst, closed, aligned>>

\* One byte and one key make the opcode.
DecodeOpcode ==
  /\ step = "opcode"
  /\ \E k \in IF AtPacket # {} THEN {sent[p] : p \in AtPacket} ELSE Kinds : kind' = k
  /\ at' = at + 1
  /\ keys' = keys + 1
  /\ step' = "length"
  /\ UNCHANGED <<sent, end, length, handled, rate, burst, closed, aligned>>

\* The length is in PacketLengths or is the next byte; the loop is left if that
\* byte has not been read yet.
DecodeLength ==
  /\ step = "length"
  /\ \/ /\ ~kind.variable
        /\ length' = kind.length
        /\ step' = "payload"
        /\ UNCHANGED <<at, kind>>
     \/ /\ kind.variable /\ at < end
        /\ length' \in IF InPacket # {} THEN {kind.length}
                                        ELSE {k.length : k \in Kinds}
        /\ at' = at + 1
        /\ step' = "payload"
        /\ UNCHANGED kind
     \/ /\ kind.variable /\ at = end
        /\ step' = "read"
        /\ kind' = NoKind
        /\ UNCHANGED <<at, length>>
  /\ UNCHANGED <<sent, end, keys, handled, rate, burst, closed, aligned>>

\* Mutant: a packet is handled although its payload has not been read.
HandlePacketUnchecked ==
  /\ step = "payload" /\ ~Throws(kind.form, length)
  /\ at' = at + Consumed(kind.form, length)
  /\ handled' = Append(handled, IF InPacket # {} THEN CHOOSE k \in InPacket : TRUE ELSE 0)
  /\ burst' = IF burst > MaxRate THEN burst ELSE burst + 1
  /\ kind' = NoKind /\ length' = Unknown
  /\ step' = IF at' < end THEN "opcode" ELSE "read"
  /\ UNCHANGED <<sent, end, keys, rate, closed, aligned>>

\* Mutant: > for >= in the test for the payload.
HandlePacketOffByOne ==
  /\ end - at > length
  /\ HandlePacketUnchecked

\* The whole payload has been read: HandlePacket, and the next packet.  The loop ends
\* at the end of the read, or one byte behind it.
HandlePacket ==
  /\ step = "payload" /\ end - at >= length /\ ~Throws(kind.form, length)
  /\ at' = at + Consumed(kind.form, length)
  /\ handled' = Append(handled, IF InPacket # {} THEN CHOOSE k \in InPacket : TRUE ELSE 0)
  /\ burst' = IF burst > MaxRate THEN burst ELSE burst + 1
  /\ kind' = NoKind /\ length' = Unknown
  /\ step' = IF at' < end THEN "opcode" ELSE "read"
  /\ UNCHANGED <<sent, end, keys, rate, closed, aligned>>

\* HandlePacket throws: the exception leaves io_context::run and its thread.
HandlePacketThrows ==
  /\ step = "payload" /\ end - at >= length /\ Throws(kind.form, length)
  /\ step' = "terminated"
  /\ UNCHANGED <<sent, end, at, kind, length, keys, handled, rate, burst, closed, aligned>>

\* None of the payload has been read: the loop ends, and what it knows is lost.
PayloadMissing ==
  /\ step = "payload" /\ end - at < length /\ at = end
  /\ kind' = NoKind /\ length' = Unknown
  /\ step' = "read"
  /\ UNCHANGED <<sent, end, at, keys, handled, rate, burst, closed, aligned>>

\* A part of the payload has been read: the loop goes on and changes nothing.
PayloadIncomplete ==
  /\ step = "payload" /\ end - at < length /\ at < end
  /\ UNCHANGED vars

HandleIncomingData ==
  \/ DecodeOpcode \/ DecodeLength
  \/ HandlePacket \/ HandlePacketThrows
  \/ PayloadMissing \/ PayloadIncomplete

Next == (\E newSecond \in BOOLEAN : HandleRead(newSecond)) \/ HandleIncomingData

Spec == Init /\ [][Next]_vars

\* A handler that is running goes on running.
FairSpec == Spec /\ WF_vars(HandleIncomingData)

----------------------------------------------------------------------------
(* Properties *)

\* HandlePacket may read one byte behind a read (Client.cpp:119), never more.
TypeOK ==
  /\ sent \in Seq(Kinds) /\ Len(sent) <= MaxPackets
  /\ end \in 0 .. Total /\ at \in 0 .. end + 1
  /\ step \in {"read", "opcode", "length", "payload", "terminated"}
  /\ kind \in Kinds \cup {NoKind} /\ length \in Nat \cup {Unknown}
  /\ keys \in Nat /\ handled \in Seq(0 .. Len(sent))
  /\ rate \in 0 .. MaxRate + 1 /\ burst \in 0 .. MaxRate + 1 /\ closed \in BOOLEAN
  /\ aligned \in BOOLEAN

\* No packet before the n-th reads on into the bytes behind it.
Intact(n) == \A k \in 1 .. Len(sent) : k < n => ~OverReads(sent[k])

\* As long as no read ends inside a packet, the packets are handled in the order they
\* were sent, each once, each with the key the peer encrypted its opcode with, up to
\* and including the first movement packet that is too short for what HandlePacket
\* reads of it.  If there is none in what has been read, no packet is left over when a
\* read has been handled, and no byte has been taken from behind the read.
HandledInOrder ==
  aligned =>
    /\ \A i \in 1 .. Len(handled) : Intact(i) => handled[i] = i
    /\ \A n \in 1 .. Len(sent) + 1 :
         step = "read" /\ ~closed /\ end = Begin[n] /\ Intact(n) =>
           keys = n - 1 /\ Len(handled) = n - 1 /\ at = end

\* Every packet is handled once all of its bytes have been read, however they
\* were cut into reads: new data is appended to what is there already.
PacketsKept ==
  step = "read" /\ ~closed =>
    \A k \in 1 .. Len(sent) : Begin[k + 1] <= end => \E i \in 1 .. Len(handled) : handled[i] = k

\* The loop over the bytes of a read ends, if no read has ended inside a packet and no
\* packet of those read reads on into the next one.
LoopEnds ==
  /\ step \notin {"read", "terminated"} /\ aligned
  /\ \A k \in 1 .. Len(sent) : Begin[k + 1] <= end => ~OverReads(sent[k])
  ~> step \in {"read", "terminated"}

\* No more than MAX_PACKETS_PER_SECOND packets of a second are handled.
FloodStopped == burst <= MaxRate
=============================================================================
