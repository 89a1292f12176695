---------------------------- MODULE UpdatePacket ----------------------------
(***************************************************************************)
(* The update packet, as PlayerUpdating writes it into a StreamBuffer and  *)
(* as a client (external, modelled from what is written) reads it.         *)
(*                                                                         *)
(* Nothing in the packet says how long a part of it is: a part ends where  *)
(* its bits say so, the list of new players at an index that marks the     *)
(* end, and the attribute blocks belong, in their order, to the players    *)
(* whose parts said that there are attributes.  What the writer means is   *)
(* kept in said; the reader has only the bytes.                            *)
(*                                                                         *)
(* A behaviour is one packet: an update, or any other packet, made of the  *)
(* calls of StreamBuffer.                                                  *)
(***************************************************************************)
EXTENDS StreamBuffer, PlayerName

CONSTANTS
  Moves,      \* the sequences of at most two directions, 0 .. 7, of a tick
  Locals,     \* the coordinates of a placement in its region, 16 .. 87
  Offsets,    \* the coordinates of a new player relative to the viewer, -14 .. 15
  SlotsSent,  \* the slots of new players, 0 .. 2046
  Names,      \* the names of players
  MaxParts    \* bound: the players an update is about

ASSUME PartsAssumption ==
  /\ \A m \in Moves : m \in Seq(0 .. 7) /\ Len(m) <= 2
  /\ Locals \subseteq 0 .. 127 /\ Offsets \subseteq -16 .. 15
  /\ SlotsSent \subseteq 0 .. 2046
  /\ MaxParts \in 1 .. 255 /\ MaxCalls >= 3

\* A name is made of character codes.
ASSUME NamesAssumption == \A name \in Names : name \in Seq(Bytes)

VARIABLES
  stage,   \* what UpdatePlayer does next, or "other" for another packet
  listed,  \* the players of the local list still to be written
  said,    \* the parts written: what they mean, whether attributes are to be updated, the
           \* bit each ends with, and how much of block is there when it is written
  block    \* the bytes of the attribute blocks

updateVars == <<stage, listed, said, block>>
packetVars == <<vars, updateVars>>

EndMark == 2047

PacketInit ==
  /\ Init
  /\ stage \in {"other", "header"} /\ listed \in 0 .. MaxParts - 1
  /\ stage = "other" => listed = 0
  /\ said = <<>> /\ block = <<>>

----------------------------------------------------------------------------
(* Attributes *)

\* Whether a player needs an update, whether of its appearance, which has its name.
\* Any of the flags that SetUpdateFlag takes is an update.
NoUpdate == [needed |-> FALSE, appearance |-> FALSE, name |-> <<>>]
FlagsOnly == [needed |-> TRUE, appearance |-> FALSE, name |-> <<>>]
Appearance(name) == [needed |-> TRUE, appearance |-> TRUE, name |-> name]

Forced == {Appearance(name) : name \in Names}
Updates == {NoUpdate, FlagsOnly} \cup Forced

\* The gender, the clothes, the colours and the animations before the name, and the
\* levels after it, are constants of the code; a byte stands for each of the two.
Look == <<0>>
Level == <<3>>

AppendAppearance(name) ==
  LET appearance == Look \o Shortened(PlayerNameToInt64(name)) \o Level
  IN  <<Coded(Len(appearance), "C")>> \o appearance

\* UpdateState, if it is called: the mask, and the appearance if the mask has it.
UpdateState(u) ==
  CASE ~u.needed -> <<>>
    [] u.needed /\ ~u.appearance -> <<0>>
    [] u.appearance -> <<16>> \o AppendAppearance(u.name)

----------------------------------------------------------------------------
(* The parts, as fields <<amount, value>> of WriteBits *)

Flag(b) == <<1, IF b THEN 1 ELSE 0>>

\* What a part can say.
Nothing == [what |-> "nothing"]
Removal == [what |-> "removal"]
Movement(m) == [what |-> "movement", steps |-> m]
Placement(x, y, discard) == [what |-> "placement", x |-> x, y |-> y, discard |-> discard]
Addition(slot, x, y) == [what |-> "addition", slot |-> slot, x |-> x, y |-> y]

\* UpdateOtherPlayerMovement, and the same branches of UpdateLocalPlayerMovement,
\* with AppendRun, AppendWalk and AppendStand.
MovementFields(m, u) ==
  CASE Len(m) = 2 -> <<Flag(TRUE), <<2, 2>>, <<3, m[1]>>, <<3, m[2]>>, Flag(u.needed)>>
    [] Len(m) = 1 -> <<Flag(TRUE), <<2, 1>>, <<3, m[1]>>, Flag(u.needed)>>
    [] m = <<>> /\ u.needed -> <<Flag(TRUE), <<2, 0>>>>
    [] m = <<>> /\ ~u.needed -> <<Flag(FALSE)>>

\* A player who stands and has no attributes to update is not mentioned.
Meant(m, u) == IF m = <<>> /\ ~u.needed THEN Nothing ELSE Movement(m)

\* AppendPlacement, with the plane all players are on: attributes are always said to
\* follow.
PlacementFields(x, y, discard) ==
  <<Flag(TRUE), <<2, 3>>, <<2, 0>>, Flag(discard), Flag(TRUE), <<7, y>>, <<7, x>>>>

RemovalFields == <<Flag(TRUE), <<2, 3>>>>

\* Mutant: the relative position is written x first.
AdditionFieldsSwapped(slot, x, y) ==
  <<<<11, slot>>, Flag(TRUE), Flag(TRUE), <<5, x>>, <<5, y>>>>

AdditionFields(slot, x, y) ==
  <<<<11, slot>>, Flag(TRUE), Flag(TRUE), <<5, y>>, <<5, x>>>>

----------------------------------------------------------------------------
(* UpdatePlayer *)

\* The calls of WriteBits for a sequence of fields.
PutFields(bytes, at, fields) ==
  LET put[k \in 0 .. Len(fields)] ==
        IF k = 0 THEN [bytes |-> bytes, at |-> at]
        ELSE LET before == put[k - 1]
             IN  [bytes |-> PutBits(before.bytes, before.at, fields[k][1], fields[k][2]),
                  at |-> before.at + fields[k][1]]
  IN  put[Len(fields)]

\* A part that says m, and the block UpdateState makes for it.
Says(m, u, fields) ==
  /\ LET written == PutFields(buffer, bitPosition, fields)
     IN  buffer' = written.bytes /\ bitPosition' = written.at
  /\ block' = block \o UpdateState(u)
  /\ said' = Append(said, [means |-> m, update |-> u,
                           end |-> bitPosition', attributes |-> Len(block')])
  /\ UNCHANGED <<pos, access, frame, header, items, finished>>

From(here, there) == stage = here /\ stage' = there /\ UNCHANGED <<listed, said, block>>

StartHeader == From("header", "bits") /\ \E opcode \in Opcodes : WriteHeader(opcode, "SHORT")
StartBits == From("bits", "self") /\ SetBitAccess

\* UpdateLocalPlayerMovement without a placement, and the size of the list.
MoveSelf(m, u) ==
  /\ stage = "self" /\ stage' = "list"
  /\ Says(Meant(m, u), u, Append(MovementFields(m, u), <<8, listed>>))
  /\ UNCHANGED listed

\* With a placement, whose flag is an update.
PlaceSelf(x, y, discard, u) ==
  /\ stage = "self" /\ stage' = "list"
  /\ u.needed
  /\ Says(Placement(x, y, discard), u, Append(PlacementFields(x, y, discard), <<8, listed>>))
  /\ UNCHANGED listed

\* The loop over the local list: an entry that stays, and one that is erased.
MoveOther(m, u) ==
  /\ stage = "list" /\ listed > 0
  /\ listed' = listed - 1
  /\ Says(Meant(m, u), u, MovementFields(m, u))
  /\ UNCHANGED stage

RemoveOther ==
  /\ stage = "list" /\ listed > 0
  /\ listed' = listed - 1
  /\ Says(Removal, NoUpdate, RemovalFields)
  /\ UNCHANGED stage

\* AddPlayer, with the appearance forced.
AddPlayer(slot, x, y, u) ==
  /\ stage = "list" /\ listed = 0
  /\ Len(said) < MaxParts
  /\ Says(Addition(slot, x, y), u, AdditionFields(slot, x, y))
  /\ UNCHANGED <<stage, listed>>

\* The end: the mark and the blocks if there are any, and the size of the packet.
MarkEnd ==
  /\ listed = 0 /\ block # <<>>
  /\ From("list", "bytes") /\ WriteBits(11, EndMark)

EndBits ==
  /\ \/ listed = 0 /\ block = <<>> /\ From("list", "size")
     \/ From("bytes", "block")
  /\ SetByteAccess

AppendBlock == From("block", "size") /\ WriteBytes(block)

Finish == From("size", "sent") /\ FinishVariableHeader

UpdatePlayer ==
  \/ StartHeader
  \/ StartBits
  \/ \E m \in Moves, u \in Updates : MoveSelf(m, u) \/ MoveOther(m, u)
  \/ \E x, y \in Locals, discard \in BOOLEAN, u \in Updates : PlaceSelf(x, y, discard, u)
  \/ RemoveOther
  \/ \E slot \in SlotsSent, x, y \in Offsets, u \in Forced : AddPlayer(slot, x, y, u)
  \/ MarkEnd
  \/ EndBits
  \/ AppendBlock
  \/ Finish

OtherPacket == stage = "other" /\ Next /\ UNCHANGED updateVars

PacketNext == UpdatePlayer \/ OtherPacket

PacketSpec == PacketInit /\ [][PacketNext]_packetVars

----------------------------------------------------------------------------
(* The reader, of the bytes of a packet *)

Signed(packet, at, amount) ==
  LET n == ReadBits(packet, at, amount)
  IN  IF n < Pow2[amount - 1] THEN n ELSE n - Pow2[amount]

\* A part read: what it says, whether attributes belong to it, where the next begins.
Part(m, update, end) == [means |-> m, update |-> update, end |-> end]

\* A movement of the player itself, or of one in the list.
ReadMovement(packet, at, self) ==
  LET bits(from, amount) == ReadBits(packet, at + from, amount)
      kind == bits(1, 2)
  IN  CASE bits(0, 1) = 0 -> Part(Nothing, FALSE, at + 1)
        [] bits(0, 1) = 1 /\ kind = 0 -> Part(Movement(<<>>), TRUE, at + 3)
        [] bits(0, 1) = 1 /\ kind = 1 ->
             Part(Movement(<<bits(3, 3)>>), bits(6, 1) = 1, at + 7)
        [] bits(0, 1) = 1 /\ kind = 2 ->
             Part(Movement(<<bits(3, 3), bits(6, 3)>>), bits(9, 1) = 1, at + 10)
        [] bits(0, 1) = 1 /\ kind = 3 /\ self ->
             Part(Placement(bits(14, 7), bits(7, 7), bits(5, 1) = 1), bits(6, 1) = 1, at + 21)
        [] OTHER -> Part(Removal, FALSE, at + 3)

ReadAddition(packet, at) ==
  Part(Addition(ReadBits(packet, at, 11), Signed(packet, at + 18, 5), Signed(packet, at + 13, 5)),
       ReadBits(packet, at + 11, 1) = 1, at + 23)

\* After the header of three bytes; the player's own part ends with the size of the list.
ReadSelf(packet) ==
  LET self == ReadMovement(packet, 24, TRUE) IN [self EXCEPT !.end = @ + 8]

ListSize(packet, self) == ReadBits(packet, self.end - 8, 8)

\* New players are read as long as there are bits for an index and it is not the end.
MoreAdditions(packet, at) ==
  8 * Len(packet) - at >= 11 /\ ReadBits(packet, at, 11) # EndMark

\* The player's own part, the list, the new players, of which each takes a byte at least.
ReadParts(packet) ==
  LET self == ReadSelf(packet)
      size == ListSize(packet, self)
      turn[n \in 0 .. size + Len(packet)] ==
        IF n = 0 THEN <<self>>
        ELSE LET read == turn[n - 1]
                 at == read[Len(read)].end
             IN  IF n <= size THEN Append(read, ReadMovement(packet, at, FALSE))
                 ELSE IF Len(read) = n /\ MoreAdditions(packet, at)
                 THEN Append(read, ReadAddition(packet, at)) ELSE read
  IN  turn[size + Len(packet)]

\* A block read: whether it has an appearance, the number of its name, where it ends.
Block(appearance, number, end) == [appearance |-> appearance, number |-> number, end |-> end]

\* An appearance goes to the end its size says.
ReadBlock(packet, at) ==
  LET name == at + 2 + Len(Look)
  IN  IF (packet[at + 1] \div 16) % 2 = 1
      THEN Block(TRUE, SubSeq(packet, name + 1, name + 8), at + 2 + Decoded(packet[at + 2], "C"))
      ELSE Block(FALSE, Zero, at + 1)

\* What belongs to each part, one after the other from the byte after the end mark.
ReadBlocks(packet, parts) ==
  LET turn[n \in 0 .. Len(parts)] ==
        IF n = 0 THEN <<>>
        ELSE LET read == turn[n - 1]
                 at == IF n = 1 THEN (parts[Len(parts)].end + 11 + 7) \div 8 ELSE read[n - 1].end
             IN  Append(read, IF parts[n].update THEN ReadBlock(packet, at)
                              ELSE Block(FALSE, Zero, at))
  IN  turn[Len(parts)]

----------------------------------------------------------------------------
(* Properties *)

\* What Client::Send copies.
Packet == SubSeq(buffer, 1, pos)

\* The parts as they are meant.
Parts == [i \in 1 .. Len(said) |-> Part(said[i].means, said[i].update.needed, said[i].end)]

\* All the bits are in the packet.  The reader finds exactly the parts that were meant,
\* in order and no more, whatever parts precede them and however the packet ends; the
\* parts it expects attributes for are those whose attributes have been written; it
\* takes the blocks apart as they were put together, to the end of the packet.
PacketUnderstood ==
  stage = "sent" =>
    LET blocks == ReadBlocks(Packet, ReadParts(Packet))
    IN  /\ bitPosition <= 8 * pos
        /\ ReadParts(Packet) = Parts
        /\ Len(blocks) = Len(said)
        /\ \A i \in 1 .. Len(said) :
             /\ blocks[i].appearance = said[i].update.appearance
             /\ block # <<>> => blocks[i].end = pos - Len(block) + said[i].attributes

\* The longest name whose number is always within the int32_t that WriteLong takes.
ShortName == 5

\* PlayerNameToInt64 keeps exactly what is visible of a name; of that, the client is
\* shown the names that are short enough for WriteLong(int32_t).
NamesShown ==
  stage = "sent" =>
    LET blocks == ReadBlocks(Packet, ReadParts(Packet))
    IN  \A i \in 1 .. Len(said) :
          LET u == said[i].update
          IN  u.appearance =>
                /\ NameOf(PlayerNameToInt64(u.name)) = Visible(u.name)
                /\ Len(Visible(u.name)) <= ShortName => NameOf(blocks[i].number) = Visible(u.name)
=============================================================================
