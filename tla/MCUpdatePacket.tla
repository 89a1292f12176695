--------------------------- MODULE MCUpdatePacket ---------------------------
(* Small packets, with the extreme values of every field. *)
EXTENDS UpdatePacket

OneOpcode == {81}

\* Every type and order for values of every length.
AllWrites ==
  UNION {{v} \X Types \X Supported(Len(v)) :
           v \in {<<128>>, <<200>>, <<1, 254>>, <<129, 2, 3, 4>>,
                  <<1, 2, 3, 4, 128, 6, 7, 255>>}}
SomeLongs == {<<0, 0, 0, 0, 127, 6, 7, 8>>, <<1, 2, 3, 4, 128, 6, 7, 8>>}
SomeStrings == {<<>>, <<65, 255>>}

\* A flag, a relative position behind the viewer, a slot.
SomeBitWrites == {<<1, 1>>, <<5, -14>>, <<11, 1025>>}

\* Standing, walking and running.
SomeMoves == {<<>>, <<7>>, <<0, 7>>}
SomeLocals == {16, 87}
SomeOffsets == {-14, 15}
SomeSlots == {0, 2046}

\* "_z9Z0_", of which four characters are visible, and "abcdefghijkl1", of which the
\* last one does not count.
SomeNames == {<<95, 122, 57, 90, 48, 95>>, [i \in 1 .. 13 |-> IF i = 13 THEN 49 ELSE 96 + i]}
=============================================================================
