------------------------------ MODULE MCFraming ------------------------------
(* Framing with packets of every form, empty and not, and movement packets that are *)
(* long enough, that read one byte too many, and that make HandlePacket throw.      *)
EXTENDS Framing

Fixed(n) == [variable |-> FALSE, length |-> n, form |-> "other"]
Variable(n) == [variable |-> TRUE, length |-> n, form |-> "other"]
Walk(n) == [variable |-> TRUE, length |-> n, form |-> "walk"]
Minimap(n) == [variable |-> TRUE, length |-> n, form |-> "minimap"]

FourKinds == {Fixed(0), Fixed(2), Variable(0), Variable(2)}

AllKinds ==
  {Fixed(0), Fixed(2), Variable(0), Walk(3), Walk(4), Minimap(Trailer + 3), Minimap(Trailer + 4)}
=============================================================================
