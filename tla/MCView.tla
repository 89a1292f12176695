------------------------------- MODULE MCView -------------------------------
(* View on two tiles of which one is in sight of the other but not the other   *)
(* way round, and a third that is reached only by a step nobody is told of.    *)
EXTENDS View, FiniteSets, TLC

CONSTANTS p1, p2, p3

ThreePlayers == {p1, p2, p3}
Symmetry3 == Permutations(ThreePlayers)

Path == {<<0, 0>>, <<1, 1>>, <<1, 2>>}
Corner == <<1, 1>>

\* Walking from the corner, running back, and aside without a primary direction.
Round == {NoTurn, <<<<-1, -1>>, Stand>>, <<<<1, 0>>, <<0, 1>>>>, <<Stand, <<0, 1>>>>}

\* A client that has not been told where its player is takes it to be far off.
FarOff == <<9, 9>>

\* Bounds: no step leads more than MaxAstray players astray or makes their clients
\* lose their place, and of the Player objects at most MaxGone have left.
MaxAstray == 1
MaxGone == 1
AstrayBound == Cardinality({p \in Players : lost[p] # "no"} \cup Astray)' <= MaxAstray
GoneBound == Cardinality({p \in Players : index[p] # -1 /\ p \notin world})' <= MaxGone

\* Bound: nobody enters, and no rehash disturbs a loop, once somebody is astray; the
\* distance between a player and its image is bounded then.
CalmBound ==
  Astray # {} =>
    /\ index' = index
    /\ phase = "process" /\ phase' = "update" => batch' = world /\ again' = {}
    /\ blinked' \subseteq blinked
=============================================================================
