----------------------------- MODULE MCMovement -----------------------------
(* Movement around a corner of four chunks, with regions of 3 x 3 chunks. *)
EXTENDS Movement

StartTile == <<11, 10>>

\* Straight, diagonal and knight's moves between them and the start, and standing.
TwoTiles == {<<11, 11>>, <<13, 10>>}

\* When ticks fall between the calls of packets, the client's idea of the position
\* drifts from the server's until the next placement; bound: states in which it is
\* off by more than MaxDrift tiles when a tick begins are not explored further.
MaxDrift == 1
DriftBound ==
  phase = "process" => Abs(pos[1] - seen[1]) + Abs(pos[2] - seen[2]) <= MaxDrift
=============================================================================
