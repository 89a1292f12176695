------------------------------ MODULE Movement ------------------------------
(***************************************************************************)
(* The movement of one logged-in player.                                   *)
(*                                                                         *)
(* The network thread turns a movement packet into waypoints by a sequence *)
(* of calls on the player's MovementHandler (Client::HandlePacket); the    *)
(* main thread takes the waypoints off, moves the player and tells the     *)
(* client (World::Process).  Nothing orders the two, so a tick may fall    *)
(* between any two of the calls: the unit of interleaving is the call.     *)
(*                                                                         *)
(* A position is <<x, y>>.  The sizes of the map region, in the code 8     *)
(* tiles a chunk, 6 chunks and the window 16 .. 87, are parameters.        *)
(***************************************************************************)
EXTENDS Integers, Sequences

CONSTANTS
  Start,        \* where the player logs in
  Targets,      \* the positions a movement packet may name
  MaxTargets,   \* bound: the positions of one packet
  MaxWaypoints, \* the limit of AddStep, 100
  Chunk,        \* tiles per chunk, 8
  Half,         \* chunks from the region's origin to the player's chunk, 6
  Low, High     \* the player stays in Low .. High - 1 of its region, 16 and 88

Positions == Int \X Int

ASSUME PositionsAssumption == Start \in Positions /\ Targets \subseteq Positions
ASSUME LimitAssumption ==
  MaxTargets \in Nat \ {0} /\ MaxWaypoints \in Nat \ {0}
ASSUME RegionAssumption ==
  /\ Chunk \in Nat \ {0} /\ Half \in Nat /\ Low \in Nat /\ High \in Nat
  /\ Low <= Half * Chunk /\ (Half + 1) * Chunk <= High

VARIABLES
  undivided,    \* whether no tick falls between the calls of one packet
  pos,          \* Player::m_Position
  waypoints,    \* MovementHandler::m_Waypoints
  runPath,      \* MovementHandler::m_RunPath
  primary,      \* Player::m_PrimaryDirection
  secondary,    \* Player::m_SecondaryDirection
  region,       \* Player::m_CurrentRegion
  placement,    \* UpdateFlag::NeedsPlacement
  call,         \* the next call of Client::HandlePacket
  path,         \* the positions of the packet still to be added to the path
  phase,        \* the next step of World::Process for this player
  seen,         \* where the client has been told that its player is
  seenRegion    \* the chunk of the last map region sent to the client

moveVars == <<pos, waypoints, runPath, primary, secondary>>
viewVars == <<region, placement, seen, seenRegion>>
vars == <<undivided, pos, waypoints, runPath, primary, secondary, region, placement,
          call, path, phase, seen, seenRegion>>

----------------------------------------------------------------------------
(* Position *)

Abs(n) == IF n < 0 THEN -n ELSE n
Sign(n) == IF n < 0 THEN -1 ELSE IF n > 0 THEN 1 ELSE 0
Least(m, n) == IF m < n THEN m ELSE n
Greatest(m, n) == IF m > n THEN m ELSE n

\* Mutant: the directions are numbered from one.
DirectionFromOne(dx, dy) ==
  <<<<6, 4, 1>>, <<7, -1, 2>>, <<8, 5, 3>>>>[Sign(dx) + 2][Sign(dy) + 2]

\* Position::Direction: rows for dx < 0, dx = 0, dx > 0, columns for dy.
Direction(dx, dy) ==
  <<<<5, 3, 0>>, <<6, -1, 1>>, <<7, 4, 2>>>>[Sign(dx) + 2][Sign(dy) + 2]

\* DIRECTION_DELTA_X and DIRECTION_DELTA_Y.
DeltaX == <<-1, 0, 1, -1, 1, -1, 0, 1>>
DeltaY == <<1, 1, 1, 0, 0, -1, -1, -1>>

\* Mutant: DIRECTION_DELTA_Y is applied upside down.
MoveMirrored(p, d) ==
  IF d = -1 THEN p ELSE <<p[1] + DeltaX[d + 1], p[2] - DeltaY[d + 1]>>

\* Position::Move by a direction; a waypoint with direction -1 moves nobody.
Move(p, d) ==
  IF d = -1 THEN p ELSE <<p[1] + DeltaX[d + 1], p[2] + DeltaY[d + 1]>>

\* GetRegionX, GetRegionY, and GetLocalX, GetLocalY relative to a base.
RegionOf(p) == <<p[1] \div Chunk - Half, p[2] \div Chunk - Half>>
Local(p, base) == <<p[1] - Chunk * RegionOf(base)[1], p[2] - Chunk * RegionOf(base)[2]>>

InRegion(p, base) ==
  \A i \in {1, 2} : Local(p, base)[i] >= Low /\ Local(p, base)[i] < High

----------------------------------------------------------------------------
(* MovementHandler *)

Point(p, d) == [at |-> p, dir |-> d]

\* The waypoint of Reset: where the player is, direction -1.
Standing == Point(pos, -1)

\* The i-th of the steps of AddToPath from a to b: both coordinates come one
\* closer to b with every step until they are there.
StepAt(a, b, i) ==
  LET toward(k) == a[k] + Sign(b[k] - a[k]) * Least(i, Abs(b[k] - a[k]))
  IN  <<toward(1), toward(2)>>

StepPoint(a, b, i) ==
  LET p == StepAt(a, b, i)
      q == StepAt(a, b, i - 1)
  IN  Point(p, Direction(p[1] - q[1], p[2] - q[2]))

\* Mutant: the steps start from the player instead of the last waypoint.
PathFromPlayer(points, b) ==
  LET a == pos
      steps == Greatest(Abs(b[1] - a[1]), Abs(b[2] - a[2]))
      room == MaxWaypoints - Len(points)
  IN  points \o [i \in 1 .. Least(steps, Greatest(room, 0)) |-> StepPoint(a, b, i)]

\* AddToPath: AddStep for each step, which does nothing once the limit is reached.
PathTo(points, b) ==
  LET a == points[Len(points)].at
      steps == Greatest(Abs(b[1] - a[1]), Abs(b[2] - a[2]))
      room == MaxWaypoints - Len(points)
  IN  points \o [i \in 1 .. Least(steps, Greatest(room, 0)) |-> StepPoint(a, b, i)]

----------------------------------------------------------------------------

Init ==
  /\ undivided \in BOOLEAN
  /\ pos = Start /\ region = Start /\ seen = Start
  /\ seenRegion = RegionOf(Start)
  /\ waypoints = <<>> /\ runPath = FALSE
  /\ primary = -1 /\ secondary = -1 /\ placement = FALSE
  /\ call = "none" /\ path = <<>> /\ phase = "process"

(* The network thread: the calls of Client::HandlePacket, in their order. *)

\* A packet with a path of one to MaxTargets positions: MovementHandler::Reset.
Reset ==
  /\ call = "none"
  /\ \E n \in 1 .. MaxTargets : path' \in [1 .. n -> Targets]
  /\ waypoints' = <<Standing>>
  /\ runPath' = FALSE
  /\ call' = "SetRunPath"
  /\ UNCHANGED <<pos, primary, secondary, phase>> /\ UNCHANGED viewVars

SetRunPath(run) ==
  /\ call = "SetRunPath"
  /\ runPath' = run
  /\ call' = "AddToPath"
  /\ UNCHANGED <<pos, waypoints, primary, secondary, path, phase>> /\ UNCHANGED viewVars

\* AddToPath resets an empty path first, the run flag included.
AddToPath ==
  /\ call = "AddToPath"
  /\ waypoints' = PathTo(IF waypoints = <<>> THEN <<Standing>> ELSE waypoints, Head(path))
  /\ runPath' = (runPath /\ waypoints # <<>>)
  /\ path' = Tail(path)
  /\ call' = IF Tail(path) = <<>> THEN "Finish" ELSE "AddToPath"
  /\ UNCHANGED <<pos, primary, secondary, phase>> /\ UNCHANGED viewVars

\* Mutant: the standing point of Reset stays in the path.
FinishKeepsStanding ==
  /\ call = "Finish"
  /\ call' = "none"
  /\ UNCHANGED <<path, phase>> /\ UNCHANGED moveVars /\ UNCHANGED viewVars

\* Finish takes the first waypoint off, supposedly the one Reset has put there.
Finish ==
  /\ call = "Finish"
  /\ waypoints' = IF waypoints = <<>> THEN <<>> ELSE Tail(waypoints)
  /\ call' = "none"
  /\ UNCHANGED <<pos, runPath, primary, secondary, path, phase>> /\ UNCHANGED viewVars

(* The main thread: the steps of World::Process for this player. *)

Ticking(p) == phase = p /\ (call = "none" \/ ~undivided)

Taken == Least(Len(waypoints), IF runPath THEN 2 ELSE 1)
WalkDirection == IF Taken >= 1 THEN waypoints[1].dir ELSE -1
RunDirection == IF Taken >= 2 THEN waypoints[2].dir ELSE -1

\* Mutant: the map region is not followed.
ProcessStaysInRegion ==
  /\ Ticking("process")
  /\ waypoints' = SubSeq(waypoints, Taken + 1, Len(waypoints))
  /\ pos' = Move(Move(pos, WalkDirection), RunDirection)
  /\ primary' = IF WalkDirection # -1 THEN WalkDirection ELSE primary
  /\ secondary' = IF RunDirection # -1 THEN RunDirection ELSE secondary
  /\ phase' = "update"
  /\ UNCHANGED <<runPath, call, path>> /\ UNCHANGED viewVars

\* MovementHandler::Process, with Player::UpdateMapRegion when the player comes
\* near the border of its region.
Process ==
  /\ Ticking("process")
  /\ waypoints' = SubSeq(waypoints, Taken + 1, Len(waypoints))
  /\ pos' = Move(Move(pos, WalkDirection), RunDirection)
  /\ primary' = IF WalkDirection # -1 THEN WalkDirection ELSE primary
  /\ secondary' = IF RunDirection # -1 THEN RunDirection ELSE secondary
  /\ IF InRegion(pos', region)
       THEN UNCHANGED <<region, placement, seenRegion>>
       ELSE /\ region' = pos'
            /\ placement' = TRUE
            /\ seenRegion' = RegionOf(pos')
  /\ phase' = "update"
  /\ UNCHANGED <<runPath, call, path, seen>>

\* What the client makes of the placement, relative to the region it was sent.
Placed == <<Local(pos, region)[1] + Chunk * seenRegion[1],
            Local(pos, region)[2] + Chunk * seenRegion[2]>>

\* PlayerUpdating::UpdateLocalPlayerMovement: placement, run, walk or nothing.
UpdateLocalPlayerMovement ==
  /\ Ticking("update")
  /\ seen' = IF placement THEN Placed
             ELSE IF primary = -1 THEN seen
             ELSE Move(Move(seen, primary), secondary)
  /\ phase' = "reset"
  /\ UNCHANGED <<region, placement, seenRegion, call, path>> /\ UNCHANGED moveVars

\* Mutant: the directions of the tick are not cleared.
ResetPlayerKeepsDirections ==
  /\ Ticking("reset")
  /\ placement' = FALSE
  /\ phase' = "process"
  /\ UNCHANGED <<region, seen, seenRegion, call, path>> /\ UNCHANGED moveVars

\* Player::Reset.
ResetPlayer ==
  /\ Ticking("reset")
  /\ primary' = -1 /\ secondary' = -1 /\ placement' = FALSE
  /\ phase' = "process"
  /\ UNCHANGED <<pos, waypoints, runPath, region, seen, seenRegion, call, path>>

HandlePacket == Reset \/ (\E run \in BOOLEAN : SetRunPath(run)) \/ AddToPath \/ Finish
Tick == Process \/ UpdateLocalPlayerMovement \/ ResetPlayer

Next == (HandlePacket \/ Tick) /\ UNCHANGED undivided

Spec == Init /\ [][Next]_vars

\* The main thread ticks every CYCLE_RATE_MS and a handler, once begun, ends.
FairSpec ==
  /\ Spec
  /\ WF_vars(Tick /\ UNCHANGED undivided)
  /\ WF_vars(((\E run \in BOOLEAN : SetRunPath(run)) \/ AddToPath \/ Finish)
                /\ UNCHANGED undivided)

----------------------------------------------------------------------------
(* Properties *)

Waypoints == [at : Positions, dir : -1 .. 7]

TypeOK ==
  /\ pos \in Positions /\ region \in Positions /\ seen \in Positions
  /\ seenRegion \in Positions
  /\ waypoints \in Seq(Waypoints) /\ runPath \in BOOLEAN
  /\ primary \in -1 .. 7 /\ secondary \in -1 .. 7 /\ placement \in BOOLEAN
  /\ call \in {"none", "SetRunPath", "AddToPath", "Finish"}
  /\ path \in Seq(Targets)
  /\ phase \in {"process", "update", "reset"}

\* Every waypoint but the first is one step, in its own direction, from the one
\* before, whatever ticks fell between the calls that made the path, and the
\* path never outgrows its limit (MovementHandler.cpp AddToPath, AddStep).
PathContiguous ==
  /\ Len(waypoints) <= MaxWaypoints
  /\ \A i \in 2 .. Len(waypoints) :
       /\ waypoints[i].dir # -1
       /\ waypoints[i].at = Move(waypoints[i - 1].at, waypoints[i].dir)

\* After a tick has moved the player its coordinates relative to the region are
\* in Low .. High - 1, and the client has that very region.
RegionFollows ==
  /\ InRegion(pos, region)
  /\ seenRegion = RegionOf(region)

\* If packets are undivided, the path between two of them starts next to the player:
\* the player walks through the waypoints themselves and not beside them.
PathFromPosition ==
  undivided /\ call = "none" /\ waypoints # <<>> =>
    waypoints[1].dir # -1 /\ waypoints[1].at = Move(pos, waypoints[1].dir)

\* If packets are undivided, the client has its player where the server has it when
\* a tick is over, whether it was told by a placement, a run, a walk or nothing.
ClientInStep == undivided /\ phase = "process" => seen = pos

\* UpdateLocalPlayerMovement takes the branch for no movement only if the player
\* has not moved since the client was last told of its position.
NoMovementNoMove ==
  [][phase = "update" /\ phase' = "reset" /\ primary = -1 /\ ~placement
       => pos = seen]_vars

\* If packets are undivided, a player whose path has been set arrives at its end,
\* unless another packet comes first.
Arrives ==
  \A t \in Targets :
    undivided /\ call = "none" /\ waypoints # <<>> /\ waypoints[Len(waypoints)].at = t
      ~> call # "none" \/ pos = t
=============================================================================
