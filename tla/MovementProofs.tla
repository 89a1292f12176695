--------------------------- MODULE MovementProofs ---------------------------
(***************************************************************************)
(* Proofs about Movement, for any map region, any limit on the waypoints   *)
(* and any positions a packet may name.                                    *)
(***************************************************************************)
EXTENDS Movement, TLAPS

USE PositionsAssumption, LimitAssumption

----------------------------------------------------------------------------
(* Positions and directions *)

\* Position::Move leads from a position to a position.
LEMMA MoveType ==
  ASSUME NEW p \in Positions, NEW d \in -1 .. 7
  PROVE  Move(p, d) \in Positions
  <1>1. CASE d = -1
    BY <1>1 DEF Move
  <1>2. CASE d \in 0 .. 7
    <2>1. DeltaX[d + 1] \in Int /\ DeltaY[d + 1] \in Int
      BY <1>2 DEF DeltaX, DeltaY
    <2> QED BY <1>2, <2>1 DEF Move, Positions
  <1> QED BY <1>1, <1>2

\* Position::Direction and Position::Move agree: the direction of a difference of at
\* most one in each coordinate moves by that difference.
LEMMA DirectionMoves ==
  ASSUME NEW dx \in -1 .. 1, NEW dy \in -1 .. 1, NEW p \in Positions
  PROVE  /\ Direction(dx, dy) \in -1 .. 7
         /\ Direction(dx, dy) = -1 <=> dx = 0 /\ dy = 0
         /\ Move(p, Direction(dx, dy)) = <<p[1] + dx, p[2] + dy>>
  <1>1. p = <<p[1], p[2]>> /\ p[1] \in Int /\ p[2] \in Int
    BY DEF Positions
  <1>2. CASE dx = -1
    BY <1>1, <1>2 DEF Direction, Move, Sign, DeltaX, DeltaY
  <1>3. CASE dx = 0
    BY <1>1, <1>3 DEF Direction, Move, Sign, DeltaX, DeltaY
  <1>4. CASE dx = 1
    BY <1>1, <1>4 DEF Direction, Move, Sign, DeltaX, DeltaY
  <1> QED BY <1>2, <1>3, <1>4

\* A position is inside the map region built around it.
LEMMA RegionAround ==
  ASSUME NEW p \in Positions
  PROVE  InRegion(p, p)
  <1>1. ASSUME NEW n \in Int
        PROVE  /\ n - Chunk * (n \div Chunk - Half) >= Low
               /\ n - Chunk * (n \div Chunk - Half) < High
    <2> DEFINE q == n \div Chunk
    <2>1. q \in Int /\ Chunk * q <= n /\ n < Chunk * q + Chunk
      BY RegionAssumption, SMTT(30)
    <2>2. Chunk * (q - Half) = Chunk * q - Half * Chunk
      BY <2>1, RegionAssumption, SMTT(30)
    <2>3. (Half + 1) * Chunk = Half * Chunk + Chunk
      BY RegionAssumption, SMTT(30)
    <2>4. Half * Chunk \in Int /\ Chunk * q \in Int
      BY <2>1, RegionAssumption
    <2> HIDE DEF q
    <2>5. /\ n - Chunk * (q - Half) >= Low
          /\ n - Chunk * (q - Half) < High
      BY <2>1, <2>2, <2>3, <2>4, RegionAssumption
    <2> QED BY <2>5 DEF q
  <1>2. p[1] \in Int /\ p[2] \in Int
    BY DEF Positions
  <1>3. /\ Local(p, p)[1] = p[1] - Chunk * (p[1] \div Chunk - Half)
        /\ Local(p, p)[2] = p[2] - Chunk * (p[2] \div Chunk - Half)
    BY DEF Local, RegionOf
  <1>4. /\ Local(p, p)[1] >= Low /\ Local(p, p)[1] < High
        /\ Local(p, p)[2] >= Low /\ Local(p, p)[2] < High
    BY <1>1, <1>2, <1>3
  <1> QED BY <1>4 DEF InRegion

\* A region has whole coordinates.
LEMMA RegionType ==
  ASSUME NEW p \in Positions
  PROVE  RegionOf(p) \in Positions
  BY RegionAssumption, SMTT(30) DEF RegionOf, Positions

----------------------------------------------------------------------------
(* The steps of AddToPath *)

\* One coordinate of AddToPath's steps: it starts where the path ends, moves by at
\* most one with a step, and moves as long as the target is further away.
LEMMA CoordinateStep ==
  ASSUME NEW a \in Int, NEW b \in Int, NEW i \in Nat \ {0}
  PROVE  LET toward(j) == a + Sign(b - a) * Least(j, Abs(b - a))
         IN  /\ toward(i) \in Int /\ toward(i - 1) \in Int
             /\ toward(0) = a
             /\ toward(i) - toward(i - 1) \in -1 .. 1
             /\ i <= Abs(b - a) => toward(i) # toward(i - 1)
  <1>1. CASE b - a < 0
    <2>1. Sign(b - a) = -1 /\ Abs(b - a) = a - b
      BY <1>1 DEF Sign, Abs
    <2> QED BY <1>1, <2>1 DEF Least
  <1>2. CASE b - a = 0
    <2>1. Sign(b - a) = 0 /\ Abs(b - a) = 0
      BY <1>2 DEF Sign, Abs
    <2> QED BY <1>2, <2>1 DEF Least
  <1>3. CASE b - a > 0
    <2>1. Sign(b - a) = 1 /\ Abs(b - a) = b - a
      BY <1>3 DEF Sign, Abs
    <2> QED BY <1>3, <2>1 DEF Least
  <1> QED BY <1>1, <1>2, <1>3

\* Each step of AddToPath is a waypoint one move, in its own direction, from the step
\* before, and the step before the first is where the path ended.
LEMMA StepPoints ==
  ASSUME NEW a \in Positions, NEW b \in Positions, NEW i \in Nat \ {0},
         i <= Greatest(Abs(b[1] - a[1]), Abs(b[2] - a[2]))
  PROVE  /\ StepAt(a, b, 0) = a
         /\ StepPoint(a, b, i) \in Waypoints
         /\ StepPoint(a, b, i).at = StepAt(a, b, i)
         /\ StepPoint(a, b, i).dir # -1
         /\ StepPoint(a, b, i).at = Move(StepAt(a, b, i - 1), StepPoint(a, b, i).dir)
  <1> DEFINE p == StepAt(a, b, i)
             q == StepAt(a, b, i - 1)
             dx == p[1] - q[1]
             dy == p[2] - q[2]
  <1>1. /\ a = <<a[1], a[2]>> /\ a[1] \in Int /\ a[2] \in Int
        /\ b[1] \in Int /\ b[2] \in Int
    BY DEF Positions
  <1>2. /\ StepAt(a, b, 0) = a
        /\ p[1] \in Int /\ q[1] \in Int /\ dx \in -1 .. 1
        /\ i <= Abs(b[1] - a[1]) => p[1] # q[1]
        /\ p[2] \in Int /\ q[2] \in Int /\ dy \in -1 .. 1
        /\ i <= Abs(b[2] - a[2]) => p[2] # q[2]
    BY <1>1, CoordinateStep, ZenonT(60) DEF StepAt
  <1>3. i <= Abs(b[1] - a[1]) \/ i <= Abs(b[2] - a[2])
    BY <1>1 DEF Greatest, Abs
  <1>4. q \in Positions /\ p = <<p[1], p[2]>> /\ p \in Positions
    <2>1. p = <<p[1], p[2]>> /\ q = <<q[1], q[2]>>
      BY DEF StepAt
    <2> HIDE DEF p, q
    <2> QED BY <1>2, <2>1 DEF Positions
  <1>5. /\ Direction(dx, dy) \in -1 .. 7
        /\ Direction(dx, dy) # -1
        /\ Move(q, Direction(dx, dy)) = <<q[1] + dx, q[2] + dy>>
    <2>1. ~(dx = 0 /\ dy = 0)
      BY <1>2, <1>3
    <2> HIDE DEF dx, dy, q
    <2> QED BY <1>2, <1>4, <2>1, DirectionMoves
  <1>6. StepPoint(a, b, i) = [at |-> p, dir |-> Direction(dx, dy)]
    BY DEF StepPoint, Point
  <1>7. <<q[1] + dx, q[2] + dy>> = p
    BY <1>2, <1>4 DEF Positions
  <1> QED BY <1>2, <1>4, <1>5, <1>6, <1>7 DEF Waypoints

\* PathContiguous of any sequence of waypoints.
Contiguous(points) ==
  /\ Len(points) <= MaxWaypoints
  /\ \A i \in 2 .. Len(points) :
       /\ points[i].dir # -1
       /\ points[i].at = Move(points[i - 1].at, points[i].dir)

\* AddToPath keeps the path it finds, keeps it contiguous and keeps to the limit.
LEMMA PathToContiguous ==
  ASSUME NEW points \in Seq(Waypoints), points # <<>>, Contiguous(points),
         NEW b \in Positions
  PROVE  /\ PathTo(points, b) \in Seq(Waypoints)
         /\ PathTo(points, b) # <<>>
         /\ PathTo(points, b)[1] = points[1]
         /\ Contiguous(PathTo(points, b))
  <1> DEFINE n == Len(points)
             a == points[n].at
             steps == Greatest(Abs(b[1] - a[1]), Abs(b[2] - a[2]))
             m == Least(steps, Greatest(MaxWaypoints - n, 0))
             new == [i \in 1 .. m |-> StepPoint(a, b, i)]
             all == points \o new
  <1>1. PathTo(points, b) = all
    BY DEF PathTo
  <1>2. n \in Nat \ {0} /\ a \in Positions /\ n <= MaxWaypoints
    <2>1. n \in Nat \ {0} /\ n <= MaxWaypoints
      BY DEF Contiguous
    <2>2. points[n] \in Waypoints
      BY <2>1
    <2> QED BY <2>1, <2>2 DEF Waypoints
  <1>3. steps \in Nat
    <2>1. b[1] - a[1] \in Int /\ b[2] - a[2] \in Int
      BY <1>2 DEF Positions
    <2> QED BY <2>1 DEF Greatest, Abs
  <1> HIDE DEF n, a, steps
  <1>4. m \in Nat /\ m <= steps /\ n + m <= MaxWaypoints
    BY <1>2, <1>3 DEF Least, Greatest
  <1> HIDE DEF m
  <1>5. ASSUME NEW i \in 1 .. m
        PROVE  /\ StepAt(a, b, 0) = a
               /\ StepPoint(a, b, i) \in Waypoints
               /\ StepPoint(a, b, i).at = StepAt(a, b, i)
               /\ StepPoint(a, b, i).dir # -1
               /\ StepPoint(a, b, i).at = Move(StepAt(a, b, i - 1), StepPoint(a, b, i).dir)
    <2>1. i \in Nat \ {0} /\ i <= Greatest(Abs(b[1] - a[1]), Abs(b[2] - a[2]))
      BY <1>3, <1>4, <1>5 DEF steps
    <2> QED BY <1>2, <2>1, StepPoints
  <1>6. new \in Seq(Waypoints) /\ Len(new) = m /\ \A i \in 1 .. m : new[i] = StepPoint(a, b, i)
    BY <1>4, <1>5
  <1> HIDE DEF new
  <1>7. /\ all \in Seq(Waypoints)
        /\ Len(all) = n + m
        /\ \A i \in 1 .. n : all[i] = points[i]
        /\ \A i \in 1 .. m : all[n + i] = StepPoint(a, b, i)
    BY <1>2, <1>4, <1>6 DEF n
  <1> HIDE DEF all
  <1>8. all # <<>> /\ all[1] = points[1]
    BY <1>2, <1>4, <1>7
  <1>9. ASSUME NEW i \in 2 .. Len(all)
        PROVE  /\ all[i].dir # -1
               /\ all[i].at = Move(all[i - 1].at, all[i].dir)
    <2>1. CASE i <= n
      <3>1. i \in 2 .. Len(points) /\ all[i] = points[i] /\ all[i - 1] = points[i - 1]
        BY <1>2, <1>7, <2>1 DEF n
      <3> QED BY <3>1 DEF Contiguous
    <2>2. CASE i = n + 1
      <3>1. /\ 1 \in 1 .. m /\ n \in 1 .. n
        BY <1>2, <1>4, <1>7, <2>2
      <3>2. all[i] = StepPoint(a, b, 1) /\ all[i - 1] = points[n]
        BY <1>2, <1>7, <2>2, <3>1
      <3>3. all[i - 1].at = a
        BY <3>2 DEF a
      <3>4. 1 - 1 = 0
        OBVIOUS
      <3> QED BY <1>5, <3>1, <3>2, <3>3, <3>4
    <2>3. CASE i > n + 1
      <3> DEFINE j == i - n
      <3>1. j \in 1 .. m /\ j - 1 \in 1 .. m /\ i = n + j /\ i - 1 = n + (j - 1)
        BY <1>2, <1>4, <1>7, <2>3
      <3>2. all[i] = StepPoint(a, b, j) /\ all[i - 1] = StepPoint(a, b, j - 1)
        BY <1>7, <3>1
      <3> HIDE DEF j
      <3> QED BY <1>5, <3>1, <3>2
    <2> QED BY <1>2, <1>7, <2>1, <2>2, <2>3
  <1>10. Contiguous(all)
    BY <1>4, <1>7, <1>9 DEF Contiguous
  <1> QED BY <1>1, <1>7, <1>8, <1>10

----------------------------------------------------------------------------
(* The inductive invariant *)

\* The handler of a packet has positions left to add until it comes to Finish.
PositionsLeft == call \in {"SetRunPath", "AddToPath"} => path # <<>>

\* If packets are undivided, the standing point of Reset is still the first waypoint,
\* and the player still there, when Finish takes it off.
StandingFirst == undivided /\ call # "none" => waypoints # <<>> /\ waypoints[1] = Standing

\* If packets are undivided, what the client has been told and what the tick under
\* way has still to tell it add up to the position of the player.
Announced ==
  undivided =>
    /\ phase = "process" => seen = pos /\ primary = -1 /\ secondary = -1 /\ ~placement
    /\ phase = "update" /\ ~placement =>
         /\ pos = Move(Move(seen, primary), secondary)
         /\ primary = -1 => secondary = -1
    /\ phase = "reset" => seen = pos

Inv ==
  /\ TypeOK /\ PositionsLeft
  /\ PathContiguous /\ StandingFirst /\ PathFromPosition
  /\ RegionFollows /\ Announced

\* The waypoints a tick takes off, and the directions it finds in them.
LEMMA TakenType ==
  ASSUME TypeOK
  PROVE  /\ Taken \in 0 .. 2 /\ Taken <= Len(waypoints)
         /\ WalkDirection \in -1 .. 7 /\ RunDirection \in -1 .. 7
         /\ Len(SubSeq(waypoints, Taken + 1, Len(waypoints))) = Len(waypoints) - Taken
         /\ SubSeq(waypoints, Taken + 1, Len(waypoints)) \in Seq(Waypoints)
         /\ \A i \in 1 .. Len(waypoints) - Taken :
              SubSeq(waypoints, Taken + 1, Len(waypoints))[i] = waypoints[Taken + i]
  <1>1. Len(waypoints) \in Nat /\ waypoints \in Seq(Waypoints)
    BY DEF TypeOK
  <1>2. Taken \in 0 .. 2 /\ Taken <= Len(waypoints)
    <2>1. ASSUME NEW n \in 1 .. 2, Taken = Least(Len(waypoints), n)
          PROVE  Taken \in 0 .. 2 /\ Taken <= Len(waypoints)
      <3>1. Least(Len(waypoints), n) \in 0 .. n /\ Least(Len(waypoints), n) <= Len(waypoints)
        BY <1>1 DEF Least
      <3> HIDE DEF Taken
      <3> QED BY <2>1, <3>1
    <2>2. Taken = Least(Len(waypoints), 2) \/ Taken = Least(Len(waypoints), 1)
      BY DEF Taken
    <2> QED BY <2>1, <2>2
  <1>3. ASSUME NEW i \in 1 .. Len(waypoints) PROVE waypoints[i].dir \in -1 .. 7
    <2>1. waypoints[i] \in Waypoints
      BY <1>1
    <2> QED BY <2>1 DEF Waypoints
  <1>4. WalkDirection \in -1 .. 7 /\ RunDirection \in -1 .. 7
    BY <1>1, <1>2, <1>3 DEF WalkDirection, RunDirection
  <1> HIDE DEF Taken
  <1> QED BY <1>1, <1>2, <1>4

\* The standing point of Reset is a waypoint, and a contiguous path on its own.
LEMMA StandingType ==
  ASSUME TypeOK
  PROVE  /\ <<Standing>> \in Seq(Waypoints) /\ <<Standing>> # <<>>
         /\ Contiguous(<<Standing>>) /\ <<Standing>>[1] = Standing
  <1>1. Standing \in Waypoints
    BY DEF TypeOK, Standing, Point, Waypoints
  <1> QED BY <1>1 DEF Contiguous

\* AddToPath finds a contiguous path, the standing point if there was none, and adds
\* the steps to the next position of the packet.
LEMMA AddToPathEffect ==
  ASSUME TypeOK, PositionsLeft, PathContiguous, AddToPath
  PROVE  /\ waypoints' \in Seq(Waypoints) /\ waypoints' # <<>>
         /\ waypoints'[1] = IF waypoints = <<>> THEN Standing ELSE waypoints[1]
         /\ Contiguous(waypoints')
         /\ path' \in Seq(Targets)
  <1> DEFINE points == IF waypoints = <<>> THEN <<Standing>> ELSE waypoints
  <1>1. points \in Seq(Waypoints) /\ points # <<>> /\ Contiguous(points)
    BY StandingType DEF TypeOK, PathContiguous, Contiguous
  <1>2. path # <<>> /\ path \in Seq(Targets)
    BY DEF AddToPath, PositionsLeft, TypeOK
  <1>3. Head(path) \in Positions /\ Tail(path) \in Seq(Targets)
    BY <1>2
  <1>4. waypoints' = PathTo(points, Head(path)) /\ path' = Tail(path)
    BY DEF AddToPath
  <1>5. points[1] = IF waypoints = <<>> THEN Standing ELSE waypoints[1]
    BY StandingType
  <1> HIDE DEF points
  <1> QED BY <1>1, <1>3, <1>4, <1>5, PathToContiguous

\* The types are kept.
LEMMA TypeStep ==
  TypeOK /\ PositionsLeft /\ PathContiguous /\ [Next]_vars => TypeOK' /\ PositionsLeft'
  <1> SUFFICES ASSUME TypeOK, PositionsLeft, PathContiguous, [Next]_vars
               PROVE  TypeOK' /\ PositionsLeft'
    OBVIOUS
  <1>1. ASSUME Reset PROVE TypeOK' /\ PositionsLeft'
    <2>1. PICK n \in 1 .. MaxTargets : path' \in [1 .. n -> Targets]
      BY <1>1 DEF Reset
    <2>2. path' \in Seq(Targets) /\ path' # <<>>
      BY <2>1
    <2> QED BY <1>1, <2>2, StandingType DEF Reset, TypeOK, PositionsLeft, viewVars
  <1>2. ASSUME NEW run \in BOOLEAN, SetRunPath(run) PROVE TypeOK' /\ PositionsLeft'
    BY <1>2 DEF SetRunPath, TypeOK, PositionsLeft, viewVars
  <1>3. ASSUME AddToPath PROVE TypeOK' /\ PositionsLeft'
    <2>1. runPath' \in BOOLEAN
      BY <1>3 DEF AddToPath
    <2>2. call' \in {"none", "SetRunPath", "AddToPath", "Finish"} /\ PositionsLeft'
      BY <1>3 DEF AddToPath, PositionsLeft
    <2> QED BY <1>3, <2>1, <2>2, AddToPathEffect DEF AddToPath, TypeOK, viewVars
  <1>4. ASSUME Finish PROVE TypeOK' /\ PositionsLeft'
    BY <1>4 DEF Finish, TypeOK, PositionsLeft, viewVars
  <1>5. ASSUME Process PROVE TypeOK' /\ PositionsLeft'
    <2>1. pos' \in Positions
      BY <1>5, TakenType, MoveType DEF Process, TypeOK
    <2>2. primary' \in -1 .. 7 /\ secondary' \in -1 .. 7
      BY <1>5, TakenType DEF Process, TypeOK
    <2>3. region' \in Positions /\ placement' \in BOOLEAN /\ seenRegion' \in Positions
      BY <1>5, <2>1, RegionType DEF Process, TypeOK
    <2>4. waypoints' \in Seq(Waypoints)
      BY <1>5, TakenType DEF Process
    <2> QED BY <1>5, <2>1, <2>2, <2>3, <2>4 DEF Process, TypeOK, PositionsLeft
  <1>6. ASSUME UpdateLocalPlayerMovement PROVE TypeOK' /\ PositionsLeft'
    <2>1. Placed \in Positions
      BY RegionType, RegionAssumption, SMTT(30) DEF Placed, Local, TypeOK, Positions
    <2>2. seen' \in Positions
      BY <1>6, <2>1, MoveType DEF UpdateLocalPlayerMovement, TypeOK
    <2> QED BY <1>6, <2>2 DEF UpdateLocalPlayerMovement, TypeOK, PositionsLeft, moveVars
  <1>7. ASSUME ResetPlayer PROVE TypeOK' /\ PositionsLeft'
    <2>1. placement' \in BOOLEAN
      BY <1>7 DEF ResetPlayer
    <2>2. primary' \in -1 .. 7 /\ secondary' \in -1 .. 7
      BY <1>7 DEF ResetPlayer
    <2> QED BY <1>7, <2>1, <2>2 DEF ResetPlayer, TypeOK, PositionsLeft
  <1>8. CASE UNCHANGED vars
    BY <1>8 DEF vars, TypeOK, PositionsLeft
  <1> QED BY <1>1, <1>2, <1>3, <1>4, <1>5, <1>6, <1>7, <1>8 DEF Next, HandlePacket, Tick

\* The path stays contiguous, whatever ticks fall between the calls that make it.
LEMMA PathStep ==
  TypeOK /\ PositionsLeft /\ PathContiguous /\ [Next]_vars => PathContiguous'
  <1> SUFFICES ASSUME TypeOK, PositionsLeft, PathContiguous, [Next]_vars
               PROVE  PathContiguous'
    OBVIOUS
  <1>1. ASSUME Contiguous(waypoints') PROVE PathContiguous'
    BY <1>1 DEF Contiguous, PathContiguous
  <1>2. ASSUME waypoints' = waypoints PROVE PathContiguous'
    BY <1>2 DEF PathContiguous
  <1>3. ASSUME NEW k \in Nat, k <= Len(waypoints), waypoints' \in Seq(Waypoints),
               Len(waypoints') = Len(waypoints) - k,
               \A i \in 1 .. Len(waypoints) - k : waypoints'[i] = waypoints[k + i]
        PROVE  PathContiguous'
    <2>1. Len(waypoints) \in Nat
      BY DEF TypeOK
    <2>2. Len(waypoints') <= MaxWaypoints
      BY <1>3, <2>1 DEF PathContiguous
    <2>3. ASSUME NEW i \in 2 .. Len(waypoints')
          PROVE  /\ waypoints'[i].dir # -1
                 /\ waypoints'[i].at = Move(waypoints'[i - 1].at, waypoints'[i].dir)
      <3>1. k + i \in 2 .. Len(waypoints) /\ k + (i - 1) = (k + i) - 1
        BY <1>3, <2>1
      <3>2. waypoints'[i] = waypoints[k + i] /\ waypoints'[i - 1] = waypoints[(k + i) - 1]
        BY <1>3, <2>1, <3>1, SMTT(30)
      <3> QED BY <3>1, <3>2 DEF PathContiguous
    <2> QED BY <2>2, <2>3 DEF PathContiguous
  <1>4. CASE Reset
    BY <1>1, <1>4, StandingType DEF Reset
  <1>5. ASSUME NEW run \in BOOLEAN, SetRunPath(run) PROVE PathContiguous'
    BY <1>2, <1>5 DEF SetRunPath
  <1>6. CASE AddToPath
    BY <1>1, <1>6, AddToPathEffect
  <1>7. CASE Finish
    <2>1. CASE waypoints = <<>>
      BY <1>2, <1>7, <2>1 DEF Finish
    <2>2. CASE waypoints # <<>>
      <3>1. waypoints' = Tail(waypoints) /\ waypoints \in Seq(Waypoints)
        BY <1>7, <2>2 DEF Finish, TypeOK
      <3>2. /\ waypoints' \in Seq(Waypoints) /\ 1 <= Len(waypoints)
            /\ Len(waypoints') = Len(waypoints) - 1
            /\ \A i \in 1 .. Len(waypoints) - 1 : waypoints'[i] = waypoints[1 + i]
        BY <2>2, <3>1
      <3> QED BY <1>3, <3>2
    <2> QED BY <2>1, <2>2
  <1>8. CASE Process
    <2>1. waypoints' = SubSeq(waypoints, Taken + 1, Len(waypoints))
      BY <1>8 DEF Process
    <2>2. Taken \in Nat
      BY TakenType
    <2> QED BY <1>3, <2>1, <2>2, TakenType
  <1>9. CASE UpdateLocalPlayerMovement
    BY <1>2, <1>9 DEF UpdateLocalPlayerMovement, moveVars
  <1>10. CASE ResetPlayer
    BY <1>2, <1>10 DEF ResetPlayer
  <1>11. CASE UNCHANGED vars
    BY <1>2, <1>11 DEF vars
  <1> QED
    BY <1>4, <1>5, <1>6, <1>7, <1>8, <1>9, <1>10, <1>11 DEF Next, HandlePacket, Tick

\* The map region follows the player.
LEMMA RegionStep == TypeOK /\ RegionFollows /\ [Next]_vars => RegionFollows'
  <1> SUFFICES ASSUME TypeOK, RegionFollows, [Next]_vars PROVE RegionFollows'
    OBVIOUS
  <1>1. CASE Process
    <2>1. pos' \in Positions
      BY <1>1, TakenType, MoveType DEF Process, TypeOK
    <2>2. CASE InRegion(pos', region)
      BY <1>1, <2>2 DEF Process, RegionFollows
    <2>3. CASE ~InRegion(pos', region)
      <3>1. region' = pos' /\ seenRegion' = RegionOf(pos')
        BY <1>1, <2>3 DEF Process
      <3>2. InRegion(pos', pos')
        BY <2>1, RegionAround
      <3> QED BY <3>1, <3>2 DEF RegionFollows
    <2> QED BY <2>2, <2>3
  <1>2. CASE UNCHANGED <<pos, region, seenRegion>>
    BY <1>2 DEF RegionFollows
  <1> QED
    BY <1>1, <1>2 DEF Next, HandlePacket, Tick, Reset, SetRunPath, AddToPath, Finish,
       UpdateLocalPlayerMovement, ResetPlayer, viewVars, moveVars, vars

\* If packets are undivided, a tick moves the player onto the last waypoint it takes
\* off; it runs only if it also walks, and does neither only if the path is empty.
LEMMA TickFollowsPath ==
  ASSUME TypeOK, PathContiguous, PathFromPosition, undivided, call = "none"
  PROVE  /\ Taken = 0 => waypoints = <<>> /\ WalkDirection = -1
         /\ Taken # 0 => /\ WalkDirection # -1
                         /\ Move(Move(pos, WalkDirection), RunDirection) = waypoints[Taken].at
         /\ WalkDirection = -1 => RunDirection = -1
  <1>1. Taken \in 0 .. 2 /\ Taken <= Len(waypoints) /\ waypoints \in Seq(Waypoints)
    BY TakenType DEF TypeOK
  <1>2. Len(waypoints) \in Nat /\ (waypoints = <<>> <=> Len(waypoints) = 0)
    BY <1>1
  <1>3. CASE Taken = 0
    <2>1. Len(waypoints) = 0
      <3>1. Taken = Least(Len(waypoints), 2) \/ Taken = Least(Len(waypoints), 1)
        BY DEF Taken
      <3>2. Least(Len(waypoints), 2) = 0 \/ Least(Len(waypoints), 1) = 0
        BY <1>3, <3>1
      <3> QED BY <1>2, <3>2 DEF Least
    <2> QED BY <1>2, <1>3, <2>1 DEF WalkDirection, RunDirection
  <1>4. CASE Taken = 1
    <2>1. waypoints # <<>>
      BY <1>1, <1>2, <1>4
    <2>2. WalkDirection = waypoints[1].dir /\ RunDirection = -1
      BY <1>4 DEF WalkDirection, RunDirection
    <2>3. WalkDirection # -1 /\ waypoints[1].at = Move(pos, WalkDirection)
      BY <2>1, <2>2 DEF PathFromPosition
    <2> QED BY <1>4, <2>2, <2>3 DEF Move
  <1>5. CASE Taken = 2
    <2>1. waypoints # <<>> /\ 2 \in 2 .. Len(waypoints)
      BY <1>1, <1>2, <1>5
    <2>2. WalkDirection = waypoints[1].dir /\ RunDirection = waypoints[2].dir
      BY <1>5 DEF WalkDirection, RunDirection
    <2>3. WalkDirection # -1 /\ waypoints[1].at = Move(pos, WalkDirection)
      BY <2>1, <2>2 DEF PathFromPosition
    <2>4. waypoints[2].at = Move(waypoints[2 - 1].at, RunDirection)
      BY <2>1, <2>2 DEF PathContiguous
    <2> QED BY <1>5, <2>2, <2>3, <2>4
  <1> QED BY <1>1, <1>3, <1>4, <1>5

\* If packets are undivided, the path of a packet starts where the player stands, and
\* the ticks that follow take off as much of it as the player has walked.
LEMMA StandingStep ==
  TypeOK /\ PositionsLeft /\ PathContiguous /\ StandingFirst /\ PathFromPosition /\ [Next]_vars
    => StandingFirst' /\ PathFromPosition'
  <1> SUFFICES ASSUME TypeOK, PositionsLeft, PathContiguous, StandingFirst, PathFromPosition,
                      [Next]_vars, undivided
               PROVE  StandingFirst' /\ PathFromPosition'
    BY DEF Next, vars, StandingFirst, PathFromPosition
  <1>1. CASE Reset
    BY <1>1, StandingType DEF Reset, StandingFirst, PathFromPosition, Standing
  <1>2. ASSUME NEW run \in BOOLEAN, SetRunPath(run) PROVE StandingFirst' /\ PathFromPosition'
    BY <1>2 DEF SetRunPath, StandingFirst, PathFromPosition, Standing
  <1>3. CASE AddToPath
    <2>1. waypoints # <<>> /\ waypoints[1] = Standing
      BY <1>3 DEF AddToPath, StandingFirst
    <2>2. call' # "none" /\ pos' = pos
      BY <1>3 DEF AddToPath
    <2> QED BY <1>3, <2>1, <2>2, AddToPathEffect DEF StandingFirst, PathFromPosition, Standing
  <1>4. CASE Finish
    <2>1. waypoints # <<>> /\ waypoints[1] = Standing /\ call' = "none" /\ pos' = pos
      BY <1>4 DEF Finish, StandingFirst
    <2>2. waypoints' = Tail(waypoints) /\ waypoints \in Seq(Waypoints)
      BY <1>4, <2>1 DEF Finish, TypeOK
    <2>3. ASSUME waypoints' # <<>>
          PROVE  waypoints'[1].dir # -1 /\ waypoints'[1].at = Move(pos', waypoints'[1].dir)
      <3>1. 2 \in 2 .. Len(waypoints) /\ waypoints'[1] = waypoints[2]
        BY <2>1, <2>2, <2>3
      <3>2. waypoints[2].dir # -1 /\ waypoints[2].at = Move(waypoints[2 - 1].at, waypoints[2].dir)
        BY <3>1 DEF PathContiguous
      <3>3. waypoints[2 - 1].at = pos
        BY <2>1 DEF Standing, Point
      <3> QED BY <2>1, <3>1, <3>2, <3>3
    <2> QED BY <2>1, <2>3 DEF StandingFirst, PathFromPosition
  <1>5. CASE Process
    <2>1. call = "none" /\ call' = "none"
      BY <1>5 DEF Process, Ticking
    <2>2. /\ waypoints' = SubSeq(waypoints, Taken + 1, Len(waypoints))
          /\ pos' = Move(Move(pos, WalkDirection), RunDirection)
      BY <1>5 DEF Process
    <2>3. ASSUME waypoints' # <<>>
          PROVE  waypoints'[1].dir # -1 /\ waypoints'[1].at = Move(pos', waypoints'[1].dir)
      <3>1. Taken \in 1 .. 2 /\ Len(waypoints') = Len(waypoints) - Taken
            /\ waypoints' \in Seq(Waypoints) /\ Len(waypoints) \in Nat
        <4>1. Taken = 0 => waypoints' = <<>>
          BY <2>1, <2>2, TickFollowsPath
        <4> QED BY <2>2, <2>3, <4>1, TakenType DEF TypeOK
      <3>2. Len(waypoints') \in Nat \ {0}
        BY <2>3, <3>1
      <3>3. Taken + 1 \in 2 .. Len(waypoints) /\ waypoints'[1] = waypoints[Taken + 1]
        BY <2>2, <3>1, <3>2, TakenType
      <3>4. /\ waypoints[Taken + 1].dir # -1
            /\ waypoints[Taken + 1].at = Move(waypoints[(Taken + 1) - 1].at, waypoints[Taken + 1].dir)
        BY <3>3 DEF PathContiguous
      <3>5. pos' = waypoints[Taken].at /\ (Taken + 1) - 1 = Taken
        BY <2>1, <2>2, <3>1, TickFollowsPath
      <3> QED BY <3>3, <3>4, <3>5
    <2> QED BY <2>1, <2>3 DEF StandingFirst, PathFromPosition
  <1>6. CASE UNCHANGED <<pos, waypoints, call>>
    BY <1>6 DEF StandingFirst, PathFromPosition, Standing
  <1> QED
    BY <1>1, <1>2, <1>3, <1>4, <1>5, <1>6 DEF Next, HandlePacket, Tick,
       UpdateLocalPlayerMovement, ResetPlayer, moveVars, vars

\* A placement tells the client the player's position: the coordinates relative to the
\* region, and the region the client was sent, make the position again.
LEMMA PlacedIsPosition ==
  ASSUME TypeOK, RegionFollows
  PROVE  Placed = pos
  <1> DEFINE r == RegionOf(region)
  <1>1. r[1] \in Int /\ r[2] \in Int
    BY RegionType DEF TypeOK, Positions
  <1>2. pos = <<pos[1], pos[2]>> /\ pos[1] \in Int /\ pos[2] \in Int
    BY DEF TypeOK, Positions
  <1>3. Placed = <<(pos[1] - Chunk * r[1]) + Chunk * r[1], (pos[2] - Chunk * r[2]) + Chunk * r[2]>>
    BY DEF Placed, Local, RegionFollows
  <1>4. Chunk * r[1] \in Int /\ Chunk * r[2] \in Int
    BY <1>1, RegionAssumption
  <1> HIDE DEF r
  <1> QED BY <1>2, <1>3, <1>4

\* What the client knows and what it has still to be told add up to the position.
LEMMA AnnouncedStep ==
  Inv /\ [Next]_vars => Announced'
  <1> SUFFICES ASSUME Inv, [Next]_vars, undivided PROVE Announced'
    BY DEF Next, vars, Announced
  <1> USE DEF Inv
  <1>1. CASE Process
    <2>1. /\ call = "none" /\ phase = "process" /\ phase' = "update" /\ seen' = seen
          /\ seen = pos /\ primary = -1 /\ secondary = -1
      BY <1>1 DEF Process, Ticking, Announced
    <2>2. pos' = Move(Move(pos, WalkDirection), RunDirection)
      BY <1>1 DEF Process
    <2>3. primary' = WalkDirection /\ secondary' = RunDirection
      BY <1>1, <2>1 DEF Process
    <2>4. WalkDirection = -1 => RunDirection = -1
      BY <2>1, TickFollowsPath
    <2> QED BY <2>1, <2>2, <2>3, <2>4 DEF Announced
  <1>2. CASE UpdateLocalPlayerMovement
    <2>1. /\ phase = "update" /\ phase' = "reset" /\ pos' = pos
          /\ seen' = IF placement THEN Placed
                     ELSE IF primary = -1 THEN seen
                     ELSE Move(Move(seen, primary), secondary)
      BY <1>2 DEF UpdateLocalPlayerMovement, Ticking, moveVars
    <2>2. CASE placement
      <3>1. seen' = pos
        BY <2>1, <2>2, PlacedIsPosition
      <3> QED BY <2>1, <3>1 DEF Announced
    <2>3. CASE ~placement
      <3>1. pos = Move(Move(seen, primary), secondary) /\ (primary = -1 => secondary = -1)
        BY <2>1, <2>3 DEF Announced
      <3>2. seen' = pos
        BY <2>1, <2>3, <3>1 DEF Move
      <3> QED BY <2>1, <3>2 DEF Announced
    <2> QED BY <2>2, <2>3
  <1>3. CASE ResetPlayer
    BY <1>3 DEF ResetPlayer, Ticking, Announced
  <1>4. CASE UNCHANGED <<pos, seen, primary, secondary, placement, phase>>
    BY <1>4 DEF Announced
  <1> QED
    BY <1>1, <1>2, <1>3, <1>4 DEF Next, HandlePacket, Tick, Reset, SetRunPath, AddToPath,
       Finish, viewVars, vars

\* The invariant holds when the player has logged in.
LEMMA InvInit == Init => Inv
  <1> SUFFICES ASSUME Init PROVE Inv
    OBVIOUS
  <1>1. TypeOK /\ PositionsLeft
    <2>1. runPath \in BOOLEAN /\ placement \in BOOLEAN
      BY DEF Init
    <2>2. primary \in -1 .. 7 /\ secondary \in -1 .. 7
      BY DEF Init
    <2>3. waypoints \in Seq(Waypoints) /\ path \in Seq(Targets)
      BY DEF Init
    <2> QED BY <2>1, <2>2, <2>3, RegionType DEF Init, TypeOK, PositionsLeft
  <1>2. PathContiguous /\ StandingFirst /\ PathFromPosition
    BY DEF Init, PathContiguous, StandingFirst, PathFromPosition
  <1>3. RegionFollows
    BY RegionAround DEF Init, RegionFollows
  <1>4. Announced
    BY DEF Init, Announced
  <1> QED BY <1>1, <1>2, <1>3, <1>4 DEF Inv

\* The invariant is inductive.
THEOREM Invariance == Spec => []Inv
  <1>1. Inv /\ [Next]_vars => Inv'
    BY TypeStep, PathStep, StandingStep, RegionStep, AnnouncedStep DEF Inv
  <1> QED BY <1>1, InvInit, PTL DEF Spec

\* Positions, directions, waypoints and the steps of the two threads stay in their
\* types, whatever tick falls between which calls of Client::HandlePacket.
THEOREM TypeCorrect == Spec => []TypeOK
  <1>1. Inv => TypeOK
    BY DEF Inv
  <1> QED BY <1>1, Invariance, PTL

\* For every interleaving of ticks and calls, the path is a chain of single steps and
\* keeps to the limit of AddStep (MovementHandler::AddToPath).
THEOREM PathsContiguous == Spec => []PathContiguous
  <1>1. Inv => PathContiguous
    BY DEF Inv
  <1> QED BY <1>1, Invariance, PTL

\* For every interleaving, the player is inside its map region, and the client has been
\* sent that region (MovementHandler::Process, Player::UpdateMapRegion).
THEOREM RegionsFollow == Spec => []RegionFollows
  <1>1. Inv => RegionFollows
    BY DEF Inv
  <1> QED BY <1>1, Invariance, PTL

\* If packets are undivided, the path left after any packet and any tick starts next to
\* the player (MovementHandler::Reset, Finish and Process).
THEOREM PathsFromPosition == Spec => []PathFromPosition
  <1>1. Inv => PathFromPosition
    BY DEF Inv
  <1> QED BY <1>1, Invariance, PTL

\* If packets are undivided, the client and the server agree on the player's position
\* after every tick (PlayerUpdating::UpdateLocalPlayerMovement, Player::Reset).
THEOREM ClientsInStep == Spec => []ClientInStep
  <1>1. Inv => ClientInStep
    BY DEF Inv, Announced, ClientInStep
  <1> QED BY <1>1, Invariance, PTL
=============================================================================
