-------------------------------- MODULE View --------------------------------
(***************************************************************************)
(* What players see of each other: PlayerUpdating over several players.    *)
(*                                                                         *)
(* The main thread runs World::Process: all players Process, then each     *)
(* player's UpdatePlayer, then all of them Reset.  The network thread      *)
(* registers and removes players between any two of these steps, and the   *)
(* tick meets players that are in m_Players while their Player::Login is   *)
(* still running; what it then does to their flags and keys, access by     *)
(* access, is the subject of Entry, and here the outcome is open.  A       *)
(* client keeps a copy of its player's local list and changes it by what   *)
(* the update packets say, entry by entry; it is not under src/ and is     *)
(* modelled from the packets.                                              *)
(*                                                                         *)
(* A member of Players is a Player object: a name that logs in again gets  *)
(* another one.  A direction is its displacement <<dx, dy>>, with Stand    *)
(* for -1; a turn of a player is the pair of directions in which           *)
(* MovementHandler::Process moves it.  Where they come from, and when one  *)
(* leaves the map region, is the subject of Movement.  Attribute blocks    *)
(* are reduced to the player's own appearance.                             *)
(***************************************************************************)
EXTENDS Integers, Sequences, SequencesExt

CONSTANTS
  Players,     \* Player objects
  MaxPlayers,  \* the slots of the World, 2048
  EndSlot,     \* the index that ends the list of new players, 2047
  MaxLocal,    \* the limit of a local list, 255
  Tiles,       \* bound: the positions players walk on
  Start,       \* where a player enters
  Elsewhere,   \* where a client takes its player to be before its placement
  Turns,       \* the pairs of directions in which a tick may move a player
  Behind,      \* how far back and ahead a player sees, 14 and 15
  Ahead,
  FieldSize    \* the values of a relative position's 5 bits in a packet, 32

Stand == <<0, 0>>
NoTurn == <<Stand, Stand>>

ASSUME PlayersAssumption ==
  MaxPlayers \in Nat \ {0} /\ EndSlot \in Nat /\ MaxLocal \in Nat \ {0}
ASSUME TilesAssumption ==
  Start \in Tiles /\ Tiles \subseteq Int \X Int /\ Elsewhere \in Int \X Int
ASSUME TurnsAssumption ==
  NoTurn \in Turns /\ Turns \subseteq (Int \X Int) \X (Int \X Int)
ASSUME SightAssumption ==
  /\ FieldSize \in Nat \ {0} /\ Behind \in Nat /\ Ahead \in Nat
  /\ 2 * Behind <= FieldSize /\ 2 * Ahead < FieldSize

VARIABLES
  world,     \* World::m_Players
  index,     \* Player::m_Index, -1 before the registration
  entering,  \* the player in the world whose Player::Login has not ended
  pos,       \* Player::m_Position
  steps,     \* Player::m_PrimaryDirection and m_SecondaryDirection
  flags,     \* Player::m_UpdateFlags
  local,     \* Player::m_LocalPlayers
  phase,     \* the next step of World::Process
  batch,     \* playerList of World::Process
  again,     \* the players playerList still has a second time
  todo,      \* the players of batch UpdatePlayer has still to be called for
  view,      \* the list a client keeps, by its player
  own,       \* where a client takes its own player to be
  lost,      \* why a player's client cannot read the packets any more, or "no"
  shown,     \* players whose client has been sent their own appearance
  missed,    \* history: players a loop over m_Players has missed
  slipped,   \* players that have moved otherwise than their directions say
  early,     \* players a tick has processed before the end of their Login
  blinked    \* players of this tick whose search for new players has missed some

registryVars == <<world, index, entering>>
playerVars == <<pos, steps, flags, local>>
tickVars == <<phase, batch, again, todo>>
clientVars == <<view, own, lost, shown>>
historyVars == <<missed, slipped, early, blinked>>
vars == <<world, index, entering, pos, steps, flags, local, phase, batch, again, todo,
          view, own, lost, shown, missed, slipped, early, blinked>>

Slots == 0 .. MaxPlayers - 1

\* UpdateFlag: the flags that decide what an update says; All sets both.
Flags == {"Appearance", "NeedsPlacement"}

\* A client loses its place in the stream if a packet it needs is not sent, if an
\* index ends the list of new players before its end, if the size of its list is
\* not the one in the packet, or if a packet is torn: with keys out of order, or
\* with attributes other than those it announces.
Losses == {"unsent", "ended", "size", "torn"}

Entries == [slot : Nat, pos : Int \X Int]

Init ==
  /\ world = {} /\ entering = {}
  /\ index = [p \in Players |-> -1]
  /\ pos = [p \in Players |-> Start]
  /\ steps = [p \in Players |-> NoTurn]
  /\ flags = [p \in Players |-> {}]
  /\ local = [p \in Players |-> <<>>]
  /\ phase = "process"
  /\ batch = {} /\ again = {} /\ todo = {}
  /\ view = [p \in Players |-> <<>>]
  /\ own = [p \in Players |-> Elsewhere]
  /\ lost = [p \in Players |-> "no"]
  /\ shown = {} /\ missed = {} /\ slipped = {} /\ early = {} /\ blinked = {}

----------------------------------------------------------------------------
(* The registry, as the network thread changes it *)

\* Mutant: the slots are counted from one.
FreeSlotsFromOne == (1 .. MaxPlayers) \ {index[p] : p \in world}

\* GetFreeIndex: the indices not occupied.
FreeSlots == Slots \ {index[p] : p \in world}

\* RegisterPlayer as far as the insertion: the lowest free slot and the entry in
\* m_Players.  With no free slot it does nothing.  The network thread is in no other
\* handler.
Insert(p) ==
  /\ entering = {}
  /\ index[p] = -1
  /\ FreeSlots # {}
  /\ index' = [index EXCEPT ![p] = CHOOSE i \in FreeSlots : \A j \in FreeSlots : i <= j]
  /\ world' = world \cup {p}
  /\ entering' = {p}
  /\ UNCHANGED <<playerVars, tickVars, clientVars, historyVars>>

\* Its last call, Player::Login, has set its flags: NeedsPlacement in UpdateMapRegion,
\* then UpdateFlag::All.
Login(p) ==
  /\ p \in entering
  /\ flags' = [flags EXCEPT ![p] = Flags]
  /\ entering' = entering \ {p}
  /\ UNCHANGED <<world, index, pos, steps, local, tickVars, clientVars, historyVars>>

\* RemovePlayer: the slot is free again and the entry is gone; the Player object
\* stays as long as a local list or the running tick holds it.
Logout(p) ==
  /\ entering = {}
  /\ p \in world
  /\ world' = world \ {p}
  /\ UNCHANGED <<index, entering, playerVars, tickVars, clientVars, historyVars>>

----------------------------------------------------------------------------
(* The tick *)

Plus(a, b) == <<a[1] + b[1], a[2] + b[2]>>
Minus(a, b) == <<a[1] - b[1], a[2] - b[2]>>

\* Where a turn leads from a.
Moved(a, turn) == Plus(Plus(a, turn[1]), turn[2])

\* The directions of a player after a turn: one that is -1 is not set.
Turned(s, turn) ==
  <<IF turn[1] = Stand THEN s[1] ELSE turn[1], IF turn[2] = Stand THEN s[2] ELSE turn[2]>>

\* What the clients are told of the directions: without a primary one, "No movement."
Told(s) == IF s[1] = Stand THEN Stand ELSE Plus(s[1], s[2])

\* The loop over m_Players, here over the given players, some of them repeated, each
\* with MovementHandler::Process: its turn, and a new map region if it leaves the old
\* one.  Before its Login has ended a player has no way to walk, but may get its
\* region here.  A turn whose first waypoint is the standing one moves the player
\* without a primary direction, and a second turn overwrites the first's directions:
\* such a player slips.
Process(players, repeated) ==
  /\ phase = "process"
  /\ \E first \in [players -> Turns], second \in [repeated -> Turns] :
       LET Second(p) == IF p \in repeated THEN second[p] ELSE NoTurn
           Stands(p) == first[p] = NoTurn /\ Second(p) = NoTurn
           Target(p) == Moved(Moved(pos[p], first[p]), Second(p))
       IN  /\ \A p \in players : Target(p) \in Tiles
           /\ \A p \in players \cap entering : Stands(p)
           /\ pos' = [p \in Players |-> IF p \in players THEN Target(p) ELSE pos[p]]
           /\ steps' = [p \in Players |->
                IF p \in players THEN Turned(Turned(steps[p], first[p]), Second(p)) ELSE steps[p]]
           /\ \E leaving \in SUBSET {p \in players : p \in entering \/ ~Stands(p)} :
                flags' = [p \in Players |->
                  IF p \in leaving THEN flags[p] \cup {"NeedsPlacement"} ELSE flags[p]]
           /\ slipped' = slipped \cup repeated
                \cup {p \in players : first[p][1] = Stand /\ first[p][2] # Stand}
  /\ batch' = players
  /\ again' = repeated
  /\ todo' = players
  /\ phase' = "update"
  /\ missed' = missed \cup (world \ players)
  /\ early' = early \cup (players \cap entering)
  /\ UNCHANGED <<registryVars, local, clientVars, blinked>>

ProcessAll == Process(world, {})

\* An insertion that rehashes m_Players links its nodes in another order: the loop,
\* standing at one of them, may miss players that now come before it and come again
\* to players that now come after it.  A registration that overlaps the loop is taken
\* to be under way still at its end.
ProcessRehashed ==
  /\ entering # {}
  /\ \E players \in SUBSET world : \E repeated \in SUBSET players :
       /\ players # world \/ repeated # {}
       /\ Process(players, repeated)

\* Mutant: a player sees one tile further ahead.
SeesFurther(p, q) ==
  \A i \in {1, 2} : Minus(pos[q], pos[p])[i] \in -Behind .. Ahead + 1

\* IsViewableFrom: whether p sees q.
Sees(p, q) ==
  \A i \in {1, 2} : Minus(pos[q], pos[p])[i] \in -Behind .. Ahead

\* Mutant: whoever has walked out of sight stays in the list.
KeepsUnseen(p, q) == "NeedsPlacement" \notin flags[q]

\* The entries of a local list that stay in it.
Keeps(p, q) == Sees(p, q) /\ "NeedsPlacement" \notin flags[q]

\* The places in I of a list of n entries, in their order: what is left of the list
\* when a loop over it has erased the others.
Places(n, I) ==
  LET places[k \in 0 .. n] ==
        IF k = 0 THEN <<>>
        ELSE IF k \in I THEN Append(places[k - 1], k)
        ELSE places[k - 1]
  IN  places[n]

\* The loop over m_LocalPlayers, which erases the players that do not stay.
Kept(p) ==
  LET places == Places(Len(local[p]), {i \in 1 .. Len(local[p]) : Keeps(p, local[p][i])})
  IN  [k \in 1 .. Len(places) |-> local[p][places[k]]]

\* Mutant: the test whether a player is listed already is missing.
UnlistedAgain(p, listed) == {q \in world \ {p} : Sees(p, q)}

\* The players the loop over m_Players finds to add to a list.
Unlisted(p, listed) == {q \in world \ {p} : q \notin Range(listed) /\ Sees(p, q)}

\* WriteBits and the client's reading of it, for the bits of a relative position.
Field(n) == n % FieldSize
FieldValue(f) == IF 2 * f < FieldSize THEN f ELSE f - FieldSize

\* AddPlayer: the slot and the position relative to p.
AddPlayer(p, q) ==
  LET d == Minus(pos[q], pos[p])
  IN  [slot |-> index[q], x |-> Field(d[1]), y |-> Field(d[2])]

\* UpdateOtherPlayerMovement for the entries that stay, a removal for the others.
Movements(p) ==
  [i \in 1 .. Len(local[p]) |->
     IF Keeps(p, local[p][i])
     THEN [remove |-> FALSE, by |-> Told(steps[local[p][i]])]
     ELSE [remove |-> TRUE, by |-> Stand]]

\* The client's side: entries are matched with movements by their place.
EntriesAfter(entries, movements) ==
  LET places == Places(Len(movements), {i \in 1 .. Len(movements) : ~movements[i].remove})
  IN  [k \in 1 .. Len(places) |->
         [entries[places[k]] EXCEPT !.pos = Plus(@, movements[places[k]].by)]]

EntriesAdded(at, additions) ==
  [i \in 1 .. Len(additions) |->
     [slot |-> additions[i].slot,
      pos |-> Plus(at, <<FieldValue(additions[i].x), FieldValue(additions[i].y)>>)]]

\* UpdateLocalPlayerMovement as its client reads it: a placement, or the directions.
OwnAfter(p) ==
  IF "NeedsPlacement" \in flags[p] THEN pos[p] ELSE Plus(own[p], Told(steps[p]))

\* A client that has lost its place in the stream shows nothing any more.
Loses(p, why) ==
  /\ lost' = [lost EXCEPT ![p] = IF @ = "no" THEN why ELSE @]
  /\ view' = [view EXCEPT ![p] = <<>>]
  /\ UNCHANGED <<own, shown>>

\* The packet may be torn: Login and the tick have both sent packets to p, or Login
\* sets the flags of somebody in the list while the tick reads them.
MayTear(p) == p \in early \/ Range(Kept(p)) \cap entering # {}

\* An update packet: the player's movement, the size of the list in the 8 bits that
\* hold MaxLocal, a movement for each entry, the additions up to the index that ends
\* them, and the player's own block.
Receive(p, movements, additions) ==
  LET sizeRight == Len(local[p]) % (MaxLocal + 1) = Len(view[p])
      ended == \E i \in 1 .. Len(additions) : additions[i].slot = EndSlot
  IN  \/ /\ lost[p] = "no" /\ sizeRight /\ ~ended
         /\ own' = [own EXCEPT ![p] = OwnAfter(p)]
         /\ view' = [view EXCEPT ![p] =
              EntriesAfter(@, movements) \o EntriesAdded(OwnAfter(p), additions)]
         /\ shown' = IF "Appearance" \in flags[p] THEN shown \cup {p} ELSE shown
         /\ UNCHANGED lost
      \/ lost[p] = "no" /\ sizeRight /\ ended /\ Loses(p, "ended")
      \/ lost[p] = "no" /\ ~sizeRight /\ Loses(p, "size")
      \/ lost[p] = "no" /\ MayTear(p) /\ Loses(p, "torn")
      \/ lost[p] # "no" /\ UNCHANGED clientVars

\* Update comes to the next occurrence of p in playerList.
NextUpdate(p) ==
  /\ phase = "update" /\ p \in todo
  /\ \/ p \in again /\ again' = again \ {p} /\ UNCHANGED todo
     \/ p \notin again /\ todo' = todo \ {p} /\ UNCHANGED again
  /\ UNCHANGED <<registryVars, pos, steps, flags, phase, batch, missed, slipped, early>>

\* UpdatePlayer with room in the list, its loop over m_Players coming to the given
\* players to add: in any order, m_Players being unordered, up to the limit.
AddAndSend(p, others) ==
  LET kept == Kept(p)
  IN  /\ NextUpdate(p)
      /\ Len(kept) < MaxLocal
      /\ \E found \in SetToSeqs(others) :
           LET added == SubSeq(found, 1, Min({MaxLocal - Len(kept), Len(found)}))
           IN  /\ local' = [local EXCEPT ![p] = kept \o added]
               /\ Receive(p, Movements(p), [i \in 1 .. Len(added) |-> AddPlayer(p, added[i])])

UpdatePlayer(p) ==
  /\ AddAndSend(p, Unlisted(p, Kept(p)))
  /\ UNCHANGED blinked

\* A rehash under its loop makes it miss players; one it comes to again is in the
\* list by then.
UpdatePlayerRehashed(p) ==
  /\ entering # {}
  /\ \E others \in SUBSET Unlisted(p, Kept(p)) :
       /\ others # Unlisted(p, Kept(p))
       /\ AddAndSend(p, others)
  /\ blinked' = blinked \cup {p}

\* The early return of UpdatePlayer with a full list: removals have been made and
\* the packet's opcode has taken a key of the cipher, but nothing is sent, so
\* the next packet is read with the wrong key.
UpdatePlayerFull(p) ==
  /\ NextUpdate(p)
  /\ Len(Kept(p)) >= MaxLocal
  /\ local' = [local EXCEPT ![p] = Kept(p)]
  /\ Loses(p, "unsent")
  /\ UNCHANGED blinked

\* Mutant: whoever is in the world is reset, not only the players of this tick.
ResetWorld ==
  /\ phase = "update" /\ todo = {}
  /\ steps' = [p \in Players |-> IF p \in world THEN NoTurn ELSE steps[p]]
  /\ flags' = [p \in Players |-> IF p \in world THEN {} ELSE flags[p]]
  /\ batch' = {} /\ blinked' = {}
  /\ phase' = "process"
  /\ UNCHANGED <<registryVars, pos, local, again, todo, clientVars, missed, slipped, early>>

\* The last loop of World::Process: Player::Reset.
ResetAll ==
  /\ phase = "update" /\ todo = {}
  /\ steps' = [p \in Players |-> IF p \in batch THEN NoTurn ELSE steps[p]]
  /\ flags' = [p \in Players |-> IF p \in batch THEN {} ELSE flags[p]]
  /\ batch' = {} /\ blinked' = {}
  /\ phase' = "process"
  /\ UNCHANGED <<registryVars, pos, local, again, todo, clientVars, missed, slipped, early>>

Tick ==
  \/ ProcessAll \/ ProcessRehashed
  \/ \E p \in Players : UpdatePlayer(p) \/ UpdatePlayerRehashed(p) \/ UpdatePlayerFull(p)
  \/ ResetAll

Registry == \E p \in Players : Insert(p) \/ Login(p) \/ Logout(p)

Next == Tick \/ Registry

Spec == Init /\ [][Next]_vars

----------------------------------------------------------------------------
(* Properties *)

\* The types; every index GetFreeIndex gives is a slot.
TypeOK ==
  /\ world \subseteq Players /\ entering \subseteq world
  /\ index \in [Players -> {-1} \cup Slots]
  /\ pos \in [Players -> Tiles]
  /\ steps \in [Players -> (Int \X Int) \X (Int \X Int)]
  /\ flags \in [Players -> SUBSET Flags]
  /\ local \in [Players -> Seq(Players)]
  /\ phase \in {"process", "update"}
  /\ batch \subseteq Players /\ todo \subseteq batch /\ again \subseteq todo
  /\ view \in [Players -> Seq(Entries)]
  /\ own \in [Players -> Int \X Int]
  /\ lost \in [Players -> {"no"} \cup Losses]
  /\ shown \subseteq Players /\ missed \subseteq Players /\ slipped \subseteq Players
  /\ early \subseteq Players /\ blinked \subseteq batch

\* The players of this tick whose updates have been made.
Updated == IF phase = "update" THEN batch \ todo ELSE world

\* The players whose clients do not know where things are: a tick has missed them
\* or processed them before the end of their Login, or they have slipped.
Astray == missed \cup slipped \cup early

\* What a client that reads its packets shows agrees with the server's list for it,
\* entry by entry, in every interleaving of registrations and ticks: each entry has
\* the slot of the player it stands for and, once the client has its update, the very
\* position of that player, although the packets carry only movements and, once, a
\* position relative to the viewer in a few bits.  Positions are claimed for viewers
\* that are not astray and players that have not slipped: the others are shown where
\* they are not.  No packet is ever unreadable because of the size of the list.
ViewInStep ==
  \A p \in Players :
    /\ lost[p] # "size"
    /\ lost[p] = "no" =>
         /\ Len(view[p]) = Len(local[p])
         /\ \A i \in 1 .. Len(local[p]) :
              /\ view[p][i].slot = index[local[p][i]]
              /\ p \in (Updated \cap world) \ Astray /\ local[p][i] \notin slipped =>
                   view[p][i].pos = pos[local[p][i]]

\* A local list never holds a player twice, nor its own player, nor more than
\* the limit: the client would show them twice, or the 8 bits of its size overflow.
ListsProper ==
  \A p \in Players :
    /\ Len(local[p]) <= MaxLocal
    /\ p \notin Range(local[p])
    /\ \A i, j \in 1 .. Len(local[p]) : local[p][i] = local[p][j] => i = j

\* After its update a player sees nobody out of sight and, unless its list is full or
\* a rehash has disturbed its search, every player of the tick within sight who is
\* still online.  Who is not of the tick, having been missed by it, is left out.
ViewComplete ==
  phase = "update" =>
    \A p \in batch \ todo :
      /\ \A q \in Range(local[p]) : Sees(p, q)
      /\ Len(local[p]) < MaxLocal /\ p \notin blinked =>
           \A q \in (batch \cap world) \ {p} : Sees(p, q) => q \in Range(local[p])

\* A player whose Login has ended, and that no tick has processed before, does not lose
\* its appearance: once the flag that Login has set is gone, the player's own client
\* has been sent the appearance, or cannot read packets any more.
OwnAppearanceSent ==
  \A p \in world \ (entering \cup early) :
    "Appearance" \notin flags[p] => p \in shown \/ lost[p] # "no"
=============================================================================
