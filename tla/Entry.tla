------------------------------- MODULE Entry --------------------------------
(***************************************************************************)
(* A player enters the world while the world ticks.                        *)
(*                                                                         *)
(* The network thread, in World::RegisterPlayer, puts the player into      *)
(* m_Players and only then calls Player::Login, which sets update flags    *)
(* and sends packets; the main thread finds the player in m_Players and    *)
(* does the same to it.  Both take the keys of one cipher and both read    *)
(* and write m_UpdateFlags, without a lock: the unit of interleaving is    *)
(* one such access.  The player stands still.                              *)
(*                                                                         *)
(* A key is named by its key set and its place in it: what ISAACCipher     *)
(* computes is left out, but not when it makes a new key set and which of  *)
(* its keys are used.  Key sets are counted modulo KeySets, so that more   *)
(* keys are told apart than are ever taken and not yet posted.             *)
(*                                                                         *)
(* The client is external: it reads the packets in the order in which they *)
(* are posted, the n-th of them with the n-th key of the same seed.        *)
(***************************************************************************)
EXTENDS Integers, Sequences

CONSTANTS
  Interfaces,  \* the packets of Login after the map region, 14
  Size,        \* the keys of a key set, 256
  KeySets      \* bound: key sets are told apart modulo this

ASSUME InterfacesAssumption == Interfaces \in Nat \ {0}
ASSUME KeysAssumption ==
  Size \in Nat \ {0} /\ KeySets \in Nat \ {0} /\ Size * KeySets > 2

VARIABLES
  undivided,   \* whether RegisterPlayer runs without a step of the tick in between
  todo,        \* the steps each thread has still to make for the player
  registered,  \* whether the player is in m_Players
  regionSet,   \* whether Player::m_CurrentRegion is around the player
  flags,       \* Player::m_UpdateFlags
  set,         \* the key set of Client::m_Encryptor
  idx,         \* its m_KeyArrayIdx
  held,        \* the key of the packet each thread is building
  required,    \* updateRequired of UpdateLocalPlayerMovement
  movement,    \* the movement part of the update being built
  block,       \* its attribute block
  received,    \* the number of packets the client has read
  map,         \* whether the client has been sent the map region
  shown,       \* whether it has been sent its player's appearance
  faults,      \* what the client has found wrong with the packets
  late         \* whether Login set its flags too late for the update under way

playerVars == <<registered, regionSet, flags>>
keyVars == <<set, idx, held>>
buildVars == <<required, movement, block>>
clientVars == <<received, map, shown, faults>>
vars == <<undivided, todo, registered, regionSet, flags, set, idx, held, required,
          movement, block, received, map, shown, faults, late>>

Threads == {"network", "main"}

\* UpdateFlag: the flags that decide what an update says; All sets both.
Flags == {"Appearance", "NeedsPlacement"}

Movements == [placed : BOOLEAN, update : BOOLEAN]

\* The player's block: whether there is one, whether its mask has the appearance,
\* whether the appearance is in it.
Blocks == [written : BOOLEAN, masked : BOOLEAN, appended : BOOLEAN]
NoBlock == [written |-> FALSE, masked |-> FALSE, appended |-> FALSE]

Keys == (0 .. KeySets - 1) \X (0 .. Size - 1)

\* What a client may find wrong: a packet not encoded with the next key; attributes
\* that the movement or the mask announces and that are missing; a block that the
\* movement, or an appearance that the mask does not announce; a placement in an
\* unknown map.
Faults == {"key", "missing", "unannounced", "unmasked", "placement"}

\* UpdateMapRegion: the region, the flag, and SendMapRegion, which takes a key and
\* then posts.
RegionSteps == <<"region", "placement", "key", "sendMap">>

\* RegisterPlayer from the insertion on, with Player::Login.
LoginSteps ==
  <<"insert">> \o RegionSteps \o <<"all">>
    \o [i \in 1 .. 2 * Interfaces |-> IF i % 2 = 1 THEN "key" ELSE "sendInterface"]

\* Mutant: the players are reset before they are updated.
UpdateStepsResetFirst ==
  <<"reset", "key", "required", "movement", "state", "mask", "appearance", "sendUpdate">>

\* UpdatePlayer as far as it is about the player itself, and Player::Reset.
UpdateSteps ==
  <<"key", "required", "movement", "state", "mask", "appearance", "sendUpdate", "reset">>

\* The constructor of a cipher leaves its index past the end of the first key set.
Init ==
  /\ undivided \in BOOLEAN
  /\ todo = [t \in Threads |-> IF t = "network" THEN LoginSteps ELSE <<>>]
  /\ registered = FALSE /\ regionSet = FALSE /\ flags = {}
  /\ set = 0 /\ idx = Size /\ held = [t \in Threads |-> <<0, 0>>]
  /\ required = FALSE /\ movement = [placed |-> FALSE, update |-> FALSE] /\ block = NoBlock
  /\ received = 0 /\ map = FALSE /\ shown = FALSE /\ faults = {} /\ late = FALSE

\* With an undivided RegisterPlayer the tick waits for its end.
MayRun(t) ==
  t = "main" /\ undivided => todo["network"] \in {<<>>, LoginSteps}

\* The update under way no longer takes in an appearance that is asked for now, but
\* its Reset is still to come: the mask has been read, or there is no block.
PastReading ==
  /\ todo["main"] # <<>>
  /\ \/ Head(todo["main"]) \in {"appearance", "sendUpdate", "reset"}
     \/ Head(todo["main"]) = "mask" /\ ~block.written

Steps(t, step) ==
  /\ todo[t] # <<>> /\ Head(todo[t]) = step
  /\ MayRun(t)
  /\ todo' = [todo EXCEPT ![t] = Tail(@)]
  /\ late' = (late \/ (step = "all" /\ PastReading))
  /\ UNCHANGED undivided

----------------------------------------------------------------------------
(* Steps of both threads *)

SetRegion(t) ==
  /\ Steps(t, "region")
  /\ regionSet' = TRUE
  /\ UNCHANGED <<registered, flags, keyVars, buildVars, clientVars>>

SetPlacement(t) ==
  /\ Steps(t, "placement")
  /\ flags' = flags \cup {"NeedsPlacement"}
  /\ UNCHANGED <<registered, regionSet, keyVars, buildVars, clientVars>>

\* Mutant: the new index is past the end, as the constructor leaves it.
IndexAfterWrapPastEnd == Size

\* The index GetNextKey sets for a new key set, 255.
IndexAfterWrap == Size - 1

\* WriteHeader: GetNextKey, which lowers the index and makes a new key set when
\* none is left.
TakeKey(t) ==
  /\ Steps(t, "key")
  /\ \/ idx # 0 /\ idx' = idx - 1 /\ UNCHANGED set
     \/ idx = 0 /\ idx' = IndexAfterWrap /\ set' = (set + 1) % KeySets
  /\ held' = [held EXCEPT ![t] = <<set', idx'>>]
  /\ UNCHANGED <<playerVars, buildVars, clientVars>>

\* The n-th key, counted from zero: key sets are used up one after the other, each
\* from its last key to its first.
KeyAt(n) == <<n \div Size, Size - 1 - (n % Size)>>

\* The client reads the packet thread t posts; wrong are the faults in what it says.
Posts(t, wrong) ==
  /\ received' = (received + 1) % (Size * KeySets)
  /\ faults' = faults \cup wrong \cup (IF held[t] = KeyAt(received) THEN {} ELSE {"key"})
  /\ UNCHANGED <<playerVars, keyVars, buildVars>>

SendMapRegion(t) ==
  /\ Steps(t, "sendMap")
  /\ Posts(t, {})
  /\ map' = TRUE
  /\ UNCHANGED shown

----------------------------------------------------------------------------
(* The network thread: RegisterPlayer *)

Insert ==
  /\ Steps("network", "insert")
  /\ registered' = TRUE
  /\ UNCHANGED <<regionSet, flags, keyVars, buildVars, clientVars>>

\* Mutant: Login asks for the placement only.
SetPlacementOnly ==
  /\ Steps("network", "all")
  /\ flags' = flags \cup {"NeedsPlacement"}
  /\ UNCHANGED <<registered, regionSet, keyVars, buildVars, clientVars>>

SetAll ==
  /\ Steps("network", "all")
  /\ flags' = Flags
  /\ UNCHANGED <<registered, regionSet, keyVars, buildVars, clientVars>>

\* SendSidebarInterface and SendPlayerMessage.
SendInterface ==
  /\ Steps("network", "sendInterface")
  /\ Posts("network", {})
  /\ UNCHANGED <<map, shown>>

----------------------------------------------------------------------------
(* The main thread: World::Process *)

\* MovementHandler::Process: the region a new Player has is far from its position.
Process ==
  /\ registered /\ todo["main"] = <<>> /\ MayRun("main")
  /\ todo' = [todo EXCEPT !["main"] = (IF regionSet THEN <<>> ELSE RegionSteps) \o UpdateSteps]
  /\ UNCHANGED <<undivided, late, playerVars, keyVars, buildVars, clientVars>>

\* UpdateLocalPlayerMovement, its first read of the flags.
ReadRequired ==
  /\ Steps("main", "required")
  /\ required' = (flags # {})
  /\ UNCHANGED <<playerVars, keyVars, movement, block, clientVars>>

\* Its second read.  A placement always says that attributes follow: the argument
\* is the address of updateRequired.
UpdateLocalPlayerMovement ==
  /\ Steps("main", "movement")
  /\ movement' = IF "NeedsPlacement" \in flags
                 THEN [placed |-> TRUE, update |-> TRUE]
                 ELSE [placed |-> FALSE, update |-> required]
  /\ UNCHANGED <<playerVars, keyVars, required, block, clientVars>>

\* Mutants: a block is written always; a block is written for a new appearance only.
NeedsUpdateAlways ==
  /\ Steps("main", "state")
  /\ block' = [NoBlock EXCEPT !.written = TRUE]
  /\ UNCHANGED <<playerVars, keyVars, required, movement, clientVars>>

NeedsUpdateOnAppearance ==
  /\ Steps("main", "state")
  /\ block' = [NoBlock EXCEPT !.written = "Appearance" \in flags]
  /\ UNCHANGED <<playerVars, keyVars, required, movement, clientVars>>

\* The third read, in UpdatePlayer: whether UpdateState is called.
NeedsUpdate ==
  /\ Steps("main", "state")
  /\ block' = [NoBlock EXCEPT !.written = (flags # {})]
  /\ UNCHANGED <<playerVars, keyVars, required, movement, clientVars>>

\* The fourth, in UpdateState, for the mask.
WriteMask ==
  /\ Steps("main", "mask")
  /\ block' = [block EXCEPT !.masked = block.written /\ "Appearance" \in flags]
  /\ UNCHANGED <<playerVars, keyVars, required, movement, clientVars>>

\* The fifth, for what follows the mask.
AppendAppearance ==
  /\ Steps("main", "appearance")
  /\ block' = [block EXCEPT !.appended = block.written /\ "Appearance" \in flags]
  /\ UNCHANGED <<playerVars, keyVars, required, movement, clientVars>>

SendUpdate ==
  /\ Steps("main", "sendUpdate")
  /\ Posts("main",
       {f \in Faults :
          \/ f = "missing" /\ movement.update /\ ~block.written
          \/ f = "missing" /\ block.masked /\ ~block.appended
          \/ f = "unannounced" /\ ~movement.update /\ block.written
          \/ f = "unmasked" /\ ~block.masked /\ block.appended
          \/ f = "placement" /\ movement.placed /\ ~map})
  /\ shown' = (shown \/ (block.masked /\ block.appended))
  /\ UNCHANGED map

Reset ==
  /\ Steps("main", "reset")
  /\ flags' = {}
  /\ UNCHANGED <<registered, regionSet, keyVars, buildVars, clientVars>>

Login ==
  \/ Insert
  \/ SetAll
  \/ SendInterface
  \/ SetRegion("network") \/ SetPlacement("network") \/ TakeKey("network")
  \/ SendMapRegion("network")

Tick ==
  \/ Process
  \/ SetRegion("main") \/ SetPlacement("main") \/ TakeKey("main") \/ SendMapRegion("main")
  \/ ReadRequired
  \/ UpdateLocalPlayerMovement
  \/ NeedsUpdate \/ WriteMask \/ AppendAppearance
  \/ SendUpdate
  \/ Reset

Next == Login \/ Tick

Spec == Init /\ [][Next]_vars

\* A handler that has begun ends, and the main thread ticks for ever.
FairSpec == Spec /\ WF_vars(Login) /\ WF_vars(Tick)

----------------------------------------------------------------------------
(* Properties *)

\* The steps of the two threads.
StepNames ==
  {"insert", "region", "placement", "key", "sendMap", "all", "sendInterface",
   "required", "movement", "state", "mask", "appearance", "sendUpdate", "reset"}

\* The types; every key taken is one of a key set.
TypeOK ==
  /\ undivided \in BOOLEAN /\ todo \in [Threads -> Seq(StepNames)]
  /\ registered \in BOOLEAN /\ regionSet \in BOOLEAN /\ flags \subseteq Flags
  /\ set \in 0 .. KeySets - 1 /\ idx \in 0 .. Size /\ held \in [Threads -> Keys]
  /\ required \in BOOLEAN /\ movement \in Movements /\ block \in Blocks
  /\ received \in 0 .. Size * KeySets - 1 /\ map \in BOOLEAN /\ shown \in BOOLEAN
  /\ faults \subseteq Faults /\ late \in BOOLEAN

\* With RegisterPlayer undivided every packet is read with the key it was
\* encoded with, also where the cipher goes from one key set to the next,
\* announces its attributes exactly, and places the player only in a map region
\* that has been sent before.
PacketsReadable == undivided => faults = {}

\* However the threads interleave, Player::Reset clears the flags Login has set only
\* after the player's appearance has been sent, unless Login set them between the
\* last read of them that still counted and that Reset.  All other ticks, the ones
\* that found the player before Login or overlap the rest of it, keep them.
LoginAnnounced == Len(todo["network"]) <= 2 * Interfaces /\ flags = {} => shown \/ late

\* A player is shown its own appearance in the end, whatever ticks overlap its login,
\* unless Login set its flags too late for the update under way.
AppearanceInTheEnd == <>(shown \/ late)

\* However the threads interleave, attributes that the movement part of a packet or
\* the mask of its block announces follow, although the flags are read again for
\* each part of the packet.
AttributesFollow == "missing" \notin faults
=============================================================================
