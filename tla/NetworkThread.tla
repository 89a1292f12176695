--------------------------- MODULE NetworkThread ---------------------------
(***************************************************************************)
(* The connections of the server and the players they register.            *)
(*                                                                         *)
(* One network thread runs every asio handler (Server.cpp, Client.cpp,     *)
(* LoginHandler.cpp) and changes the World's registry; the main thread     *)
(* runs the game tick, which posts packets to the clients.  The unit of    *)
(* interleaving is the handler: the network thread runs one handler at a   *)
(* time, a client's handlers in the FIFO order of its strand, the handlers *)
(* of different clients and the steps of the tick in any order.            *)
(*                                                                         *)
(* A Client object serves one connection and logs at most one Player in,   *)
(* so the Player object created by client c is named c as well.            *)
(***************************************************************************)
EXTENDS Integers, Sequences

CONSTANTS
  Clients,     \* the Client objects the acceptor may create
  Names,       \* the usernames the peers log in with
  NoClient,    \* the null pointer
  NoName,      \* the empty username of a client that has not logged in
  MaxPlayers,  \* MAX_PLAYERS
  MaxRate,     \* MAX_PACKETS_PER_SECOND
  MaxBacklog   \* bound: no read completes for a client with this many handlers
               \* or this many buffers waiting, and no update is posted for one
               \* with this many of the two together

ASSUME NoClientAssumption == NoClient \notin Clients
ASSUME NoNameAssumption == NoName \notin Names
ASSUME BoundsAssumption ==
  MaxPlayers \in Nat \ {0} /\ MaxRate \in Nat /\ MaxBacklog \in Nat

\* What the server sends: the session key, the login responses, the burst of
\* packets of Player::Login, the map region and the player update of a tick.
Messages == {"KEY", "OK", "RECONNECT", "ONLINE", "WELCOME", "UPDATE"}

\* What waits on a strand: posted Sends (the message itself), the posted
\* lambda of RequestDisconnect, completions of asynchronous reads and writes.
Handlers == Messages \cup
  {"requestDisconnect", "read", "readError", "written", "writeError"}

Stages == {"NONE", "CONNECTED", "LOGGING_IN", "LOGGED_IN", "LOGGED_OUT"}

Slots == 0 .. MaxPlayers - 1

VARIABLES
  sessions,      \* Server::m_Sessions, as the set of its keys
  stage,         \* Client::m_Stage, "NONE" before the connection is accepted
  username,      \* Client::m_Username
  hasPlayer,     \* Client::m_Player has been set (it may have expired since)
  disconnected,  \* Client::m_Disconnected
  rate,          \* Client::m_PacketsThisSecond
  readArmed,     \* an async_read_some is outstanding
  strand,        \* the handlers queued on Client::m_Strand, oldest first
  writeQueue,    \* Client::m_WriteQueue
  writing,       \* Client::m_Writing
  writeOps,      \* async_write operations outstanding
  pending,       \* Client::m_PendingDisconnect
  told,          \* the peer has been sent ACCOUNT_ONLINE in full (history)
  players,       \* World::m_Players
  index,         \* Player::m_Index
  occupied,      \* World::m_OccupiedIndices
  tick,          \* the players of the current tick's playerList still to update
  halted         \* "no"; what has ended the process: a null pointer it dereferenced,
                 \* or an exception; or "spinning": the network thread never returns
                 \* from a handler, the main thread goes on

connVars == <<stage, disconnected, sessions>>
writeVars == <<writeQueue, writing, writeOps, pending, told>>
worldVars == <<players, index, occupied>>
vars == <<sessions, stage, username, hasPlayer, disconnected, rate, readArmed,
          strand, writeQueue, writing, writeOps, pending, told, players, index,
          occupied, tick, halted>>

TypeOK ==
  /\ sessions \in SUBSET Clients
  /\ stage \in [Clients -> Stages]
  /\ username \in [Clients -> Names \cup {NoName}]
  /\ hasPlayer \in [Clients -> BOOLEAN]
  /\ disconnected \in [Clients -> BOOLEAN]
  /\ rate \in [Clients -> 0 .. MaxRate + 1]
  /\ readArmed \in [Clients -> BOOLEAN]
  /\ strand \in [Clients -> Seq(Handlers)]
  /\ writeQueue \in [Clients -> Seq(Messages)]
  /\ writing \in [Clients -> BOOLEAN]
  /\ writeOps \in [Clients -> Nat]
  /\ pending \in [Clients -> BOOLEAN]
  /\ told \in [Clients -> BOOLEAN]
  /\ players \in [Names -> Clients \cup {NoClient}]
  /\ index \in [Clients -> Slots \cup {-1}]
  /\ occupied \in SUBSET Slots
  /\ tick \in SUBSET Clients
  /\ halted \in {"no", "nullPlayer", "nullClient", "exception", "spinning"}

Init ==
  /\ sessions = {}
  /\ stage = [c \in Clients |-> "NONE"]
  /\ username = [c \in Clients |-> NoName]
  /\ hasPlayer = [c \in Clients |-> FALSE]
  /\ disconnected = [c \in Clients |-> FALSE]
  /\ rate = [c \in Clients |-> 0]
  /\ readArmed = [c \in Clients |-> FALSE]
  /\ strand = [c \in Clients |-> <<>>]
  /\ writeQueue = [c \in Clients |-> <<>>]
  /\ writing = [c \in Clients |-> FALSE]
  /\ writeOps = [c \in Clients |-> 0]
  /\ pending = [c \in Clients |-> FALSE]
  /\ told = [c \in Clients |-> FALSE]
  /\ players = [n \in Names |-> NoClient]
  /\ index = [c \in Clients |-> -1]
  /\ occupied = {}
  /\ tick = {}
  /\ halted = "no"

----------------------------------------------------------------------------
(* Objects and their lifetime *)

Queued(c, h) == \E i \in 1 .. Len(strand[c]) : strand[c][i] = h

Registered == {c \in Clients : \E n \in Names : players[n] = c}

\* Only Disconnect closes the socket of an accepted connection.
SocketOpen(c) == stage[c] # "NONE" /\ ~disconnected[c]

\* A Client is kept alive by the shared_ptr its handlers capture; the lambda of
\* RequestDisconnect captures the raw pointer and keeps nothing alive.
ClientAlive(c) ==
  \/ readArmed[c]
  \/ writeOps[c] > 0
  \/ \E i \in 1 .. Len(strand[c]) : strand[c][i] # "requestDisconnect"

\* m_Player.lock(): a Player is kept alive by the registry and the running tick.
\* The local lists of other players keep it as well, but only once it has been in
\* the registry; when it has left, its client has disconnected and locks no more.
PlayerAlive(c) == hasPlayer[c] /\ c \in Registered \cup tick

----------------------------------------------------------------------------
(* World *)

\* Mutant: the search for a free slot never looks at the occupied ones.
FirstIndex(i) == i = 0

\* World::GetFreeIndex returns the lowest free slot.
FreeIndex(i) == i \in Slots \ occupied /\ \A j \in Slots : j < i => j \in occupied

\* World::RegisterPlayer(player of c) under the name n.
RegisterPlayer(c, n) ==
  IF occupied = Slots
    THEN UNCHANGED worldVars
    ELSE \E i \in Slots :
           /\ FreeIndex(i)
           /\ occupied' = occupied \cup {i}
           /\ index' = [index EXCEPT ![c] = i]
           /\ players' = [players EXCEPT ![n] = c]

\* Mutant: the slot of a removed player is not given back.
RemovePlayerKeepsSlot(n) ==
  /\ UNCHANGED occupied
  /\ players' = [players EXCEPT ![n] = NoClient]

\* World::RemovePlayer(n).
RemovePlayer(n) ==
  IF players[n] = NoClient
    THEN UNCHANGED <<players, occupied>>
    ELSE /\ occupied' = occupied \ {index[players[n]]}
         /\ players' = [players EXCEPT ![n] = NoClient]

----------------------------------------------------------------------------
(* Client *)

\* Mutant: the player stays in the world.
DisconnectKeepsPlayer(c) ==
  /\ disconnected' = [disconnected EXCEPT ![c] = TRUE]
  /\ stage' = [stage EXCEPT ![c] = "LOGGED_OUT"]
  /\ sessions' = sessions \ {c}
  /\ UNCHANGED <<players, occupied>>

\* Mutant: m_OnDisconnect is not called.
DisconnectKeepsSession(c) ==
  /\ disconnected' = [disconnected EXCEPT ![c] = TRUE]
  /\ IF ~disconnected[c] /\ PlayerAlive(c) THEN RemovePlayer(username[c])
                                           ELSE UNCHANGED <<players, occupied>>
  /\ stage' = [stage EXCEPT ![c] = "LOGGED_OUT"]
  /\ UNCHANGED sessions

\* Client::Disconnect, which only its first call carries out.
Disconnect(c) ==
  IF disconnected[c]
    THEN UNCHANGED <<stage, disconnected, sessions, players, occupied>>
    ELSE /\ disconnected' = [disconnected EXCEPT ![c] = TRUE]
         /\ IF PlayerAlive(c) THEN RemovePlayer(username[c])
                              ELSE UNCHANGED <<players, occupied>>
         /\ stage' = [stage EXCEPT ![c] = "LOGGED_OUT"]
         /\ sessions' = sessions \ {c}

\* The network thread takes the handler h, at the head of c's strand, to run it.
Runs(c, h) == halted = "no" /\ strand[c] # <<>> /\ Head(strand[c]) = h

Pop(c) == strand' = [strand EXCEPT ![c] = Tail(@)]
PopAndPost(c, h) == strand' = [strand EXCEPT ![c] = Append(Tail(@), h)]
PopAndPostTwo(c, h, g) ==
  strand' = [strand EXCEPT ![c] = Append(Append(Tail(@), h), g)]

\* Server::AcceptClients: the accept handler stores the session and starts it.
Accept(c) ==
  /\ halted = "no" /\ stage[c] = "NONE"
  /\ stage' = [stage EXCEPT ![c] = "CONNECTED"]
  /\ sessions' = sessions \cup {c}
  /\ readArmed' = [readArmed EXCEPT ![c] = TRUE]
  /\ UNCHANGED <<disconnected, username, hasPlayer, rate, strand, tick, halted>>
  /\ UNCHANGED writeVars /\ UNCHANGED worldVars

\* asio completes the outstanding read with data of the peer ...
ReadCompletes(c) ==
  /\ halted = "no" /\ readArmed[c] /\ SocketOpen(c)
  /\ Len(strand[c]) < MaxBacklog /\ Len(writeQueue[c]) < MaxBacklog
  /\ readArmed' = [readArmed EXCEPT ![c] = FALSE]
  /\ strand' = [strand EXCEPT ![c] = Append(@, "read")]
  /\ UNCHANGED <<username, hasPlayer, rate, tick, halted>>
  /\ UNCHANGED connVars /\ UNCHANGED writeVars /\ UNCHANGED worldVars

\* ... or with an error: the peer is gone, or Disconnect has closed the socket.
ReadFails(c) ==
  /\ halted = "no" /\ readArmed[c]
  /\ readArmed' = [readArmed EXCEPT ![c] = FALSE]
  /\ strand' = [strand EXCEPT ![c] = Append(@, "readError")]
  /\ UNCHANGED <<username, hasPlayer, rate, tick, halted>>
  /\ UNCHANGED connVars /\ UNCHANGED writeVars /\ UNCHANGED worldVars

\* The read handler: rate limiting, HandleIncomingData, then the next read.
\* A second may or may not have passed since the window was opened.
FloodDisconnect(c) ==
  /\ Runs(c, "read") /\ rate[c] + 1 > MaxRate
  /\ rate' = [rate EXCEPT ![c] = MaxRate + 1]   \* all that matters of it from here on
  /\ Disconnect(c)
  /\ Pop(c)
  /\ readArmed' = [readArmed EXCEPT ![c] = TRUE]
  /\ UNCHANGED <<username, hasPlayer, index, tick, halted>> /\ UNCHANGED writeVars

\* Mutant: the reads of a second are counted but not limited.
HandleIncomingDataUnlimited(c, s) ==
  /\ Runs(c, "read") /\ stage[c] = s
  /\ \E r \in {1, rate[c] + 1} : rate' = [rate EXCEPT ![c] = r]
  /\ readArmed' = [readArmed EXCEPT ![c] = TRUE]
  /\ UNCHANGED tick /\ UNCHANGED writeVars

\* The part of the read handler that every request that is handled shares.
HandleIncomingData(c, s) ==
  /\ Runs(c, "read") /\ stage[c] = s
  /\ \E r \in {1, rate[c] + 1} : r <= MaxRate /\ rate' = [rate EXCEPT ![c] = r]
  /\ readArmed' = [readArmed EXCEPT ![c] = TRUE]
  /\ UNCHANGED tick /\ UNCHANGED writeVars

\* LoginHandler, stage CONNECTED: the handshake request, answered with the key.
Handshake(c) ==
  /\ HandleIncomingData(c, "CONNECTED")
  /\ PopAndPost(c, "KEY")
  /\ stage' = [stage EXCEPT ![c] = "LOGGING_IN"]
  /\ UNCHANGED <<disconnected, sessions, username, hasPlayer, halted>>
  /\ UNCHANGED worldVars

\* A read handler that never returns: it stays where it is on the strand.
NeverReturns(c, s, why) ==
  /\ Runs(c, "read") /\ stage[c] = s
  /\ \E r \in {1, rate[c] + 1} : r <= MaxRate /\ rate' = [rate EXCEPT ![c] = r]
  /\ halted' = why
  /\ UNCHANGED <<username, hasPlayer, readArmed, strand, tick>>
  /\ UNCHANGED connVars /\ UNCHANGED writeVars /\ UNCHANGED worldVars

\* LoginHandler, either stage: a request the handler does not accept.
MalformedLogin(c) ==
  /\ \E s \in {"CONNECTED", "LOGGING_IN"} : HandleIncomingData(c, s)
  /\ Disconnect(c)
  /\ Pop(c)
  /\ UNCHANGED <<username, hasPlayer, index, halted>>

\* A login block that is shorter than its fields is read past the end of the buffer.
\* What is found there may look like any login or malformed request; if it holds no end
\* of the name or of the password, ReadString throws, and nobody catches.
LoginThrows(c) == NeverReturns(c, "LOGGING_IN", "exception")

\* Mutant: the registry is not searched for the name.
NameNeverTaken(c, n) == FALSE

\* LoginHandler::HandleLoggingInStage: the name is taken if its player's client
\* is another one and still exists.
NameTaken(c, n) ==
  players[n] # NoClient /\ players[n] # c /\ ClientAlive(players[n])

LoginRejected(c, n) ==
  /\ HandleIncomingData(c, "LOGGING_IN")
  /\ NameTaken(c, n)
  /\ username' = [username EXCEPT ![c] = n]
  /\ PopAndPostTwo(c, "ONLINE", "requestDisconnect")
  /\ UNCHANGED <<hasPlayer, halted>> /\ UNCHANGED connVars /\ UNCHANGED worldVars

\* The login response, then the packets of Player::Login, which RegisterPlayer
\* calls unless the world is full.
LoginSends(c, response) ==
  IF occupied = Slots THEN PopAndPost(c, response)
                      ELSE PopAndPostTwo(c, response, "WELCOME")

LoginAccepted(c, n) ==
  /\ HandleIncomingData(c, "LOGGING_IN")
  /\ ~NameTaken(c, n)
  /\ username' = [username EXCEPT ![c] = n]
  /\ hasPlayer' = [hasPlayer EXCEPT ![c] = TRUE]
  /\ stage' = [stage EXCEPT ![c] = "LOGGED_IN"]
  /\ RegisterPlayer(c, n)
  /\ LoginSends(c, IF players[n] = NoClient THEN "OK" ELSE "RECONNECT")
  /\ UNCHANGED <<disconnected, sessions, halted>>

\* The packets of a read, each of them taken whole (how the read is cut into packets is
\* in Framing).  Client::HandlePacket: a movement packet uses GetPlayer() unchecked, the
\* other packets are skipped.
GamePacket(c, isMovement) ==
  /\ HandleIncomingData(c, "LOGGED_IN")
  /\ Pop(c)
  /\ halted' = IF isMovement /\ ~PlayerAlive(c) THEN "nullPlayer" ELSE "no"
  /\ UNCHANGED <<username, hasPlayer>> /\ UNCHANGED connVars /\ UNCHANGED worldVars

\* A movement packet too short for its fixed part: the vector of its path gets a
\* negative size and throws std::length_error, and nobody catches.
GamePacketThrows(c) == NeverReturns(c, "LOGGED_IN", "exception")

\* A read that ends inside a packet: the loop of HandleIncomingData waits for the rest of
\* it in the only thread that could read it.
GamePacketSpins(c) == NeverReturns(c, "LOGGED_IN", "spinning")

\* Data read before the connection was closed, handled after it: ignored.
LateData(c) ==
  /\ HandleIncomingData(c, "LOGGED_OUT")
  /\ Pop(c)
  /\ UNCHANGED <<username, hasPlayer, halted>>
  /\ UNCHANGED connVars /\ UNCHANGED worldVars

\* Mutant: the read is started again whatever the error.
ReadErrorHandlerRetries(c) ==
  /\ Runs(c, "readError")
  /\ Disconnect(c)
  /\ Pop(c)
  /\ readArmed' = [readArmed EXCEPT ![c] = TRUE]
  /\ UNCHANGED <<username, hasPlayer, rate, index, tick, halted>>
  /\ UNCHANGED writeVars

\* The read handler with an error: no further read is started.
ReadErrorHandler(c) ==
  /\ Runs(c, "readError")
  /\ Disconnect(c)
  /\ Pop(c)
  /\ UNCHANGED <<username, hasPlayer, rate, readArmed, index, tick, halted>>
  /\ UNCHANGED writeVars

\* Mutant: DoWrite is called although a write is outstanding.
RunSendAlwaysWrites(c, m) ==
  /\ Runs(c, m)
  /\ Pop(c)
  /\ writeQueue' = [writeQueue EXCEPT ![c] = Append(@, m)]
  /\ writing' = [writing EXCEPT ![c] = TRUE]
  /\ writeOps' = [writeOps EXCEPT ![c] = @ + 1]
  /\ UNCHANGED <<pending, told, username, hasPlayer, rate, readArmed, tick, halted>>
  /\ UNCHANGED connVars /\ UNCHANGED worldVars

\* The lambda of Client::Send, with DoWrite.
RunSend(c, m) ==
  /\ Runs(c, m)
  /\ Pop(c)
  /\ writeQueue' = [writeQueue EXCEPT ![c] = Append(@, m)]
  /\ writing' = [writing EXCEPT ![c] = TRUE]
  /\ writeOps' = [writeOps EXCEPT ![c] = IF writing[c] THEN @ ELSE @ + 1]
  /\ UNCHANGED <<pending, told, username, hasPlayer, rate, readArmed, tick, halted>>
  /\ UNCHANGED connVars /\ UNCHANGED worldVars

\* Mutant: the connection is closed without waiting for the writes.
RunRequestDisconnectAtOnce(c) ==
  /\ Runs(c, "requestDisconnect")
  /\ Pop(c)
  /\ Disconnect(c)
  /\ UNCHANGED <<username, hasPlayer, rate, readArmed, index, tick, halted>>
  /\ UNCHANGED writeVars

\* Mutant: instead of leaving a note to the write handler the lambda posts
\* itself again until nothing is being written.
RunRequestDisconnectAgain(c) ==
  /\ Runs(c, "requestDisconnect")
  /\ IF ~writing[c] /\ writeQueue[c] = <<>>
       THEN Disconnect(c) /\ Pop(c)
       ELSE /\ PopAndPost(c, "requestDisconnect")
            /\ UNCHANGED <<stage, disconnected, sessions, players, occupied>>
  /\ UNCHANGED <<username, hasPlayer, rate, readArmed, index, tick, halted>>
  /\ UNCHANGED writeVars

\* The lambda of Client::RequestDisconnect.
RunRequestDisconnect(c) ==
  /\ Runs(c, "requestDisconnect")
  /\ Pop(c)
  /\ pending' = [pending EXCEPT ![c] = TRUE]
  /\ IF ~writing[c] /\ writeQueue[c] = <<>>
       THEN Disconnect(c)
       ELSE UNCHANGED <<stage, disconnected, sessions, players, occupied>>
  /\ UNCHANGED <<writeQueue, writing, writeOps, told, username, hasPlayer, rate,
                 readArmed, index, tick, halted>>

\* asio completes an outstanding write, with or without an error.
WriteCompletes(c, result) ==
  /\ halted = "no" /\ writeOps[c] > 0
  /\ result = "written" => SocketOpen(c)
  /\ writeOps' = [writeOps EXCEPT ![c] = @ - 1]
  /\ strand' = [strand EXCEPT ![c] = Append(@, result)]
  /\ told' = [told EXCEPT ![c] =
                @ \/ (result = "written" /\ Head(writeQueue[c]) = "ONLINE")]
  /\ UNCHANGED <<writeQueue, writing, pending, username, hasPlayer, rate,
                 readArmed, tick, halted>>
  /\ UNCHANGED connVars /\ UNCHANGED worldVars

\* Mutant: the pending disconnect is forgotten.
WrittenHandlerKeepsOpen(c) ==
  /\ Runs(c, "written")
  /\ Pop(c)
  /\ LET rest == Tail(writeQueue[c]) IN
       /\ writeQueue' = [writeQueue EXCEPT ![c] = rest]
       /\ writing' = [writing EXCEPT ![c] = rest # <<>>]
       /\ writeOps' = [writeOps EXCEPT ![c] = IF rest # <<>> THEN @ + 1 ELSE @]
  /\ UNCHANGED <<pending, told, username, hasPlayer, rate, readArmed, tick, halted>>
  /\ UNCHANGED connVars /\ UNCHANGED worldVars

\* The write handler without an error: the next write, or the pending disconnect.
WrittenHandler(c) ==
  /\ Runs(c, "written")
  /\ Pop(c)
  /\ LET rest == Tail(writeQueue[c]) IN
       /\ writeQueue' = [writeQueue EXCEPT ![c] = rest]
       /\ writing' = [writing EXCEPT ![c] = rest # <<>>]
       /\ writeOps' = [writeOps EXCEPT ![c] = IF rest # <<>> THEN @ + 1 ELSE @]
       /\ IF rest = <<>> /\ pending[c]
            THEN /\ Disconnect(c)
                 /\ pending' = [pending EXCEPT ![c] = FALSE]
            ELSE UNCHANGED <<pending, stage, disconnected, sessions, players, occupied>>
  /\ UNCHANGED <<told, username, hasPlayer, rate, readArmed, index, tick, halted>>

\* The write handler with an error: m_Writing stays set, nothing is written again.
WriteErrorHandler(c) ==
  /\ Runs(c, "writeError")
  /\ Disconnect(c)
  /\ Pop(c)
  /\ UNCHANGED <<username, hasPlayer, rate, readArmed, index, tick, halted>>
  /\ UNCHANGED writeVars

----------------------------------------------------------------------------
(* The main thread: World::Process, at the grain of one player's update.  It goes on *)
(* when the network thread spins.                                                    *)

Ticking == halted \in {"no", "spinning"}

\* The loop over m_Players that fills playerList and calls Player::Process, which
\* sends a map region to a player that has come near the border of its own.
TickStart ==
  /\ Ticking /\ tick = {}
  /\ tick' = Registered
  /\ \E bordering \in SUBSET Registered :
       /\ \A c \in bordering : Len(strand[c]) + Len(writeQueue[c]) < MaxBacklog
       /\ strand' = [c \in Clients |-> IF c \in bordering THEN Append(strand[c], "UPDATE")
                                                        ELSE strand[c]]
       /\ halted' = IF \A c \in bordering : ClientAlive(c) THEN halted ELSE "nullClient"
  /\ UNCHANGED <<username, hasPlayer, rate, readArmed>>
  /\ UNCHANGED connVars /\ UNCHANGED writeVars /\ UNCHANGED worldVars

\* PlayerUpdating::UpdatePlayer: GetClient() is used unchecked.
TickUpdate(c) ==
  /\ Ticking /\ c \in tick
  /\ ClientAlive(c) => Len(strand[c]) + Len(writeQueue[c]) < MaxBacklog
  /\ tick' = tick \ {c}
  /\ IF ClientAlive(c)
       THEN /\ strand' = [strand EXCEPT ![c] = Append(@, "UPDATE")]
            /\ UNCHANGED halted
       ELSE /\ halted' = "nullClient"
            /\ UNCHANGED strand
  /\ UNCHANGED <<username, hasPlayer, rate, readArmed>>
  /\ UNCHANGED connVars /\ UNCHANGED writeVars /\ UNCHANGED worldVars

----------------------------------------------------------------------------

\* The process is gone, or its network thread is of no use any more.
Halted == halted # "no" /\ UNCHANGED vars

RunHandler(c) ==
  \/ FloodDisconnect(c)
  \/ Handshake(c)
  \/ MalformedLogin(c)
  \/ \E n \in Names : LoginRejected(c, n) \/ LoginAccepted(c, n)
  \/ \E isMovement \in BOOLEAN : GamePacket(c, isMovement)
  \/ LoginThrows(c)
  \/ GamePacketThrows(c)
  \/ GamePacketSpins(c)
  \/ LateData(c)
  \/ ReadErrorHandler(c)
  \/ \E m \in Messages : RunSend(c, m)
  \/ RunRequestDisconnect(c)
  \/ WrittenHandler(c)
  \/ WriteErrorHandler(c)

ClientStep(c) ==
  \/ Accept(c)
  \/ ReadCompletes(c)
  \/ ReadFails(c)
  \/ RunHandler(c)
  \/ \E result \in {"written", "writeError"} : WriteCompletes(c, result)
  \/ TickUpdate(c)

Next == (\E c \in Clients : ClientStep(c)) \/ TickStart \/ Halted

Spec == Init /\ [][Next]_vars

\* The network thread keeps running io_context::run as long as no handler keeps it (a
\* handler can run only while nothing has halted), an operation on a closed socket is
\* aborted, a peer takes what it is sent or its connection breaks, the main thread keeps
\* ticking.  No peer is assumed to connect, send or leave.
Fairness ==
  /\ \A c \in Clients :
       /\ WF_vars(RunHandler(c))
       /\ WF_vars(~SocketOpen(c) /\ ReadFails(c))
       /\ WF_vars(\E result \in {"written", "writeError"} : WriteCompletes(c, result))
       /\ WF_vars(TickUpdate(c))

FairSpec == Spec /\ Fairness

----------------------------------------------------------------------------
(* Safety *)

\* The bits set in m_OccupiedIndices are exactly the slots of the registered
\* players, one slot each: no slot leaks and none is shared, whatever the order
\* of logins, rejections, pipelined logins and disconnects (World.cpp).
SlotsExact ==
  /\ occupied = {index[c] : c \in Registered}
  /\ \A c, d \in Registered : index[c] = index[d] => c = d

\* A player in the registry belongs to a client that exists, is connected and
\* logged in under the very name it is registered with.  In particular the
\* "seamless reconnection" branch of LoginHandler, for a player whose client
\* is gone, is never taken.
OwnersOnline ==
  \A n \in Names : players[n] # NoClient =>
    LET c == players[n] IN
      /\ username[c] = n /\ hasPlayer[c]
      /\ stage[c] = "LOGGED_IN" /\ ~disconnected[c]
      /\ ClientAlive(c)

\* m_Sessions holds exactly the open connections, and none of its weak
\* pointers has expired (Server.cpp: m_OnDisconnect erases the entry).
SessionsExact ==
  /\ sessions = {c \in Clients : SocketOpen(c)}
  /\ \A c \in sessions : ClientAlive(c)

WriteCompletions(c) ==
  {i \in 1 .. Len(strand[c]) : strand[c][i] \in {"written", "writeError"}}

\* DoWrite never starts a write while another one, or its handler, is
\* outstanding, and the buffer being written stays at the front of the queue.
SingleWrite ==
  \A c \in Clients :
    /\ writeOps[c] <= 1
    /\ writeOps[c] = 1 => WriteCompletions(c) = {}
    /\ \A i, j \in WriteCompletions(c) : i = j
    /\ writeOps[c] = 1 \/ WriteCompletions(c) # {} =>
         writing[c] /\ writeQueue[c] # <<>>

\* When the lambda of RequestDisconnect is about to run, the Client its raw
\* pointer refers to still exists, although the lambda does not own it.
CallbackTargetsAlive ==
  \A c \in Clients : Runs(c, "requestDisconnect") => ClientAlive(c)

\* A player leaves the registry only in the step in which its own client
\* disconnects, and is never replaced in place: no login and no disconnect of
\* another client evicts it.
OnlyOwnLogout ==
  [][\A n \in Names : players[n] # NoClient /\ players'[n] # players[n] =>
        players'[n] = NoClient /\ disconnected'[players[n]]]_vars

\* The server closes a connection on its own account (not on an I/O error, a
\* malformed request or a flood) only after the peer has been sent the
\* ACCOUNT_ONLINE response in full.
RejectionDelivered ==
  [][\A c \in Clients :
       /\ ~disconnected[c] /\ disconnected'[c]
       /\ Head(strand[c]) \in {"written", "requestDisconnect"}
       => told'[c]]_vars

\* A client told that it is logged in has its player in the world.
LoggedInHasPlayer ==
  \A c \in Clients : stage[c] = "LOGGED_IN" => c \in Registered

\* The tick finds the client of every player it updates.
TickFindsClient == halted # "nullClient"

----------------------------------------------------------------------------
(* The inductive invariant behind SlotsExact, OwnersOnline and SessionsExact *)

\* An open connection always has a read outstanding or completed: this is what
\* keeps the Client alive as long as it is connected.
ReadChain ==
  \A c \in Clients : SocketOpen(c) =>
    readArmed[c] \/ Queued(c, "read") \/ Queued(c, "readError")

\* The stage tells whether Disconnect has run.
Lifecycle == \A c \in Clients : disconnected[c] <=> stage[c] = "LOGGED_OUT"

\* A registered player is the one its client logged in, under the client's name.
Owners ==
  \A n \in Names : players[n] # NoClient =>
    LET c == players[n] IN
      username[c] = n /\ hasPlayer[c] /\ stage[c] = "LOGGED_IN" /\ index[c] \in Slots

\* A player the tick holds on to has left the registry only by disconnecting.
TickOwners == \A c \in tick : c \in Registered \/ disconnected[c]

OpenSessions == sessions = {c \in Clients : SocketOpen(c)}

Inv ==
  /\ TypeOK /\ SingleWrite /\ SlotsExact
  /\ ReadChain /\ Lifecycle /\ Owners /\ TickOwners /\ OpenSessions

----------------------------------------------------------------------------
(* Liveness *)

Rejected(c) == stage[c] = "LOGGING_IN" /\ (pending[c] \/ Queued(c, "requestDisconnect"))

\* A client whose login was rejected is disconnected in the end (unless a pipelined login
\* under a free name succeeds first), if its peer stops sending and no handler, of this
\* client or another, ends the process or keeps the network thread for ever.
RejectedCloses ==
  \A c \in Clients :
    \/ []<><<ReadCompletes(c)>>_vars
    \/ Rejected(c) ~> disconnected[c] \/ stage[c] = "LOGGED_IN" \/ halted # "no"

\* The Client object of a closed connection is destroyed in the end: no cycle of handlers
\* keeps it alive.  Only the end of the process, or a handler of some client that keeps
\* the network thread for ever, prevents it.
DisconnectedFreed ==
  \A c \in Clients : disconnected[c] ~> ~ClientAlive(c) \/ halted # "no"

----------------------------------------------------------------------------
(* Refinement *)

\* The registry implements the accounts: one session per name, one name per
\* session, one slot per name.
A == INSTANCE Accounts WITH
  Sessions <- Clients, NoSession <- NoClient,
  online <- players,
  slot <- [n \in Names |-> IF players[n] = NoClient THEN -1 ELSE index[players[n]]]

AccountsSpec == A!Spec
============================================================================
