------------------------- MODULE NetworkThreadProofs -------------------------
(***************************************************************************)
(* Proofs about NetworkThread, for any sets of clients and names, any      *)
(* number of slots, any rate limit and any backlog.                        *)
(***************************************************************************)
EXTENDS NetworkThread, TLAPS

USE NoClientAssumption, NoNameAssumption, BoundsAssumption

----------------------------------------------------------------------------
(* Strands as sequences *)

\* A strand keeps its elements, in their order, when one is added at its end.
LEMMA AppendElements ==
  ASSUME NEW S, NEW s \in Seq(S), NEW x \in S
  PROVE  /\ Append(s, x) \in Seq(S)
         /\ Len(Append(s, x)) = Len(s) + 1
         /\ Append(s, x)[Len(s) + 1] = x
         /\ \A i \in 1 .. Len(s) : Append(s, x)[i] = s[i]
  OBVIOUS

\* A strand keeps all its elements but the first when its head is taken.
LEMMA TailElements ==
  ASSUME NEW S, NEW s \in Seq(S), s # <<>>
  PROVE  /\ Tail(s) \in Seq(S)
         /\ Len(s) \in Nat \ {0}
         /\ Head(s) = s[1]
         /\ Head(s) \in S
         /\ Len(Tail(s)) = Len(s) - 1
         /\ \A i \in 1 .. Len(s) - 1 : Tail(s)[i] = s[i + 1]
  OBVIOUS

\* A function keeps its type when one of its values is replaced.
LEMMA UpdateType ==
  ASSUME NEW S, NEW T, NEW f \in [S -> T], NEW x \in S, NEW y \in T
  PROVE  [f EXCEPT ![x] = y] \in [S -> T]
  OBVIOUS

----------------------------------------------------------------------------
(* Types *)

\* The messages are handlers of a strand.
LEMMA MessagesAreHandlers == Messages \subseteq Handlers
  BY DEF Handlers

\* Disconnect keeps the types of what it changes.
LEMMA DisconnectType ==
  ASSUME TypeOK, NEW c \in Clients, Disconnect(c)
  PROVE  /\ stage' \in [Clients -> Stages]
         /\ disconnected' \in [Clients -> BOOLEAN]
         /\ sessions' \in SUBSET Clients
         /\ players' \in [Names -> Clients \cup {NoClient}]
         /\ occupied' \in SUBSET Slots
  <1>1. CASE disconnected[c]
    BY <1>1 DEF TypeOK, Disconnect
  <1>2. CASE ~disconnected[c]
    <2>1. /\ stage' \in [Clients -> Stages]
          /\ disconnected' \in [Clients -> BOOLEAN]
          /\ sessions' \in SUBSET Clients
      BY <1>2 DEF TypeOK, Disconnect, Stages
    <2>2. /\ players' \in [Names -> Clients \cup {NoClient}]
          /\ occupied' \in SUBSET Slots
      BY <1>2 DEF TypeOK, Disconnect, RemovePlayer
    <2> QED BY <2>1, <2>2
  <1> QED BY <1>1, <1>2

\* A tick that begins adds at most one message to a strand.
LEMMA TickPosts ==
  ASSUME TypeOK, TickStart
  PROVE  /\ strand' \in [Clients -> Seq(Handlers)]
         /\ \A d \in Clients :
              strand'[d] = strand[d] \/ strand'[d] = Append(strand[d], "UPDATE")
  <1>1. PICK B \in SUBSET Registered :
          strand' = [c \in Clients |-> IF c \in B THEN Append(strand[c], "UPDATE")
                                               ELSE strand[c]]
    BY DEF TickStart
  <1>2. "UPDATE" \in Handlers
    BY DEF Handlers, Messages
  <1>3. ASSUME NEW d \in Clients
        PROVE  strand[d] \in Seq(Handlers) /\ Append(strand[d], "UPDATE") \in Seq(Handlers)
    BY <1>2, AppendElements DEF TypeOK
  <1> QED BY <1>1, <1>3

\* A handler that never returns.
Stuck(c) == LoginThrows(c) \/ GamePacketThrows(c) \/ GamePacketSpins(c)

\* It changes nothing but the count of the reads and what has halted.
LEMMA StuckKeeps ==
  ASSUME TypeOK, NEW c \in Clients, Stuck(c)
  PROVE  /\ UNCHANGED <<sessions, stage, username, hasPlayer, disconnected, readArmed, strand,
                        writeQueue, writing, writeOps, pending, told, players, index,
                        occupied, tick>>
         /\ rate' \in [Clients -> 0 .. MaxRate + 1]
         /\ halted' \in {"exception", "spinning"}
  <1>1. PICK t \in Stages, why \in {"exception", "spinning"} : NeverReturns(c, t, why)
    BY DEF Stuck, LoginThrows, GamePacketThrows, GamePacketSpins, Stages
  <1>2. rate' \in [Clients -> 0 .. MaxRate + 1]
    BY <1>1 DEF NeverReturns, TypeOK
  <1> QED BY <1>1, <1>2 DEF NeverReturns, connVars, writeVars, worldVars


\* The type invariant is inductive, given that a completed write finds its
\* buffer in the write queue.
LEMMA TypeStep == TypeOK /\ SingleWrite /\ [Next]_vars => TypeOK'
  <1> SUFFICES ASSUME TypeOK, SingleWrite, [Next]_vars PROVE TypeOK'
    OBVIOUS
  <1>1. ASSUME NEW c \in Clients, Accept(c) PROVE TypeOK'
    BY <1>1 DEF Accept, TypeOK, writeVars, worldVars, Stages
  <1>2. ASSUME NEW c \in Clients, ReadCompletes(c) PROVE TypeOK'
    BY <1>2 DEF ReadCompletes, TypeOK, connVars, writeVars, worldVars, Handlers
  <1>3. ASSUME NEW c \in Clients, ReadFails(c) PROVE TypeOK'
    BY <1>3 DEF ReadFails, TypeOK, connVars, writeVars, worldVars, Handlers
  <1>4. ASSUME NEW c \in Clients, FloodDisconnect(c) PROVE TypeOK'
    <2>1. /\ stage' \in [Clients -> Stages]
          /\ disconnected' \in [Clients -> BOOLEAN]
          /\ sessions' \in SUBSET Clients
          /\ players' \in [Names -> Clients \cup {NoClient}]
          /\ occupied' \in SUBSET Slots
      BY <1>4, DisconnectType DEF FloodDisconnect
    <2>2. strand' \in [Clients -> Seq(Handlers)]
      BY <1>4 DEF FloodDisconnect, Runs, Pop, TypeOK
    <2>3. /\ rate' \in [Clients -> 0 .. MaxRate + 1]
          /\ readArmed' \in [Clients -> BOOLEAN]
      BY <1>4 DEF FloodDisconnect, TypeOK
    <2> QED BY <1>4, <2>1, <2>2, <2>3 DEF FloodDisconnect, TypeOK, writeVars
  <1>5. ASSUME NEW c \in Clients, NEW t \in Stages, HandleIncomingData(c, t)
        PROVE  /\ rate' \in [Clients -> 0 .. MaxRate + 1]
               /\ readArmed' \in [Clients -> BOOLEAN]
               /\ Tail(strand[c]) \in Seq(Handlers)
               /\ tick' = tick
               /\ UNCHANGED writeVars
    BY <1>5 DEF HandleIncomingData, Runs, TypeOK
  <1>6. ASSUME NEW c \in Clients, Handshake(c) PROVE TypeOK'
    BY <1>5, <1>6 DEF Handshake, PopAndPost, TypeOK, writeVars, worldVars,
       Stages, Handlers, Messages
  <1>7. ASSUME NEW c \in Clients, MalformedLogin(c) PROVE TypeOK'
    <2>1. PICK t \in {"CONNECTED", "LOGGING_IN"} : HandleIncomingData(c, t)
      BY <1>7 DEF MalformedLogin
    <2>2. /\ rate' \in [Clients -> 0 .. MaxRate + 1]
          /\ readArmed' \in [Clients -> BOOLEAN]
          /\ Tail(strand[c]) \in Seq(Handlers)
          /\ tick' = tick
          /\ UNCHANGED writeVars
      BY <1>5, <2>1 DEF Stages
    <2>3. /\ stage' \in [Clients -> Stages]
          /\ disconnected' \in [Clients -> BOOLEAN]
          /\ sessions' \in SUBSET Clients
          /\ players' \in [Names -> Clients \cup {NoClient}]
          /\ occupied' \in SUBSET Slots
      BY <1>7, DisconnectType DEF MalformedLogin
    <2> QED BY <1>7, <2>2, <2>3 DEF MalformedLogin, Pop, TypeOK, writeVars
  <1>8. ASSUME NEW c \in Clients, NEW n \in Names, LoginRejected(c, n) PROVE TypeOK'
    BY <1>5, <1>8 DEF LoginRejected, PopAndPostTwo, TypeOK, connVars, writeVars,
       worldVars, Stages, Handlers, Messages
  <1>9. ASSUME NEW c \in Clients, NEW n \in Names, LoginAccepted(c, n) PROVE TypeOK'
    <2>1. /\ players' \in [Names -> Clients \cup {NoClient}]
          /\ index' \in [Clients -> Slots \cup {-1}]
          /\ occupied' \in SUBSET Slots
      <3>1. CASE occupied = Slots
        BY <1>9, <3>1 DEF LoginAccepted, RegisterPlayer, TypeOK, worldVars
      <3>2. CASE occupied # Slots
        <4>1. PICK i \in Slots :
                /\ occupied' = occupied \cup {i}
                /\ index' = [index EXCEPT ![c] = i]
                /\ players' = [players EXCEPT ![n] = c]
          BY <1>9, <3>2 DEF LoginAccepted, RegisterPlayer
        <4> QED BY <4>1 DEF TypeOK
      <3> QED BY <3>1, <3>2
    <2>2. strand' \in [Clients -> Seq(Handlers)]
      <3>1. Tail(strand[c]) \in Seq(Handlers)
        BY <1>5, <1>9 DEF LoginAccepted, Stages
      <3>2. {"OK", "RECONNECT", "WELCOME"} \subseteq Handlers
        BY DEF Handlers, Messages
      <3>3. PICK h \in {"OK", "RECONNECT"} : PopAndPost(c, h) \/ PopAndPostTwo(c, h, "WELCOME")
        BY <1>9 DEF LoginAccepted, LoginSends
      <3>4. /\ Append(Tail(strand[c]), h) \in Seq(Handlers)
            /\ Append(Append(Tail(strand[c]), h), "WELCOME") \in Seq(Handlers)
        BY <3>1, <3>2
      <3>5. PICK s \in Seq(Handlers) : strand' = [strand EXCEPT ![c] = s]
        BY <3>3, <3>4, Zenon DEF PopAndPost, PopAndPostTwo
      <3> QED BY <3>5 DEF TypeOK
    <2> QED BY <1>5, <1>9, <2>1, <2>2 DEF LoginAccepted, TypeOK, writeVars, Stages
  <1>10. ASSUME NEW c \in Clients, NEW m \in BOOLEAN, GamePacket(c, m) PROVE TypeOK'
    BY <1>5, <1>10 DEF GamePacket, Pop, TypeOK, connVars, writeVars, worldVars, Stages
  <1>11. ASSUME NEW c \in Clients, LateData(c) PROVE TypeOK'
    BY <1>5, <1>11 DEF LateData, Pop, TypeOK, connVars, writeVars, worldVars, Stages
  <1>12. ASSUME NEW c \in Clients, ReadErrorHandler(c) PROVE TypeOK'
    <2>1. /\ stage' \in [Clients -> Stages]
          /\ disconnected' \in [Clients -> BOOLEAN]
          /\ sessions' \in SUBSET Clients
          /\ players' \in [Names -> Clients \cup {NoClient}]
          /\ occupied' \in SUBSET Slots
      BY <1>12, DisconnectType DEF ReadErrorHandler
    <2>2. strand' \in [Clients -> Seq(Handlers)]
      BY <1>12 DEF ReadErrorHandler, Runs, Pop, TypeOK
    <2> QED BY <1>12, <2>1, <2>2 DEF ReadErrorHandler, TypeOK, writeVars
  <1>13. ASSUME NEW c \in Clients, NEW m \in Messages, RunSend(c, m) PROVE TypeOK'
    BY <1>13 DEF RunSend, Runs, Pop, TypeOK, connVars, worldVars
  <1>14. ASSUME NEW c \in Clients, RunRequestDisconnect(c) PROVE TypeOK'
    <2>1. /\ stage' \in [Clients -> Stages]
          /\ disconnected' \in [Clients -> BOOLEAN]
          /\ sessions' \in SUBSET Clients
          /\ players' \in [Names -> Clients \cup {NoClient}]
          /\ occupied' \in SUBSET Slots
      <3>1. CASE ~writing[c] /\ writeQueue[c] = <<>>
        BY <1>14, <3>1, DisconnectType DEF RunRequestDisconnect
      <3>2. CASE ~(~writing[c] /\ writeQueue[c] = <<>>)
        BY <1>14, <3>2 DEF RunRequestDisconnect, TypeOK
      <3> QED BY <3>1, <3>2
    <2>2. strand' \in [Clients -> Seq(Handlers)]
      BY <1>14 DEF RunRequestDisconnect, Runs, Pop, TypeOK
    <2>3. pending' \in [Clients -> BOOLEAN]
      BY <1>14 DEF RunRequestDisconnect, TypeOK
    <2> QED BY <1>14, <2>1, <2>2, <2>3 DEF RunRequestDisconnect, TypeOK
  <1>15. ASSUME NEW c \in Clients, WrittenHandler(c) PROVE TypeOK'
    <2>1. /\ Len(strand[c]) \in Nat \ {0} /\ strand[c][1] = "written"
          /\ Tail(strand[c]) \in Seq(Handlers)
      BY <1>15 DEF WrittenHandler, Runs, TypeOK
    <2>2. 1 \in WriteCompletions(c)
      BY <2>1 DEF WriteCompletions
    <2>3. writeQueue[c] # <<>>
      BY <2>2 DEF SingleWrite
    <2>4. Tail(writeQueue[c]) \in Seq(Messages)
      BY <2>3 DEF TypeOK
    <2>5. /\ stage' \in [Clients -> Stages]
          /\ disconnected' \in [Clients -> BOOLEAN]
          /\ sessions' \in SUBSET Clients
          /\ players' \in [Names -> Clients \cup {NoClient}]
          /\ occupied' \in SUBSET Slots
          /\ pending' \in [Clients -> BOOLEAN]
      <3>1. CASE Tail(writeQueue[c]) = <<>> /\ pending[c]
        BY <1>15, <3>1, DisconnectType DEF WrittenHandler, TypeOK
      <3>2. CASE ~(Tail(writeQueue[c]) = <<>> /\ pending[c])
        BY <1>15, <3>2 DEF WrittenHandler, TypeOK
      <3> QED BY <3>1, <3>2
    <2>6. /\ writeQueue' \in [Clients -> Seq(Messages)]
          /\ writing' \in [Clients -> BOOLEAN]
          /\ writeOps' \in [Clients -> Nat]
      <3>1. PICK q \in Seq(Messages) :
              /\ writeQueue' = [writeQueue EXCEPT ![c] = q]
              /\ writing' = [writing EXCEPT ![c] = q # <<>>]
              /\ writeOps' = [writeOps EXCEPT ![c] = IF q # <<>> THEN @ + 1 ELSE @]
        BY <1>15, <2>4, Zenon DEF WrittenHandler
      <3>2. writeQueue' \in [Clients -> Seq(Messages)]
        BY <3>1 DEF TypeOK
      <3>3. writing' \in [Clients -> BOOLEAN]
        BY <3>1 DEF TypeOK
      <3>4. writeOps' \in [Clients -> Nat]
        BY <3>1 DEF TypeOK
      <3> QED BY <3>2, <3>3, <3>4
    <2>7. strand' \in [Clients -> Seq(Handlers)]
      BY <1>15, <2>1, UpdateType DEF WrittenHandler, Pop, TypeOK
    <2> QED BY <1>15, <2>5, <2>6, <2>7 DEF WrittenHandler, TypeOK
  <1>16. ASSUME NEW c \in Clients, NEW r \in {"written", "writeError"}, WriteCompletes(c, r)
         PROVE TypeOK'
    <2>1. told' \in [Clients -> BOOLEAN]
      BY <1>16 DEF WriteCompletes, TypeOK
    <2>2. writeOps' \in [Clients -> Nat]
      BY <1>16 DEF WriteCompletes, TypeOK
    <2>3. strand' \in [Clients -> Seq(Handlers)]
      BY <1>16 DEF WriteCompletes, TypeOK, Handlers
    <2> QED BY <1>16, <2>1, <2>2, <2>3 DEF WriteCompletes, TypeOK, connVars, worldVars
  <1>17. ASSUME NEW c \in Clients, WriteErrorHandler(c) PROVE TypeOK'
    <2>1. /\ stage' \in [Clients -> Stages]
          /\ disconnected' \in [Clients -> BOOLEAN]
          /\ sessions' \in SUBSET Clients
          /\ players' \in [Names -> Clients \cup {NoClient}]
          /\ occupied' \in SUBSET Slots
      BY <1>17, DisconnectType DEF WriteErrorHandler
    <2>2. strand' \in [Clients -> Seq(Handlers)]
      BY <1>17 DEF WriteErrorHandler, Runs, Pop, TypeOK
    <2> QED BY <1>17, <2>1, <2>2 DEF WriteErrorHandler, TypeOK, writeVars
  <1>18. ASSUME NEW c \in Clients, TickUpdate(c) PROVE TypeOK'
    <2>1. /\ strand' \in [Clients -> Seq(Handlers)]
          /\ halted' \in {"no", "nullPlayer", "nullClient", "exception", "spinning"}
      <3>1. CASE ClientAlive(c)
        <4>1. /\ strand' = [strand EXCEPT ![c] = Append(@, "UPDATE")]
              /\ UNCHANGED halted
          BY <1>18, <3>1 DEF TickUpdate
        <4>2. "UPDATE" \in Handlers
          BY DEF Handlers, Messages
        <4> QED BY <4>1, <4>2, AppendElements DEF TypeOK
      <3>2. CASE ~ClientAlive(c)
        BY <1>18, <3>2 DEF TickUpdate, TypeOK
      <3> QED BY <3>1, <3>2
    <2> QED BY <1>18, <2>1 DEF TickUpdate, TypeOK, connVars, writeVars, worldVars
  <1>19. CASE TickStart
    <2>1. strand' \in [Clients -> Seq(Handlers)]
      BY <1>19, TickPosts
    <2>2. halted' \in {"no", "nullPlayer", "nullClient", "exception", "spinning"}
      BY <1>19 DEF TickStart, TypeOK
    <2> QED BY <1>19, <2>1, <2>2
         DEF TickStart, Registered, TypeOK, connVars, writeVars, worldVars
  <1>20. CASE UNCHANGED vars
    BY <1>20 DEF TypeOK, vars
  <1>21. ASSUME NEW c \in Clients, Stuck(c) PROVE TypeOK'
    BY <1>21, StuckKeeps DEF TypeOK
  <1> QED
    BY <1>1, <1>2, <1>3, <1>4, <1>6, <1>7, <1>8, <1>9, <1>10, <1>11, <1>12, <1>13,
       <1>14, <1>15, <1>16, <1>17, <1>18, <1>19, <1>20, <1>21
       DEF Next, ClientStep, RunHandler, Stuck, Halted

----------------------------------------------------------------------------
(* Writes *)

\* The positions of the write completions in a strand.
Marks(s) == {i \in 1 .. Len(s) : s[i] \in {"written", "writeError"}}

Single(s) == \A i, j \in Marks(s) : i = j

\* Adding a handler that is no write completion adds no write completion.
LEMMA MarksAppend ==
  ASSUME NEW s \in Seq(Handlers), NEW x \in Handlers, x \notin {"written", "writeError"}
  PROVE  Append(s, x) \in Seq(Handlers) /\ Marks(Append(s, x)) = Marks(s)
  BY AppendElements DEF Marks

\* Taking the head of a strand adds no write completion, and takes the only one
\* when the head is one.
LEMMA MarksTail ==
  ASSUME NEW s \in Seq(Handlers), s # <<>>, Single(s)
  PROVE  /\ Single(Tail(s))
         /\ Marks(s) = {} => Marks(Tail(s)) = {}
         /\ Head(s) \in {"written", "writeError"} => Marks(Tail(s)) = {}
         /\ Head(s) \in {"written", "writeError"} => Marks(s) # {}
  <1>1. /\ Len(s) \in Nat \ {0} /\ Len(Tail(s)) = Len(s) - 1 /\ Head(s) = s[1]
        /\ \A i \in 1 .. Len(s) - 1 : Tail(s)[i] = s[i + 1]
    BY TailElements
  <1>2. \A i \in Marks(Tail(s)) : i \in Nat /\ i > 0 /\ i + 1 \in Marks(s)
    BY <1>1 DEF Marks
  <1>3. Head(s) \in {"written", "writeError"} => 1 \in Marks(s)
    BY <1>1 DEF Marks
  <1> QED BY <1>2, <1>3 DEF Single

\* The writes of a client stay single when its write queue is left alone and no
\* completion is added to its strand.
LEMMA SameWrites ==
  ASSUME TypeOK, SingleWrite, NEW c \in Clients, NEW t \in Seq(Handlers),
         strand' = [strand EXCEPT ![c] = t],
         UNCHANGED <<writeQueue, writing, writeOps>>,
         Single(t), Marks(strand[c]) = {} => Marks(t) = {}
  PROVE  SingleWrite'
  <1> SUFFICES ASSUME NEW d \in Clients
               PROVE  /\ writeOps'[d] <= 1
                      /\ writeOps'[d] = 1 => Marks(strand'[d]) = {}
                      /\ Single(strand'[d])
                      /\ writeOps'[d] = 1 \/ Marks(strand'[d]) # {} =>
                           writing'[d] /\ writeQueue'[d] # <<>>
    BY DEF SingleWrite, WriteCompletions, Marks, Single
  <1>1. /\ writeOps[d] <= 1
        /\ writeOps[d] = 1 => Marks(strand[d]) = {}
        /\ Single(strand[d])
        /\ writeOps[d] = 1 \/ Marks(strand[d]) # {} =>
             writing[d] /\ writeQueue[d] # <<>>
    BY DEF SingleWrite, WriteCompletions, Marks, Single
  <1>2. strand'[d] = IF d = c THEN t ELSE strand[d]
    BY DEF TypeOK
  <1> QED BY <1>1, <1>2

\* What a handler leaves on its strand before it posts anything.
LEMMA AfterPop ==
  ASSUME TypeOK, SingleWrite, NEW c \in Clients, strand[c] # <<>>
  PROVE  /\ Tail(strand[c]) \in Seq(Handlers)
         /\ Single(Tail(strand[c]))
         /\ Marks(strand[c]) = {} => Marks(Tail(strand[c])) = {}
         /\ Head(strand[c]) \in {"written", "writeError"} => Marks(Tail(strand[c])) = {}
         /\ Head(strand[c]) \in {"written", "writeError"} => Marks(strand[c]) # {}
  <1>1. strand[c] \in Seq(Handlers) /\ Single(strand[c])
    BY DEF TypeOK, SingleWrite, WriteCompletions, Single, Marks
  <1> QED BY <1>1, MarksTail, TailElements

\* SingleWrite is inductive: Send starts a write only when none is outstanding,
\* the write handler starts the next one only after its own completion.
LEMMA WriteStep == TypeOK /\ SingleWrite /\ [Next]_vars => SingleWrite'
  <1> SUFFICES ASSUME TypeOK, SingleWrite, [Next]_vars PROVE SingleWrite'
    OBVIOUS
  <1>a. ASSUME NEW c \in Clients, strand[c] # <<>>, Pop(c),
               UNCHANGED <<writeQueue, writing, writeOps>>
        PROVE  SingleWrite'
    BY <1>a, AfterPop, SameWrites DEF Pop
  <1>b. ASSUME NEW c \in Clients, NEW h \in Handlers \ {"written", "writeError"},
               strand[c] # <<>>, PopAndPost(c, h),
               UNCHANGED <<writeQueue, writing, writeOps>>
        PROVE  SingleWrite'
    <2> DEFINE t == Append(Tail(strand[c]), h)
    <2>1. /\ t \in Seq(Handlers)
          /\ Marks(t) = Marks(Tail(strand[c]))
      BY <1>b, AfterPop, MarksAppend
    <2>2. Single(t) /\ (Marks(strand[c]) = {} => Marks(t) = {})
      BY <1>b, <2>1, AfterPop DEF Single
    <2>3. strand' = [strand EXCEPT ![c] = t]
      BY <1>b DEF PopAndPost
    <2> HIDE DEF t
    <2> QED BY <1>b, <2>1, <2>2, <2>3, SameWrites
  <1>c. ASSUME NEW c \in Clients, NEW h \in Handlers \ {"written", "writeError"},
               NEW g \in Handlers \ {"written", "writeError"},
               strand[c] # <<>>, PopAndPostTwo(c, h, g),
               UNCHANGED <<writeQueue, writing, writeOps>>
        PROVE  SingleWrite'
    <2> DEFINE r == Append(Tail(strand[c]), h)
    <2> DEFINE t == Append(r, g)
    <2>1. r \in Seq(Handlers) /\ Marks(r) = Marks(Tail(strand[c]))
      BY <1>c, AfterPop, MarksAppend
    <2>2. strand' = [strand EXCEPT ![c] = t]
      BY <1>c DEF PopAndPostTwo
    <2> HIDE DEF r
    <2>3. t \in Seq(Handlers) /\ Marks(t) = Marks(r)
      BY <1>c, <2>1, MarksAppend
    <2>4. Single(t) /\ (Marks(strand[c]) = {} => Marks(t) = {})
      BY <1>c, <2>1, <2>3, AfterPop DEF Single
    <2> HIDE DEF t
    <2> QED BY <1>c, <2>2, <2>3, <2>4, SameWrites
  <1>d. ASSUME NEW c \in Clients, NEW h \in Handlers \ {"written", "writeError"},
               strand' = [strand EXCEPT ![c] = Append(@, h)],
               UNCHANGED <<writeQueue, writing, writeOps>>
        PROVE  SingleWrite'
    <2> DEFINE t == Append(strand[c], h)
    <2>1. strand[c] \in Seq(Handlers) /\ Single(strand[c])
      BY DEF TypeOK, SingleWrite, WriteCompletions, Single, Marks
    <2>2. t \in Seq(Handlers) /\ Marks(t) = Marks(strand[c])
      BY <1>d, <2>1, MarksAppend
    <2>3. Single(t)
      BY <2>1, <2>2 DEF Single
    <2>4. strand' = [strand EXCEPT ![c] = t]
      BY <1>d
    <2> HIDE DEF t
    <2> QED BY <1>d, <2>2, <2>3, <2>4, SameWrites
  <1>e. ASSUME UNCHANGED <<strand, writeQueue, writing, writeOps>> PROVE SingleWrite'
    BY <1>e DEF SingleWrite, WriteCompletions
  <1>f. {"requestDisconnect", "read", "readError"} \cup Messages
          \subseteq Handlers \ {"written", "writeError"}
    BY DEF Handlers, Messages
  <1>1. ASSUME NEW c \in Clients, Accept(c) PROVE SingleWrite'
    BY <1>1, <1>e DEF Accept, writeVars
  <1>2. ASSUME NEW c \in Clients, ReadCompletes(c) PROVE SingleWrite'
    BY <1>2, <1>d, <1>f DEF ReadCompletes, writeVars
  <1>3. ASSUME NEW c \in Clients, ReadFails(c) PROVE SingleWrite'
    BY <1>3, <1>d, <1>f DEF ReadFails, writeVars
  <1>4. ASSUME NEW c \in Clients, FloodDisconnect(c) PROVE SingleWrite'
    BY <1>4, <1>a DEF FloodDisconnect, Runs, writeVars
  <1>6. ASSUME NEW c \in Clients, Handshake(c) PROVE SingleWrite'
    BY <1>6, <1>b, <1>f DEF Handshake, HandleIncomingData, Runs, writeVars, Messages
  <1>7. ASSUME NEW c \in Clients, MalformedLogin(c) PROVE SingleWrite'
    BY <1>7, <1>a DEF MalformedLogin, HandleIncomingData, Runs, writeVars
  <1>8. ASSUME NEW c \in Clients, NEW n \in Names, LoginRejected(c, n) PROVE SingleWrite'
    BY <1>8, <1>c, <1>f DEF LoginRejected, HandleIncomingData, Runs, writeVars, Messages
  <1>9. ASSUME NEW c \in Clients, NEW n \in Names, LoginAccepted(c, n) PROVE SingleWrite'
    <2>1. PICK h \in {"OK", "RECONNECT"} : PopAndPost(c, h) \/ PopAndPostTwo(c, h, "WELCOME")
      BY <1>9 DEF LoginAccepted, LoginSends
    <2>2. strand[c] # <<>> /\ UNCHANGED <<writeQueue, writing, writeOps>>
      BY <1>9 DEF LoginAccepted, HandleIncomingData, Runs, writeVars
    <2> QED BY <1>b, <1>c, <1>f, <2>1, <2>2 DEF Messages
  <1>10. ASSUME NEW c \in Clients, NEW m \in BOOLEAN, GamePacket(c, m) PROVE SingleWrite'
    BY <1>10, <1>a DEF GamePacket, HandleIncomingData, Runs, writeVars
  <1>11. ASSUME NEW c \in Clients, LateData(c) PROVE SingleWrite'
    BY <1>11, <1>a DEF LateData, HandleIncomingData, Runs, writeVars
  <1>12. ASSUME NEW c \in Clients, ReadErrorHandler(c) PROVE SingleWrite'
    BY <1>12, <1>a DEF ReadErrorHandler, Runs, writeVars
  <1>14. ASSUME NEW c \in Clients, RunRequestDisconnect(c) PROVE SingleWrite'
    BY <1>14, <1>a DEF RunRequestDisconnect, Runs
  <1>17. ASSUME NEW c \in Clients, WriteErrorHandler(c) PROVE SingleWrite'
    BY <1>17, <1>a DEF WriteErrorHandler, Runs, writeVars
  <1>18. ASSUME NEW c \in Clients, TickUpdate(c) PROVE SingleWrite'
    BY <1>18, <1>d, <1>e, <1>f DEF TickUpdate, writeVars, Messages
  <1>20. CASE UNCHANGED vars
    BY <1>20, <1>e DEF vars
  <1>o. ASSUME NEW d \in Clients
        PROVE  /\ writeOps[d] \in Nat /\ writeOps[d] <= 1
               /\ writeOps[d] = 1 => Marks(strand[d]) = {}
               /\ Single(strand[d])
               /\ writeOps[d] = 1 \/ Marks(strand[d]) # {} =>
                    writing[d] /\ writeQueue[d] # <<>>
    BY DEF TypeOK, SingleWrite, WriteCompletions, Marks, Single
  <1>n. ASSUME \A d \in Clients :
                 /\ writeOps'[d] <= 1
                 /\ writeOps'[d] = 1 => Marks(strand'[d]) = {}
                 /\ Single(strand'[d])
                 /\ writeOps'[d] = 1 \/ Marks(strand'[d]) # {} =>
                      writing'[d] /\ writeQueue'[d] # <<>>
        PROVE  SingleWrite'
    BY <1>n DEF SingleWrite, WriteCompletions, Marks, Single
  <1>19. CASE TickStart
    <2>1. ASSUME NEW d \in Clients PROVE Marks(strand'[d]) = Marks(strand[d])
      <3>1. strand[d] \in Seq(Handlers) /\ "UPDATE" \in Handlers \ {"written", "writeError"}
        BY <1>f DEF TypeOK, Messages
      <3>2. Marks(Append(strand[d], "UPDATE")) = Marks(strand[d])
        BY <3>1, MarksAppend
      <3> QED BY <1>19, <3>2, TickPosts
    <2>2. UNCHANGED <<writeQueue, writing, writeOps>>
      BY <1>19 DEF TickStart, writeVars
    <2>3. ASSUME NEW d \in Clients
          PROVE  /\ writeOps'[d] <= 1
                 /\ writeOps'[d] = 1 => Marks(strand'[d]) = {}
                 /\ Single(strand'[d])
                 /\ writeOps'[d] = 1 \/ Marks(strand'[d]) # {} =>
                      writing'[d] /\ writeQueue'[d] # <<>>
      BY <1>o, <2>1, <2>2, Zenon DEF Single
    <2> QED BY <1>n, <2>3
  <1>13. ASSUME NEW c \in Clients, NEW m \in Messages, RunSend(c, m) PROVE SingleWrite'
    <2> DEFINE t == Tail(strand[c])
    <2>1. /\ strand[c] # <<>> /\ Head(strand[c]) = m /\ strand' = [strand EXCEPT ![c] = t]
          /\ m \notin {"written", "writeError"}
      BY <1>13, <1>f DEF RunSend, Runs, Pop
    <2>2. Single(t) /\ (Marks(strand[c]) = {} => Marks(t) = {})
      BY <2>1, AfterPop
    <2>3. Append(writeQueue[c], m) # <<>>
      <3>1. writeQueue[c] \in Seq(Messages)
        BY DEF TypeOK
      <3>2. Len(Append(writeQueue[c], m)) = Len(writeQueue[c]) + 1 /\ Len(writeQueue[c]) \in Nat
        BY <3>1, AppendElements
      <3> QED BY <3>2
    <2>4. PICK q : q # <<>> /\ writeQueue' = [writeQueue EXCEPT ![c] = q]
      BY <1>13, <2>3 DEF RunSend
    <2> HIDE DEF t
    <2>5. ASSUME NEW d \in Clients
          PROVE  /\ writeOps'[d] <= 1
                 /\ writeOps'[d] = 1 => Marks(strand'[d]) = {}
                 /\ Single(strand'[d])
                 /\ writeOps'[d] = 1 \/ Marks(strand'[d]) # {} =>
                      writing'[d] /\ writeQueue'[d] # <<>>
      <3>1. CASE d = c
        <4>1. strand'[d] = t /\ writeQueue'[d] = q
          BY <2>1, <2>4, <3>1 DEF TypeOK
        <4>2. writing'[d]
          BY <1>13, <3>1 DEF RunSend, TypeOK
        <4>3. writeOps'[d] = IF writing[c] THEN writeOps[c] ELSE writeOps[c] + 1
          BY <1>13, <3>1 DEF RunSend, TypeOK
        <4> QED BY <1>o, <2>2, <2>4, <4>1, <4>2, <4>3
      <3>2. CASE d # c
        <4>1. /\ strand'[d] = strand[d] /\ writing'[d] = writing[d]
              /\ writeQueue'[d] = writeQueue[d] /\ writeOps'[d] = writeOps[d]
          BY <1>13, <2>1, <2>4, <3>2 DEF RunSend, TypeOK
        <4> QED BY <1>o, <4>1
      <3> QED BY <3>1, <3>2
    <2> QED BY <1>n, <2>5
  <1>15. ASSUME NEW c \in Clients, WrittenHandler(c) PROVE SingleWrite'
    <2> DEFINE t == Tail(strand[c])
    <2>1. /\ strand[c] # <<>> /\ Head(strand[c]) = "written"
          /\ strand' = [strand EXCEPT ![c] = t]
      BY <1>15 DEF WrittenHandler, Runs, Pop
    <2>2. Single(t) /\ Marks(t) = {} /\ Marks(strand[c]) # {}
      BY <2>1, AfterPop
    <2>3. PICK q :
            /\ writeQueue' = [writeQueue EXCEPT ![c] = q]
            /\ writing' = [writing EXCEPT ![c] = q # <<>>]
            /\ writeOps' = [writeOps EXCEPT ![c] = IF q # <<>> THEN @ + 1 ELSE @]
      BY <1>15, Zenon DEF WrittenHandler
    <2> HIDE DEF t
    <2>5. ASSUME NEW d \in Clients
          PROVE  /\ writeOps'[d] <= 1
                 /\ writeOps'[d] = 1 => Marks(strand'[d]) = {}
                 /\ Single(strand'[d])
                 /\ writeOps'[d] = 1 \/ Marks(strand'[d]) # {} =>
                      writing'[d] /\ writeQueue'[d] # <<>>
      <3>1. CASE d = c
        <4>1. strand'[d] = t /\ writeQueue'[d] = q
          BY <2>1, <2>3, <3>1 DEF TypeOK
        <4>2. q # <<>> => writing'[d]
          BY <2>3, <3>1 DEF TypeOK
        <4>3. writeOps'[d] = IF q # <<>> THEN writeOps[c] + 1 ELSE writeOps[c]
          BY <2>3, <3>1 DEF TypeOK
        <4>4. writeOps[c] \in Nat /\ writeOps[c] <= 1 /\ writeOps[c] # 1
          BY <1>o, <2>2, Zenon
        <4>5. writeOps[c] = 0
          BY <4>4
        <4>6. CASE q = <<>>
          BY <2>2, <4>1, <4>3, <4>5, <4>6
        <4>7. CASE q # <<>>
          <5>1. writing'[d] /\ writeOps'[d] = 1
            BY <4>2, <4>3, <4>5, <4>7
          <5> QED BY <2>2, <4>1, <4>7, <5>1
        <4> QED BY <4>6, <4>7
      <3>2. CASE d # c
        <4>1. /\ strand'[d] = strand[d] /\ writing'[d] = writing[d]
              /\ writeQueue'[d] = writeQueue[d] /\ writeOps'[d] = writeOps[d]
          BY <2>1, <2>3, <3>2 DEF TypeOK
        <4> QED BY <1>o, <4>1
      <3> QED BY <3>1, <3>2
    <2> QED BY <1>n, <2>5
  <1>16. ASSUME NEW c \in Clients, NEW r \in {"written", "writeError"}, WriteCompletes(c, r)
         PROVE SingleWrite'
    <2> DEFINE t == Append(strand[c], r)
    <2>1. writeOps[c] = 1 /\ Marks(strand[c]) = {}
      BY <1>16, <1>o DEF WriteCompletes
    <2>2. Single(t)
      <3>1. strand[c] \in Seq(Handlers) /\ r \in Handlers
        BY DEF TypeOK, Handlers
      <3>2. \A i \in Marks(t) : i = Len(strand[c]) + 1
        BY <2>1, <3>1, AppendElements DEF Marks
      <3> QED BY <3>2 DEF Single
    <2>3. /\ strand' = [strand EXCEPT ![c] = t]
          /\ writeOps' = [writeOps EXCEPT ![c] = @ - 1]
          /\ UNCHANGED <<writeQueue, writing>>
      BY <1>16 DEF WriteCompletes
    <2> HIDE DEF t
    <2>5. ASSUME NEW d \in Clients
          PROVE  /\ writeOps'[d] <= 1
                 /\ writeOps'[d] = 1 => Marks(strand'[d]) = {}
                 /\ Single(strand'[d])
                 /\ writeOps'[d] = 1 \/ Marks(strand'[d]) # {} =>
                      writing'[d] /\ writeQueue'[d] # <<>>
      <3>1. CASE d = c
        <4>1. strand'[d] = t /\ writeOps'[d] = 0
          BY <2>1, <2>3, <3>1 DEF TypeOK
        <4> QED BY <1>o, <2>1, <2>2, <2>3, <3>1, <4>1
      <3>2. CASE d # c
        <4>1. strand'[d] = strand[d] /\ writeOps'[d] = writeOps[d]
          BY <2>3, <3>2 DEF TypeOK
        <4> QED BY <1>o, <2>3, <4>1
      <3> QED BY <3>1, <3>2
    <2> QED BY <1>n, <2>5
  <1>21. ASSUME NEW c \in Clients, Stuck(c) PROVE SingleWrite'
    BY <1>21, <1>e, StuckKeeps
  <1> QED
    BY <1>1, <1>2, <1>3, <1>4, <1>6, <1>7, <1>8, <1>9, <1>10, <1>11, <1>12, <1>13,
       <1>14, <1>15, <1>16, <1>17, <1>18, <1>19, <1>20, <1>21
       DEF Next, ClientStep, RunHandler, Stuck, Halted

----------------------------------------------------------------------------
(* Reads *)

Has(s, h) == \E i \in 1 .. Len(s) : s[i] = h

\* A handler stays on the strand when another one is posted.
LEMMA HasAppend ==
  ASSUME NEW s \in Seq(Handlers), NEW x \in Handlers
  PROVE  /\ Append(s, x) \in Seq(Handlers)
         /\ Has(Append(s, x), x)
         /\ \A h : Has(s, h) => Has(Append(s, x), h)
  <1>1. /\ Append(s, x) \in Seq(Handlers)
        /\ Len(s) \in Nat /\ Len(Append(s, x)) = Len(s) + 1
        /\ Append(s, x)[Len(s) + 1] = x
        /\ \A i \in 1 .. Len(s) : Append(s, x)[i] = s[i]
    BY AppendElements
  <1>2. Has(Append(s, x), x)
    BY <1>1 DEF Has
  <1>3. ASSUME NEW h, Has(s, h) PROVE Has(Append(s, x), h)
    <2>1. PICK i \in 1 .. Len(s) : s[i] = h
      BY <1>3 DEF Has
    <2>2. i \in 1 .. Len(s) + 1 /\ Append(s, x)[i] = h
      BY <1>1, <2>1
    <2> QED BY <1>1, <2>2 DEF Has
  <1> QED BY <1>1, <1>2, <1>3

\* A handler stays on the strand until it is at its head.
LEMMA HasTail ==
  ASSUME NEW s \in Seq(Handlers), s # <<>>
  PROVE  /\ Tail(s) \in Seq(Handlers)
         /\ \A h : Has(s, h) /\ Head(s) # h => Has(Tail(s), h)
  <1>1. /\ Tail(s) \in Seq(Handlers)
        /\ Len(s) \in Nat \ {0} /\ Len(Tail(s)) = Len(s) - 1 /\ Head(s) = s[1]
        /\ \A i \in 1 .. Len(s) - 1 : Tail(s)[i] = s[i + 1]
    BY TailElements
  <1>2. ASSUME NEW h, Has(s, h), Head(s) # h PROVE Has(Tail(s), h)
    <2>1. PICK i \in 1 .. Len(s) : s[i] = h
      BY <1>2 DEF Has
    <2>2. i - 1 \in 1 .. Len(s) - 1 /\ Tail(s)[i - 1] = h
      BY <1>1, <1>2, <2>1
    <2> QED BY <1>1, <2>2 DEF Has
  <1> QED BY <1>1, <1>2

\* Disconnect closes the socket of its client and of no other.
LEMMA DisconnectCloses ==
  ASSUME TypeOK, Lifecycle, NEW c \in Clients, Disconnect(c)
  PROVE  /\ disconnected'[c] /\ stage'[c] = "LOGGED_OUT"
         /\ \A d \in Clients \ {c} : disconnected'[d] = disconnected[d] /\ stage'[d] = stage[d]
         /\ sessions' = sessions \ {c} \/ (disconnected[c] /\ sessions' = sessions)
  BY DEF Disconnect, TypeOK, Lifecycle

\* The read chain is never broken while the socket is open: the read handler
\* starts the next read whatever it did, unless the read has failed.
LEMMA ReadStep == TypeOK /\ SingleWrite /\ Lifecycle /\ ReadChain /\ [Next]_vars => ReadChain'
  <1> SUFFICES ASSUME TypeOK, SingleWrite, Lifecycle, ReadChain, [Next]_vars PROVE ReadChain'
    OBVIOUS
  <1> DEFINE Chain(s) == Has(s, "read") \/ Has(s, "readError")
  <1> HIDE DEF Chain
  <1>s. \A c \in Clients : strand[c] \in Seq(Handlers)
    BY DEF TypeOK
  <1>a. ASSUME NEW c \in Clients,
               \A d \in Clients : SocketOpen(d)' /\ d # c => SocketOpen(d),
               \A d \in Clients \ {c} : readArmed'[d] = readArmed[d] /\ strand'[d] = strand[d],
               SocketOpen(c)' => readArmed'[c] \/ Chain(strand'[c])
        PROVE  ReadChain'
    BY <1>a DEF ReadChain, Queued, Has, Chain
  <1>b. \A c \in Clients : SocketOpen(c) => readArmed[c] \/ Chain(strand[c])
    BY DEF ReadChain, Queued, Has, Chain
  <1>c. ASSUME NEW c \in Clients, NEW x \in Handlers, Chain(strand[c]) \/ x \in {"read", "readError"}
        PROVE  Chain(Append(strand[c], x))
    BY <1>c, <1>s, HasAppend DEF Chain
  <1>d. ASSUME NEW c \in Clients, strand[c] # <<>>, Head(strand[c]) \notin {"read", "readError"},
               Chain(strand[c])
        PROVE  Chain(Tail(strand[c]))
    BY <1>d, <1>s, HasTail DEF Chain
  \* A handler that is no read handler, whether or not it disconnects.
  <1>e. ASSUME NEW c \in Clients, strand[c] # <<>>, Head(strand[c]) \notin {"read", "readError"},
               Pop(c), UNCHANGED readArmed,
               UNCHANGED <<stage, disconnected>> \/ Disconnect(c)
        PROVE  ReadChain'
    <2>1. \A d \in Clients : SocketOpen(d)' => SocketOpen(d)
      BY <1>e, DisconnectCloses DEF SocketOpen
    <2>2. /\ strand'[c] = Tail(strand[c])
          /\ \A d \in Clients \ {c} : strand'[d] = strand[d]
      BY <1>e DEF Pop, TypeOK
    <2>3. SocketOpen(c)' => readArmed'[c] \/ Chain(strand'[c])
      BY <1>b, <1>d, <1>e, <2>1, <2>2
    <2> QED BY <1>a, <1>e, <2>1, <2>2, <2>3
  \* A read handler: the next read is started.
  <1>f. ASSUME NEW c \in Clients, readArmed' = [readArmed EXCEPT ![c] = TRUE],
               \A d \in Clients \ {c} :
                 strand'[d] = strand[d] /\ stage'[d] = stage[d] /\ disconnected'[d] = disconnected[d]
        PROVE  ReadChain'
    <2>1. /\ readArmed'[c]
          /\ \A d \in Clients \ {c} : readArmed'[d] = readArmed[d]
      BY <1>f DEF TypeOK
    <2>2. \A d \in Clients : SocketOpen(d)' /\ d # c => SocketOpen(d)
      BY <1>f DEF SocketOpen
    <2> QED BY <1>a, <1>f, <2>1, <2>2
  \* Something is posted.
  <1>g. ASSUME NEW c \in Clients, NEW x \in Handlers,
               strand' = [strand EXCEPT ![c] = Append(@, x)],
               UNCHANGED <<stage, disconnected>>,
               \/ UNCHANGED readArmed
               \/ readArmed' = [readArmed EXCEPT ![c] = FALSE] /\ x \in {"read", "readError"}
        PROVE  ReadChain'
    <2>1. \A d \in Clients : SocketOpen(d)' => SocketOpen(d)
      BY <1>g DEF SocketOpen
    <2>2. /\ strand'[c] = Append(strand[c], x)
          /\ \A d \in Clients \ {c} : strand'[d] = strand[d] /\ readArmed'[d] = readArmed[d]
      BY <1>g DEF TypeOK
    <2>3. SocketOpen(c)' => readArmed'[c] \/ Chain(strand'[c])
      BY <1>b, <1>c, <1>g, <2>1, <2>2
    <2> QED BY <1>a, <2>1, <2>2, <2>3
  <1>h. ASSUME UNCHANGED <<strand, readArmed, stage, disconnected>> PROVE ReadChain'
    BY <1>h DEF ReadChain, Queued, SocketOpen
  <1>i. {"read", "readError", "written", "writeError", "UPDATE"} \subseteq Handlers
    BY DEF Handlers, Messages
  <1>1. ASSUME NEW c \in Clients, Accept(c) PROVE ReadChain'
    BY <1>1, <1>f DEF Accept, TypeOK
  <1>2. ASSUME NEW c \in Clients, ReadCompletes(c) PROVE ReadChain'
    BY <1>2, <1>g, <1>i DEF ReadCompletes, connVars
  <1>3. ASSUME NEW c \in Clients, ReadFails(c) PROVE ReadChain'
    BY <1>3, <1>g, <1>i DEF ReadFails, connVars
  <1>4. ASSUME NEW c \in Clients, FloodDisconnect(c) PROVE ReadChain'
    <2>1. \A d \in Clients \ {c} : stage'[d] = stage[d] /\ disconnected'[d] = disconnected[d]
      BY <1>4, DisconnectCloses DEF FloodDisconnect
    <2> QED BY <1>4, <1>f, <2>1 DEF FloodDisconnect, Pop, TypeOK
  <1>6. ASSUME NEW c \in Clients, Handshake(c) PROVE ReadChain'
    BY <1>6, <1>f DEF Handshake, HandleIncomingData, PopAndPost, TypeOK
  <1>7. ASSUME NEW c \in Clients, MalformedLogin(c) PROVE ReadChain'
    <2>1. \A d \in Clients \ {c} : stage'[d] = stage[d] /\ disconnected'[d] = disconnected[d]
      BY <1>7, DisconnectCloses DEF MalformedLogin
    <2> QED BY <1>7, <1>f, <2>1 DEF MalformedLogin, HandleIncomingData, Pop, TypeOK
  <1>8. ASSUME NEW c \in Clients, NEW n \in Names, LoginRejected(c, n) PROVE ReadChain'
    BY <1>8, <1>f DEF LoginRejected, HandleIncomingData, PopAndPostTwo, connVars, TypeOK
  <1>9. ASSUME NEW c \in Clients, NEW n \in Names, LoginAccepted(c, n) PROVE ReadChain'
    <2>1. PICK h : PopAndPost(c, h) \/ PopAndPostTwo(c, h, "WELCOME")
      BY <1>9 DEF LoginAccepted, LoginSends
    <2>2. \A d \in Clients \ {c} : strand'[d] = strand[d]
      BY <2>1 DEF PopAndPost, PopAndPostTwo, TypeOK
    <2>3. /\ readArmed' = [readArmed EXCEPT ![c] = TRUE]
          /\ \A d \in Clients \ {c} : stage'[d] = stage[d] /\ disconnected'[d] = disconnected[d]
      BY <1>9 DEF LoginAccepted, HandleIncomingData, TypeOK
    <2> QED BY <1>f, <2>2, <2>3
  <1>10. ASSUME NEW c \in Clients, NEW m \in BOOLEAN, GamePacket(c, m) PROVE ReadChain'
    BY <1>10, <1>f DEF GamePacket, HandleIncomingData, Pop, connVars, TypeOK
  <1>11. ASSUME NEW c \in Clients, LateData(c) PROVE ReadChain'
    BY <1>11, <1>f DEF LateData, HandleIncomingData, Pop, connVars, TypeOK
  <1>12. ASSUME NEW c \in Clients, ReadErrorHandler(c) PROVE ReadChain'
    <2>1. ~SocketOpen(c)' /\ \A d \in Clients : SocketOpen(d)' /\ d # c => SocketOpen(d)
      BY <1>12, DisconnectCloses DEF ReadErrorHandler, SocketOpen
    <2>2. \A d \in Clients \ {c} : readArmed'[d] = readArmed[d] /\ strand'[d] = strand[d]
      BY <1>12 DEF ReadErrorHandler, Pop, TypeOK
    <2> QED BY <1>a, <2>1, <2>2
  <1>13. ASSUME NEW c \in Clients, NEW m \in Messages, RunSend(c, m) PROVE ReadChain'
    BY <1>13, <1>e DEF RunSend, Runs, Messages, connVars
  <1>14. ASSUME NEW c \in Clients, RunRequestDisconnect(c) PROVE ReadChain'
    BY <1>14, <1>e DEF RunRequestDisconnect, Runs
  <1>15. ASSUME NEW c \in Clients, WrittenHandler(c) PROVE ReadChain'
    BY <1>15, <1>e DEF WrittenHandler, Runs
  <1>16. ASSUME NEW c \in Clients, NEW r \in {"written", "writeError"}, WriteCompletes(c, r)
         PROVE ReadChain'
    BY <1>16, <1>g, <1>i DEF WriteCompletes, connVars
  <1>17. ASSUME NEW c \in Clients, WriteErrorHandler(c) PROVE ReadChain'
    BY <1>17, <1>e DEF WriteErrorHandler, Runs
  <1>18. ASSUME NEW c \in Clients, TickUpdate(c) PROVE ReadChain'
    BY <1>18, <1>g, <1>h, <1>i DEF TickUpdate, connVars
  <1>19. CASE TickStart
    <2> SUFFICES ASSUME NEW d \in Clients, SocketOpen(d)'
                 PROVE  readArmed'[d] \/ Chain(strand'[d])
      BY DEF ReadChain, Queued, Has, Chain
    <2>1. SocketOpen(d) /\ readArmed'[d] = readArmed[d]
      BY <1>19 DEF TickStart, connVars, SocketOpen
    <2>2. Chain(strand[d]) => Chain(Append(strand[d], "UPDATE"))
      BY <1>c, <1>i
    <2> QED BY <1>19, <1>b, <2>1, <2>2, TickPosts
  <1>20. CASE UNCHANGED vars
    BY <1>20, <1>h DEF vars
  <1>21. ASSUME NEW c \in Clients, Stuck(c) PROVE ReadChain'
    BY <1>21, <1>h, StuckKeeps
  <1> QED
    BY <1>1, <1>2, <1>3, <1>4, <1>6, <1>7, <1>8, <1>9, <1>10, <1>11, <1>12, <1>13,
       <1>14, <1>15, <1>16, <1>17, <1>18, <1>19, <1>20, <1>21
       DEF Next, ClientStep, RunHandler, Stuck, Halted

----------------------------------------------------------------------------
(* The registry *)

\* A step that neither registers nor removes a player.
Quiet ==
  /\ UNCHANGED <<players, index, occupied, disconnected, hasPlayer>>
  /\ tick' \subseteq tick \cup Registered
  /\ \A d \in Clients : stage[d] = "LOGGED_IN" => username'[d] = username[d]
  /\ \A d \in Clients : stage[d] \in {"LOGGED_IN", "LOGGED_OUT"} \/ stage'[d] \in {"LOGGED_IN", "LOGGED_OUT"}
       => stage'[d] = stage[d]
  /\ \/ sessions' = sessions /\ \A d \in Clients : stage'[d] = "NONE" <=> stage[d] = "NONE"
     \/ \E c \in Clients :
          /\ stage[c] = "NONE" /\ sessions' = sessions \cup {c}
          /\ stage' = [stage EXCEPT ![c] = "CONNECTED"]

\* A step in which a client may disconnect.
Closing(c) == Disconnect(c) /\ UNCHANGED <<index, username, hasPlayer, tick>>

\* Every step is of one of three kinds, as far as the registry is concerned.
LEMMA StepKinds ==
  ASSUME TypeOK, [Next]_vars
  PROVE  \/ Quiet
         \/ \E c \in Clients : Closing(c)
         \/ \E c \in Clients, n \in Names : LoginAccepted(c, n)
  <1> USE DEF connVars, worldVars
  <1>1. ASSUME NEW c \in Clients, Accept(c) PROVE Quiet
    BY <1>1 DEF Accept, Quiet, TypeOK, Stages
  <1>2. ASSUME NEW c \in Clients, ReadCompletes(c) PROVE Quiet
    BY <1>2 DEF ReadCompletes, Quiet
  <1>3. ASSUME NEW c \in Clients, ReadFails(c) PROVE Quiet
    BY <1>3 DEF ReadFails, Quiet
  <1>4. ASSUME NEW c \in Clients, FloodDisconnect(c) PROVE Closing(c)
    BY <1>4 DEF FloodDisconnect, Closing
  <1>6. ASSUME NEW c \in Clients, Handshake(c) PROVE Quiet
    BY <1>6 DEF Handshake, HandleIncomingData, Quiet, TypeOK
  <1>7. ASSUME NEW c \in Clients, MalformedLogin(c) PROVE Closing(c)
    BY <1>7 DEF MalformedLogin, HandleIncomingData, Closing
  <1>8. ASSUME NEW c \in Clients, NEW n \in Names, LoginRejected(c, n) PROVE Quiet
    BY <1>8 DEF LoginRejected, HandleIncomingData, Quiet, TypeOK
  <1>10. ASSUME NEW c \in Clients, NEW m \in BOOLEAN, GamePacket(c, m) PROVE Quiet
    BY <1>10 DEF GamePacket, HandleIncomingData, Quiet
  <1>11. ASSUME NEW c \in Clients, LateData(c) PROVE Quiet
    BY <1>11 DEF LateData, HandleIncomingData, Quiet
  <1>12. ASSUME NEW c \in Clients, ReadErrorHandler(c) PROVE Closing(c)
    BY <1>12 DEF ReadErrorHandler, Closing
  <1>13. ASSUME NEW c \in Clients, NEW m \in Messages, RunSend(c, m) PROVE Quiet
    BY <1>13 DEF RunSend, Quiet
  <1>14. ASSUME NEW c \in Clients, RunRequestDisconnect(c) PROVE Closing(c) \/ Quiet
    BY <1>14 DEF RunRequestDisconnect, Closing, Quiet
  <1>15. ASSUME NEW c \in Clients, WrittenHandler(c) PROVE Closing(c) \/ Quiet
    BY <1>15 DEF WrittenHandler, Closing, Quiet
  <1>16. ASSUME NEW c \in Clients, NEW r \in {"written", "writeError"}, WriteCompletes(c, r)
         PROVE Quiet
    BY <1>16 DEF WriteCompletes, Quiet
  <1>17. ASSUME NEW c \in Clients, WriteErrorHandler(c) PROVE Closing(c)
    BY <1>17 DEF WriteErrorHandler, Closing
  <1>18. ASSUME NEW c \in Clients, TickUpdate(c) PROVE Quiet
    BY <1>18 DEF TickUpdate, Quiet
  <1>19. CASE TickStart
    BY <1>19 DEF TickStart, Quiet
  <1>20. CASE UNCHANGED vars
    BY <1>20 DEF vars, Quiet
  <1>21. ASSUME NEW c \in Clients, Stuck(c) PROVE Quiet
    BY <1>21, StuckKeeps DEF Quiet
  <1> QED
    BY <1>1, <1>2, <1>3, <1>4, <1>6, <1>7, <1>8, <1>10, <1>11, <1>12, <1>13,
       <1>14, <1>15, <1>16, <1>17, <1>18, <1>19, <1>20, <1>21
       DEF Next, ClientStep, RunHandler, Stuck, Halted

\* A registered player is registered under one name, its client's.
LEMMA RegisteredOnce ==
  ASSUME TypeOK, Owners
  PROVE  /\ \A c \in Registered : players[username[c]] = c /\ username[c] \in Names
         /\ \A c \in Registered : hasPlayer[c] /\ stage[c] = "LOGGED_IN" /\ index[c] \in Slots
         /\ \A n \in Names : players[n] # NoClient => players[n] \in Registered
         /\ \A n, m \in Names : players[n] = players[m] /\ players[n] # NoClient => n = m
         /\ NoClient \notin Registered
  <1>1. ASSUME NEW n \in Names, players[n] # NoClient
        PROVE  /\ players[n] \in Clients /\ username[players[n]] = n /\ hasPlayer[players[n]]
               /\ stage[players[n]] = "LOGGED_IN" /\ index[players[n]] \in Slots
    BY <1>1 DEF TypeOK, Owners
  <1>2. NoClient \notin Registered
    BY DEF Registered
  <1>3. ASSUME NEW c \in Registered PROVE \E n \in Names : players[n] = c /\ c # NoClient
    BY <1>2 DEF Registered
  <1>4. \A n \in Names : players[n] # NoClient => players[n] \in Registered
    BY <1>1 DEF Registered
  <1> QED BY <1>1, <1>2, <1>3, <1>4

\* An open connection keeps its Client alive.
LEMMA ChainAlive ==
  ASSUME ReadChain, NEW c \in Clients, SocketOpen(c)
  PROVE  ClientAlive(c)
  BY DEF ReadChain, Queued, ClientAlive

\* A login is accepted only when its name is free and its client has no player:
\* the client of a registered player is always found alive.
LEMMA AcceptedFresh ==
  ASSUME TypeOK, ReadChain, Lifecycle, Owners, NEW c \in Clients, NEW n \in Names,
         stage[c] = "LOGGING_IN", ~NameTaken(c, n)
  PROVE  players[n] = NoClient /\ c \notin Registered /\ ~disconnected[c]
  <1>1. c \notin Registered /\ ~disconnected[c]
    BY RegisteredOnce DEF Lifecycle
  <1>2. ASSUME players[n] # NoClient PROVE FALSE
    <2>1. players[n] \in Registered /\ players[n] \in Clients /\ stage[players[n]] = "LOGGED_IN"
      BY <1>2, RegisteredOnce DEF TypeOK
    <2>2. SocketOpen(players[n])
      BY <2>1 DEF SocketOpen, Lifecycle
    <2>3. ClientAlive(players[n]) /\ players[n] # c
      BY <2>1, <2>2, <1>1, ChainAlive
    <2> QED BY <1>2, <2>3 DEF NameTaken
  <1> QED BY <1>1, <1>2

\* A disconnecting client takes its own player, if it is registered, and none other.
LEMMA ClosingEffect ==
  ASSUME TypeOK, Owners, TickOwners, NEW c \in Clients, Closing(c)
  PROVE  \/ UNCHANGED <<players, occupied, index, username, hasPlayer, tick,
                       stage, disconnected, sessions>>
         \/ /\ ~disconnected[c] /\ disconnected' = [disconnected EXCEPT ![c] = TRUE]
            /\ stage' = [stage EXCEPT ![c] = "LOGGED_OUT"] /\ sessions' = sessions \ {c}
            /\ UNCHANGED <<index, username, hasPlayer, tick>>
            /\ \/ /\ c \in Registered
                  /\ players' = [players EXCEPT ![username[c]] = NoClient]
                  /\ occupied' = occupied \ {index[c]}
               \/ c \notin Registered /\ UNCHANGED <<players, occupied>>
  <1>1. CASE disconnected[c]
    BY <1>1 DEF Closing, Disconnect
  <1>2. CASE ~disconnected[c] /\ PlayerAlive(c)
    <2>1. c \in Registered
      BY <1>2 DEF PlayerAlive, TickOwners
    <2>2. players[username[c]] = c /\ c # NoClient
      BY <2>1, RegisteredOnce
    <2> QED BY <1>2, <2>1, <2>2 DEF Closing, Disconnect, RemovePlayer
  <1>3. CASE ~disconnected[c] /\ ~PlayerAlive(c)
    <2>1. c \notin Registered
      BY <1>3, RegisteredOnce DEF PlayerAlive
    <2> QED BY <1>3, <2>1 DEF Closing, Disconnect
  <1> QED BY <1>1, <1>2, <1>3

\* An accepted login registers the client's player in a free slot, or in none
\* when the world is full.
LEMMA LoginEffect ==
  ASSUME TypeOK, ReadChain, Lifecycle, Owners,
         NEW c \in Clients, NEW n \in Names, LoginAccepted(c, n)
  PROVE  /\ players[n] = NoClient /\ c \notin Registered /\ ~disconnected[c]
         /\ stage[c] = "LOGGING_IN" /\ stage' = [stage EXCEPT ![c] = "LOGGED_IN"]
         /\ username' = [username EXCEPT ![c] = n]
         /\ hasPlayer' = [hasPlayer EXCEPT ![c] = TRUE]
         /\ UNCHANGED <<disconnected, sessions, tick>>
         /\ \/ UNCHANGED <<players, index, occupied>>
            \/ \E i \in Slots \ occupied :
                 /\ occupied' = occupied \cup {i}
                 /\ index' = [index EXCEPT ![c] = i]
                 /\ players' = [players EXCEPT ![n] = c]
  <1>1. stage[c] = "LOGGING_IN" /\ ~NameTaken(c, n)
    BY DEF LoginAccepted, HandleIncomingData
  <1>2. players[n] = NoClient /\ c \notin Registered /\ ~disconnected[c]
    BY <1>1, AcceptedFresh
  <1>3. \/ UNCHANGED <<players, index, occupied>>
        \/ \E i \in Slots \ occupied :
             /\ occupied' = occupied \cup {i}
             /\ index' = [index EXCEPT ![c] = i]
             /\ players' = [players EXCEPT ![n] = c]
    BY DEF LoginAccepted, RegisterPlayer, FreeIndex, worldVars
  <1> QED BY <1>1, <1>2, <1>3 DEF LoginAccepted, HandleIncomingData

\* What a registration does to the set of registered players.
LEMMA RegisterSet ==
  ASSUME TypeOK, NEW c \in Clients, NEW n \in Names, players[n] = NoClient,
         players' = [players EXCEPT ![n] = c]
  PROVE  Registered' = Registered \cup {c}
  BY DEF Registered, TypeOK

\* What a removal does to it.
LEMMA RemoveSet ==
  ASSUME TypeOK, Owners, NEW c \in Registered,
         players' = [players EXCEPT ![username[c]] = NoClient]
  PROVE  Registered' = Registered \ {c}
  <1>1. username[c] \in Names /\ players[username[c]] = c /\ c # NoClient
    BY RegisteredOnce
  <1>2. \A m \in Names : players[m] = c => m = username[c]
    BY <1>1, RegisteredOnce
  <1>3. \A m \in Names : players'[m] = IF m = username[c] THEN NoClient ELSE players[m]
    BY <1>1 DEF TypeOK
  <1> QED BY <1>1, <1>2, <1>3 DEF Registered

\* The rest of the inductive invariant is preserved by every step.
LEMMA RegistryStep ==
  ASSUME Inv, [Next]_vars
  PROVE  Lifecycle' /\ Owners' /\ TickOwners' /\ SlotsExact' /\ OpenSessions'
  <1> USE DEF Inv
  <1>1. CASE Quiet
    <2> USE <1>1
    <2>1. UNCHANGED <<players, index, occupied, disconnected, hasPlayer>> /\ Registered' = Registered
      BY DEF Quiet, Registered
    <2>2. Lifecycle'
      BY DEF Quiet, Lifecycle
    <2>3. Owners'
      BY <2>1 DEF Quiet, Owners, TypeOK
    <2>4. TickOwners'
      BY <2>1 DEF Quiet, TickOwners
    <2>5. SlotsExact'
      BY <2>1 DEF SlotsExact
    <2>6. OpenSessions'
      <3>1. CASE sessions' = sessions /\ \A d \in Clients : stage'[d] = "NONE" <=> stage[d] = "NONE"
        BY <2>1, <3>1 DEF OpenSessions, SocketOpen
      <3>2. ASSUME NEW c \in Clients, stage[c] = "NONE", sessions' = sessions \cup {c},
                   stage' = [stage EXCEPT ![c] = "CONNECTED"]
            PROVE  OpenSessions'
        <4>1. ~disconnected[c]
          BY <3>2 DEF Lifecycle
        <4>2. \A d \in Clients : SocketOpen(d)' <=> SocketOpen(d) \/ d = c
          BY <2>1, <3>2, <4>1 DEF SocketOpen, TypeOK
        <4> QED BY <3>2, <4>2 DEF OpenSessions
      <3> QED BY <3>1, <3>2 DEF Quiet
    <2> QED BY <2>2, <2>3, <2>4, <2>5, <2>6
  <1>2. ASSUME NEW c \in Clients, Closing(c)
        PROVE  Lifecycle' /\ Owners' /\ TickOwners' /\ SlotsExact' /\ OpenSessions'
    <2>1. CASE UNCHANGED <<players, occupied, index, username, hasPlayer, tick,
                           stage, disconnected, sessions>>
      BY <2>1 DEF Lifecycle, Owners, TickOwners, SlotsExact, OpenSessions, Registered, SocketOpen
    <2>2. CASE /\ ~disconnected[c] /\ disconnected' = [disconnected EXCEPT ![c] = TRUE]
               /\ stage' = [stage EXCEPT ![c] = "LOGGED_OUT"] /\ sessions' = sessions \ {c}
               /\ UNCHANGED <<index, username, hasPlayer, tick>>
      <3>1. Lifecycle'
        BY <2>2 DEF Lifecycle, TypeOK
      <3>2. OpenSessions'
        <4>1. \A d \in Clients : SocketOpen(d)' <=> SocketOpen(d) /\ d # c
          BY <2>2 DEF SocketOpen, TypeOK
        <4> QED BY <2>2, <4>1 DEF OpenSessions
      <3>3. CASE /\ c \in Registered
                 /\ players' = [players EXCEPT ![username[c]] = NoClient]
                 /\ occupied' = occupied \ {index[c]}
        <4>1. Registered' = Registered \ {c}
          BY <3>3, RemoveSet
        <4>2. username[c] \in Names /\ players[username[c]] = c
          BY <3>3, RegisteredOnce
        <4>3. Owners'
          <5>1. ASSUME NEW n \in Names, players'[n] # NoClient
                PROVE  players[n] # NoClient /\ players'[n] = players[n] /\ players[n] # c
            BY <3>3, <4>2, <5>1, RegisteredOnce DEF TypeOK
          <5> QED BY <2>2, <5>1 DEF Owners, TypeOK
        <4>4. TickOwners'
          BY <2>2, <4>1 DEF TickOwners, TypeOK
        <4>5. SlotsExact'
          BY <2>2, <3>3, <4>1 DEF SlotsExact
        <4> QED BY <3>1, <3>2, <4>3, <4>4, <4>5
      <3>4. CASE c \notin Registered /\ UNCHANGED <<players, occupied>>
        <4>1. Registered' = Registered
          BY <3>4 DEF Registered
        <4>2. Owners'
          <5>1. ASSUME NEW n \in Names, players[n] # NoClient
                PROVE  players[n] # c
            BY <3>4, <5>1, RegisteredOnce
          <5> QED BY <2>2, <3>4, <5>1 DEF Owners, TypeOK
        <4>3. TickOwners'
          BY <2>2, <4>1 DEF TickOwners, TypeOK
        <4>4. SlotsExact'
          BY <2>2, <3>4, <4>1 DEF SlotsExact
        <4> QED BY <3>1, <3>2, <4>2, <4>3, <4>4
      <3>5. disconnected' # disconnected
        BY <2>2 DEF TypeOK
      <3> QED BY <1>2, <2>2, <3>3, <3>4, <3>5, ClosingEffect
    <2> QED BY <1>2, <2>1, <2>2, ClosingEffect
  <1>3. ASSUME NEW c \in Clients, NEW n \in Names, LoginAccepted(c, n)
        PROVE  Lifecycle' /\ Owners' /\ TickOwners' /\ SlotsExact' /\ OpenSessions'
    <2>1. /\ players[n] = NoClient /\ c \notin Registered /\ ~disconnected[c]
          /\ stage[c] = "LOGGING_IN" /\ stage' = [stage EXCEPT ![c] = "LOGGED_IN"]
          /\ username' = [username EXCEPT ![c] = n]
          /\ hasPlayer' = [hasPlayer EXCEPT ![c] = TRUE]
          /\ UNCHANGED <<disconnected, sessions, tick>>
      BY <1>3, LoginEffect
    <2>2. \A m \in Names : players[m] # c
      BY <2>1 DEF Registered
    <2>3. Lifecycle'
      BY <2>1 DEF Lifecycle, TypeOK
    <2>4. OpenSessions'
      BY <2>1 DEF OpenSessions, SocketOpen, TypeOK
    <2>5. CASE UNCHANGED <<players, index, occupied>>
      <3>1. Registered' = Registered
        BY <2>5 DEF Registered
      <3>2. Owners'
        BY <2>1, <2>2, <2>5 DEF Owners, TypeOK
      <3>3. TickOwners' /\ SlotsExact'
        BY <2>1, <2>5, <3>1 DEF TickOwners, SlotsExact
      <3> QED BY <2>3, <2>4, <3>2, <3>3
    <2>6. ASSUME NEW i \in Slots \ occupied, occupied' = occupied \cup {i},
                 index' = [index EXCEPT ![c] = i], players' = [players EXCEPT ![n] = c]
          PROVE  Owners' /\ TickOwners' /\ SlotsExact'
      <3>1. Registered' = Registered \cup {c}
        BY <2>1, <2>6, RegisterSet
      <3>2. Owners'
        BY <2>1, <2>2, <2>6 DEF Owners, TypeOK
      <3>3. TickOwners'
        BY <2>1, <3>1 DEF TickOwners
      <3>4. index'[c] = i /\ \A d \in Registered : index'[d] = index[d] /\ index[d] \in occupied
        BY <2>1, <2>6 DEF SlotsExact, Registered, TypeOK
      <3>5. SlotsExact'
        BY <2>6, <3>1, <3>4 DEF SlotsExact
      <3> QED BY <3>2, <3>3, <3>5
    <2> QED BY <1>3, <2>3, <2>4, <2>5, <2>6, LoginEffect
  <1> QED BY <1>1, <1>2, <1>3, StepKinds

----------------------------------------------------------------------------
(* Theorems *)

\* The inductive invariant holds initially ...
LEMMA InvInit == Init => Inv
  <1> SUFFICES ASSUME Init PROVE Inv
    OBVIOUS
  <1>1. TypeOK
    BY DEF Init, TypeOK, Stages, Slots
  <1>2. SingleWrite
    <2>1. ASSUME NEW c \in Clients PROVE writeOps[c] = 0 /\ WriteCompletions(c) = {}
      <3>1. writeOps[c] = 0 /\ strand[c] = <<>>
        BY DEF Init
      <3>2. Len(strand[c]) = 0
        BY <3>1
      <3> QED BY <3>1, <3>2 DEF WriteCompletions
    <2>2. ASSUME NEW c \in Clients
          PROVE  /\ writeOps[c] <= 1
                 /\ writeOps[c] = 1 => WriteCompletions(c) = {}
                 /\ \A i, j \in WriteCompletions(c) : i = j
                 /\ writeOps[c] = 1 \/ WriteCompletions(c) # {} =>
                      writing[c] /\ writeQueue[c] # <<>>
      BY <2>1
    <2> QED BY <2>2 DEF SingleWrite
  <1>3. Registered = {}
    BY DEF Init, Registered
  <1>4. SlotsExact /\ TickOwners
    BY <1>3 DEF Init, SlotsExact, TickOwners
  <1>5. ReadChain /\ Lifecycle /\ Owners /\ OpenSessions
    BY DEF Init, ReadChain, Lifecycle, Owners, OpenSessions, SocketOpen
  <1> QED BY <1>1, <1>2, <1>4, <1>5 DEF Inv

\* ... and is preserved by every step.
LEMMA InvStep == Inv /\ [Next]_vars => Inv'
  BY TypeStep, WriteStep, ReadStep, RegistryStep DEF Inv

\* ... so it holds in every state, whatever the handlers of the connections do.
LEMMA InvAlways == Spec => []Inv
  BY InvInit, InvStep, PTL DEF Spec

\* Every variable keeps its type, and a completed write always finds its buffer.
THEOREM TypeCorrect == Spec => []TypeOK
  <1>1. Inv => TypeOK
    BY DEF Inv
  <1> QED BY <1>1, InvAlways, PTL

\* DoWrite never has two writes of one connection outstanding.
THEOREM SingleWriteCorrect == Spec => []SingleWrite
  <1>1. Inv => SingleWrite
    BY DEF Inv
  <1> QED BY <1>1, InvAlways, PTL

\* m_OccupiedIndices is exactly the set of the registered players' slots, for
\* any number of clients, names and slots.
THEOREM SlotsCorrect == Spec => []SlotsExact
  <1>1. Inv => SlotsExact
    BY DEF Inv
  <1> QED BY <1>1, InvAlways, PTL

\* Every registered player has a live, connected client logged in under its name.
THEOREM OwnersCorrect == Spec => []OwnersOnline
  <1>1. Inv => OwnersOnline
    <2> SUFFICES ASSUME Inv, NEW n \in Names, players[n] # NoClient
                 PROVE  LET c == players[n] IN
                          /\ username[c] = n /\ hasPlayer[c]
                          /\ stage[c] = "LOGGED_IN" /\ ~disconnected[c]
                          /\ ClientAlive(c)
      BY DEF OwnersOnline
    <2> DEFINE c == players[n]
    <2>1. c \in Clients /\ username[c] = n /\ hasPlayer[c] /\ stage[c] = "LOGGED_IN"
      BY DEF Inv, Owners, TypeOK
    <2>2. ~disconnected[c] /\ SocketOpen(c)
      BY <2>1 DEF Inv, Lifecycle, SocketOpen
    <2>3. ClientAlive(c)
      BY <2>1, <2>2, ChainAlive DEF Inv
    <2> QED BY <2>1, <2>2, <2>3
  <1> QED BY <1>1, InvAlways, PTL

\* m_Sessions is exactly the set of open connections, all of them alive.
THEOREM SessionsCorrect == Spec => []SessionsExact
  <1>1. Inv => SessionsExact
    BY ChainAlive DEF Inv, OpenSessions, SessionsExact
  <1> QED BY <1>1, InvAlways, PTL

\* A player leaves the registry only when its own client disconnects.
THEOREM LogoutCorrect == Spec => OnlyOwnLogout
  <1>1. Inv /\ [Next]_vars =>
          [\A n \in Names : players[n] # NoClient /\ players'[n] # players[n] =>
             players'[n] = NoClient /\ disconnected'[players[n]]]_vars
    <2> SUFFICES ASSUME Inv, [Next]_vars, NEW n \in Names,
                        players[n] # NoClient, players'[n] # players[n]
                 PROVE  players'[n] = NoClient /\ disconnected'[players[n]]
      OBVIOUS
    <2>1. ~Quiet
      BY DEF Quiet
    <2>2. ASSUME NEW c \in Clients, Closing(c)
          PROVE  players'[n] = NoClient /\ disconnected'[players[n]]
      <3>1. /\ c \in Registered /\ players' = [players EXCEPT ![username[c]] = NoClient]
            /\ disconnected' = [disconnected EXCEPT ![c] = TRUE]
        BY <2>2, ClosingEffect DEF Inv
      <3>2. n = username[c]
        BY <3>1 DEF Inv, TypeOK
      <3>3. players[n] = c
        BY <3>1, <3>2, RegisteredOnce DEF Inv
      <3> QED BY <3>1, <3>2, <3>3 DEF Inv, TypeOK
    <2>3. ASSUME NEW c \in Clients, NEW m \in Names, LoginAccepted(c, m) PROVE FALSE
      <3>1. /\ players[m] = NoClient
            /\ UNCHANGED players \/ players' = [players EXCEPT ![m] = c]
        BY <2>3, LoginEffect DEF Inv
      <3> QED BY <3>1 DEF Inv, TypeOK
    <2> QED BY <2>1, <2>2, <2>3, StepKinds DEF Inv
  <1> QED BY <1>1, InvAlways, PTL DEF Spec, OnlyOwnLogout

\* The slot of a name, as the abstract specification sees it.
SlotOf == [n \in Names |-> IF players[n] = NoClient THEN -1 ELSE index[players[n]]]

\* The registry, driven by the handlers of all connections, implements the
\* abstract accounts.
THEOREM AccountsCorrect == Spec => AccountsSpec
  <1>1. Init => A!Init
    BY DEF Init, A!Init
  <1>2. Inv /\ [Next]_vars => [A!Next]_<<players, SlotOf>>
    <2> SUFFICES ASSUME Inv, [Next]_vars PROVE [A!Next]_<<players, SlotOf>>
      OBVIOUS
    <2>1. CASE Quiet
      BY <2>1 DEF Quiet, SlotOf
    <2>2. ASSUME NEW c \in Clients, Closing(c) PROVE [A!Next]_<<players, SlotOf>>
      <3>1. CASE UNCHANGED <<players, index>>
        BY <3>1 DEF SlotOf
      <3>2. CASE /\ c \in Registered /\ UNCHANGED index
                 /\ players' = [players EXCEPT ![username[c]] = NoClient]
        <4>1. PICK n \in Names : n = username[c] /\ players[n] = c /\ c # NoClient
          BY <3>2, RegisteredOnce DEF Inv
        <4>2. players' = [players EXCEPT ![n] = NoClient]
          BY <3>2, <4>1
        <4>3. SlotOf' = [SlotOf EXCEPT ![n] = -1]
          BY <3>2, <4>1, <4>2 DEF SlotOf, Inv, TypeOK
        <4>4. A!LogOut(n)
          BY <4>1, <4>2, <4>3 DEF A!LogOut, SlotOf
        <4> QED BY <4>1, <4>4 DEF A!Next
      <3> QED BY <2>2, <3>1, <3>2, ClosingEffect DEF Inv
    <2>3. ASSUME NEW c \in Clients, NEW n \in Names, LoginAccepted(c, n)
          PROVE  [A!Next]_<<players, SlotOf>>
      <3>1. players[n] = NoClient /\ c \notin Registered
        BY <2>3, LoginEffect DEF Inv
      <3>2. CASE UNCHANGED <<players, index>>
        BY <3>2 DEF SlotOf
      <3>3. ASSUME NEW i \in Slots \ occupied, index' = [index EXCEPT ![c] = i],
                   players' = [players EXCEPT ![n] = c]
            PROVE  [A!Next]_<<players, SlotOf>>
        <4>1. \A m \in Names : players[m] # c
          BY <3>1 DEF Registered
        <4>2. \A m \in Names : players[m] # NoClient => index[players[m]] \in occupied
          BY RegisteredOnce DEF Inv, SlotsExact
        <4>3. \A m \in Names : players[m] # c /\ SlotOf[m] # i
          BY <3>3, <4>1, <4>2 DEF SlotOf, Slots
        <4>4. SlotOf' = [SlotOf EXCEPT ![n] = i]
          BY <3>1, <3>3, <4>1 DEF SlotOf, Inv, TypeOK
        <4>5. A!LogIn(n, c, i)
          BY <3>1, <3>3, <4>3, <4>4 DEF A!LogIn, SlotOf
        <4>6. i \in 0 .. MaxPlayers - 1
          BY <3>3 DEF Slots
        <4> QED BY <4>5, <4>6 DEF A!Next
      <3> QED BY <2>3, <3>2, <3>3, LoginEffect DEF Inv
    <2> QED BY <2>1, <2>2, <2>3, StepKinds DEF Inv
  <1> QED BY <1>1, <1>2, InvAlways, PTL DEF Spec, AccountsSpec, A!Spec, SlotOf

----------------------------------------------------------------------------
(* A rejected login: the raw pointer in the lambda of RequestDisconnect, and the response *)
(* it waits for                                                                           *)

\* Behind every queued lambda of RequestDisconnect there is a read: the one the read
\* handler that posted it has started afterwards.
Followed(s, armed) ==
  \A i \in 1 .. Len(s) : s[i] = "requestDisconnect" =>
    armed \/ \E j \in 1 .. Len(s) : j > i /\ s[j] \in {"read", "readError"}

CallbackChain == \A c \in Clients : Followed(strand[c], readArmed[c])

\* Before every queued lambda of RequestDisconnect there is the response: told to the
\* peer, waiting to be written, or posted before it.
Preceded(s, q, t) ==
  \A i \in 1 .. Len(s) : s[i] = "requestDisconnect" =>
    t \/ Has(q, "ONLINE") \/ \E j \in 1 .. Len(s) : j < i /\ s[j] = "ONLINE"

\* A response whose write has completed has been told, and the note RequestDisconnect
\* leaves to the write handler is there only if the response was told or still waits.
Answered(s, q, p, t) ==
  /\ Preceded(s, q, t)
  /\ p => t \/ Has(q, "ONLINE")
  /\ Has(s, "written") /\ Head(q) = "ONLINE" => t

Responses == \A c \in Clients : Answered(strand[c], writeQueue[c], pending[c], told[c])

----------------------------------------------------------------------------
(* Strands *)

\* The read behind the lambda stays behind it when the strand's head is taken.
LEMMA FollowedTail ==
  ASSUME NEW s \in Seq(Handlers), s # <<>>, NEW armed \in BOOLEAN, Followed(s, armed)
  PROVE  Followed(Tail(s), armed)
  <1>1. /\ Len(s) \in Nat \ {0} /\ Len(Tail(s)) = Len(s) - 1
        /\ \A i \in 1 .. Len(s) - 1 : Tail(s)[i] = s[i + 1]
    BY TailElements
  <1> SUFFICES ASSUME NEW i \in 1 .. Len(Tail(s)), Tail(s)[i] = "requestDisconnect", ~armed
               PROVE  \E j \in 1 .. Len(Tail(s)) : j > i /\ Tail(s)[j] \in {"read", "readError"}
    BY DEF Followed
  <1>2. i + 1 \in 1 .. Len(s) /\ s[i + 1] = "requestDisconnect"
    BY <1>1
  <1>3. PICK j \in 1 .. Len(s) : j > i + 1 /\ s[j] \in {"read", "readError"}
    BY <1>2 DEF Followed
  <1>4. j - 1 \in 1 .. Len(Tail(s)) /\ j - 1 > i /\ Tail(s)[j - 1] = s[j]
    BY <1>1, <1>3
  <1> QED BY <1>3, <1>4

\* A completed read joins the strand behind the lambda.
LEMMA FollowedAppend ==
  ASSUME NEW s \in Seq(Handlers), NEW x \in Handlers, NEW armed \in BOOLEAN, NEW still \in BOOLEAN,
         Followed(s, armed), x # "requestDisconnect",
         armed => still \/ x \in {"read", "readError"}
  PROVE  Followed(Append(s, x), still)
  <1>1. /\ Len(s) \in Nat /\ Len(Append(s, x)) = Len(s) + 1
        /\ Append(s, x)[Len(s) + 1] = x
        /\ \A i \in 1 .. Len(s) : Append(s, x)[i] = s[i]
    BY AppendElements
  <1> SUFFICES ASSUME NEW i \in 1 .. Len(Append(s, x)), Append(s, x)[i] = "requestDisconnect",
                      ~still
               PROVE  \E j \in 1 .. Len(Append(s, x)) :
                        j > i /\ Append(s, x)[j] \in {"read", "readError"}
    BY DEF Followed
  <1>2. i \in 1 .. Len(s) /\ s[i] = "requestDisconnect"
    BY <1>1
  <1>3. CASE armed
    <2>1. Len(s) + 1 \in 1 .. Len(Append(s, x)) /\ Len(s) + 1 > i
      BY <1>1, <1>2
    <2> QED BY <1>1, <1>3, <2>1
  <1>4. CASE ~armed
    <2>1. PICK j \in 1 .. Len(s) : j > i /\ s[j] \in {"read", "readError"}
      BY <1>2, <1>4 DEF Followed
    <2>2. j \in 1 .. Len(Append(s, x)) /\ Append(s, x)[j] = s[j]
      BY <1>1, <2>1
    <2> QED BY <2>1, <2>2
  <1> QED BY <1>3, <1>4

\* The tail of a strand has nothing the strand does not have.
LEMMA HasTailBack ==
  ASSUME NEW S, NEW s \in Seq(S), s # <<>>, NEW h, Has(Tail(s), h)
  PROVE  Has(s, h)
  <1>1. /\ Len(s) \in Nat \ {0} /\ Len(Tail(s)) = Len(s) - 1
        /\ \A i \in 1 .. Len(s) - 1 : Tail(s)[i] = s[i + 1]
    BY TailElements
  <1>2. PICK i \in 1 .. Len(Tail(s)) : Tail(s)[i] = h
    BY DEF Has
  <1>3. i + 1 \in 1 .. Len(s) /\ s[i + 1] = h
    BY <1>1, <1>2
  <1> QED BY <1>3 DEF Has

\* What a strand has after something was added was there before, or was added.
LEMMA HasAppendBack ==
  ASSUME NEW S, NEW s \in Seq(S), NEW x \in S, NEW h, Has(Append(s, x), h), x # h
  PROVE  Has(s, h)
  <1>1. /\ Len(s) \in Nat /\ Len(Append(s, x)) = Len(s) + 1
        /\ Append(s, x)[Len(s) + 1] = x
        /\ \A i \in 1 .. Len(s) : Append(s, x)[i] = s[i]
    BY AppendElements
  <1>2. PICK i \in 1 .. Len(Append(s, x)) : Append(s, x)[i] = h
    BY DEF Has
  <1>3. i \in 1 .. Len(s) /\ s[i] = h
    BY <1>1, <1>2
  <1> QED BY <1>3 DEF Has

\* A response posted before the lambda is queued for writing when its Send runs.
LEMMA PrecededTail ==
  ASSUME NEW s \in Seq(Handlers), s # <<>>, NEW q, NEW r, NEW t \in BOOLEAN,
         Preceded(s, q, t), Head(s) = "ONLINE" => Has(r, "ONLINE"),
         Has(q, "ONLINE") => t \/ Has(r, "ONLINE")
  PROVE  Preceded(Tail(s), r, t)
  <1>1. /\ Len(s) \in Nat \ {0} /\ Len(Tail(s)) = Len(s) - 1 /\ Head(s) = s[1]
        /\ \A i \in 1 .. Len(s) - 1 : Tail(s)[i] = s[i + 1]
    BY TailElements
  <1> SUFFICES ASSUME NEW i \in 1 .. Len(Tail(s)), Tail(s)[i] = "requestDisconnect",
                      ~t, ~Has(r, "ONLINE")
               PROVE  \E j \in 1 .. Len(Tail(s)) : j < i /\ Tail(s)[j] = "ONLINE"
    BY DEF Preceded
  <1>2. i + 1 \in 1 .. Len(s) /\ s[i + 1] = "requestDisconnect"
    BY <1>1
  <1>3. PICK j \in 1 .. Len(s) : j < i + 1 /\ s[j] = "ONLINE"
    BY <1>2 DEF Preceded
  <1>4. j # 1
    BY <1>1, <1>3
  <1>5. j - 1 \in 1 .. Len(Tail(s)) /\ j - 1 < i /\ Tail(s)[j - 1] = "ONLINE"
    BY <1>1, <1>3, <1>4
  <1> QED BY <1>5

\* What is posted after the lambda makes no difference to it.
LEMMA PrecededAppend ==
  ASSUME NEW s \in Seq(Handlers), NEW x \in Handlers, NEW q, NEW t \in BOOLEAN,
         NEW now \in BOOLEAN, t => now, Preceded(s, q, t),
         x = "requestDisconnect" => Has(s, "ONLINE")
  PROVE  Preceded(Append(s, x), q, now)
  <1>1. /\ Len(s) \in Nat /\ Len(Append(s, x)) = Len(s) + 1
        /\ Append(s, x)[Len(s) + 1] = x
        /\ \A i \in 1 .. Len(s) : Append(s, x)[i] = s[i]
    BY AppendElements
  <1> SUFFICES ASSUME NEW i \in 1 .. Len(Append(s, x)), Append(s, x)[i] = "requestDisconnect",
                      ~now, ~Has(q, "ONLINE")
               PROVE  \E j \in 1 .. Len(Append(s, x)) : j < i /\ Append(s, x)[j] = "ONLINE"
    BY DEF Preceded
  <1>2. CASE i = Len(s) + 1
    <2>1. PICK j \in 1 .. Len(s) : s[j] = "ONLINE"
      BY <1>1, <1>2 DEF Has
    <2>2. j \in 1 .. Len(Append(s, x)) /\ j < i /\ Append(s, x)[j] = "ONLINE"
      BY <1>1, <1>2, <2>1
    <2> QED BY <2>2
  <1>3. CASE i # Len(s) + 1
    <2>1. i \in 1 .. Len(s) /\ s[i] = "requestDisconnect"
      BY <1>1, <1>3
    <2>2. PICK j \in 1 .. Len(s) : j < i /\ s[j] = "ONLINE"
      BY <2>1 DEF Preceded
    <2>3. j \in 1 .. Len(Append(s, x)) /\ Append(s, x)[j] = "ONLINE"
      BY <1>1, <2>2
    <2> QED BY <2>2, <2>3
  <1> QED BY <1>2, <1>3
----------------------------------------------------------------------------
(* The read behind the lambda *)

\* A handler that changes one client's strand and its read leaves the other clients as
\* they are.
LEMMA OneStrand ==
  ASSUME TypeOK, CallbackChain, NEW c \in Clients, NEW t, NEW armed,
         strand' = [strand EXCEPT ![c] = t], readArmed' = [readArmed EXCEPT ![c] = armed],
         Followed(t, armed)
  PROVE  CallbackChain'
  <1> SUFFICES ASSUME NEW d \in Clients PROVE Followed(strand'[d], readArmed'[d])
    BY DEF CallbackChain
  <1>1. CASE d = c
    <2>1. strand'[d] = t /\ readArmed'[d] = armed
      BY <1>1 DEF TypeOK
    <2> QED BY <2>1
  <1>2. CASE d # c
    <2>1. strand'[d] = strand[d] /\ readArmed'[d] = readArmed[d]
      BY <1>2 DEF TypeOK
    <2> QED BY <2>1 DEF CallbackChain
  <1> QED BY <1>1, <1>2

\* Every step keeps a read behind the lambda: the read handler starts the next read, and
\* the one that does not, after an error, was itself behind it.
LEMMA CallbackStep == TypeOK /\ CallbackChain /\ [Next]_vars => CallbackChain'
  <1> SUFFICES ASSUME TypeOK, CallbackChain, [Next]_vars PROVE CallbackChain'
    OBVIOUS
  <1>a. ASSUME NEW c \in Clients
        PROVE  /\ strand[c] \in Seq(Handlers) /\ readArmed[c] \in BOOLEAN
               /\ readArmed = [readArmed EXCEPT ![c] = readArmed[c]]
               /\ Followed(strand[c], readArmed[c])
    BY DEF TypeOK, CallbackChain
  <1>b. ASSUME NEW c \in Clients, NEW t, strand' = [strand EXCEPT ![c] = t],
               readArmed' = [readArmed EXCEPT ![c] = TRUE]
        PROVE  CallbackChain'
    <2>1. Followed(t, TRUE)
      BY DEF Followed
    <2> QED BY <1>b, <2>1, OneStrand
  <1>c. ASSUME NEW c \in Clients, strand[c] # <<>>, Pop(c), UNCHANGED readArmed
        PROVE  CallbackChain'
    <2>1. Followed(Tail(strand[c]), readArmed[c])
      BY <1>a, <1>c, FollowedTail
    <2>2. /\ strand' = [strand EXCEPT ![c] = Tail(strand[c])]
          /\ readArmed' = [readArmed EXCEPT ![c] = readArmed[c]]
      BY <1>a, <1>c DEF Pop
    <2> QED BY <2>1, <2>2, OneStrand
  <1>d. ASSUME NEW c \in Clients, NEW x \in Handlers \ {"requestDisconnect"}, NEW still \in BOOLEAN,
               readArmed[c] => still \/ x \in {"read", "readError"},
               strand' = [strand EXCEPT ![c] = Append(@, x)],
               readArmed' = [readArmed EXCEPT ![c] = still]
        PROVE  CallbackChain'
    <2>1. Followed(Append(strand[c], x), still)
      BY <1>a, <1>d, FollowedAppend
    <2>2. strand' = [strand EXCEPT ![c] = Append(strand[c], x)]
      BY <1>d
    <2> QED BY <1>d, <2>1, <2>2, OneStrand
  <1>e. {"read", "readError", "written", "writeError", "UPDATE"} \subseteq Handlers \ {"requestDisconnect"}
    BY DEF Handlers, Messages
  <1>1. ASSUME NEW c \in Clients, Accept(c) PROVE CallbackChain'
    <2>1. strand' = [strand EXCEPT ![c] = strand[c]] /\ readArmed' = [readArmed EXCEPT ![c] = TRUE]
      BY <1>1 DEF Accept, TypeOK
    <2> QED BY <1>b, <2>1
  <1>2. ASSUME NEW c \in Clients, ReadCompletes(c) PROVE CallbackChain'
    BY <1>2, <1>d, <1>e DEF ReadCompletes
  <1>3. ASSUME NEW c \in Clients, ReadFails(c) PROVE CallbackChain'
    BY <1>3, <1>d, <1>e DEF ReadFails
  <1>4. ASSUME NEW c \in Clients, FloodDisconnect(c) PROVE CallbackChain'
    BY <1>4, <1>b DEF FloodDisconnect, Pop
  <1>6. ASSUME NEW c \in Clients, Handshake(c) PROVE CallbackChain'
    BY <1>6, <1>b DEF Handshake, HandleIncomingData, PopAndPost
  <1>7. ASSUME NEW c \in Clients, MalformedLogin(c) PROVE CallbackChain'
    BY <1>7, <1>b DEF MalformedLogin, HandleIncomingData, Pop
  <1>8. ASSUME NEW c \in Clients, NEW n \in Names, LoginRejected(c, n) PROVE CallbackChain'
    BY <1>8, <1>b DEF LoginRejected, HandleIncomingData, PopAndPostTwo
  <1>9. ASSUME NEW c \in Clients, NEW n \in Names, LoginAccepted(c, n) PROVE CallbackChain'
    <2>1. PICK h : PopAndPost(c, h) \/ PopAndPostTwo(c, h, "WELCOME")
      BY <1>9 DEF LoginAccepted, LoginSends
    <2>2. readArmed' = [readArmed EXCEPT ![c] = TRUE]
      BY <1>9 DEF LoginAccepted, HandleIncomingData
    <2> QED BY <1>b, <2>1, <2>2 DEF PopAndPost, PopAndPostTwo
  <1>10. ASSUME NEW c \in Clients, NEW m \in BOOLEAN, GamePacket(c, m) PROVE CallbackChain'
    BY <1>10, <1>b DEF GamePacket, HandleIncomingData, Pop
  <1>11. ASSUME NEW c \in Clients, LateData(c) PROVE CallbackChain'
    BY <1>11, <1>b DEF LateData, HandleIncomingData, Pop
  <1>12. ASSUME NEW c \in Clients, ReadErrorHandler(c) PROVE CallbackChain'
    BY <1>12, <1>c DEF ReadErrorHandler, Runs
  <1>13. ASSUME NEW c \in Clients, NEW m \in Messages, RunSend(c, m) PROVE CallbackChain'
    BY <1>13, <1>c DEF RunSend, Runs
  <1>14. ASSUME NEW c \in Clients, RunRequestDisconnect(c) PROVE CallbackChain'
    BY <1>14, <1>c DEF RunRequestDisconnect, Runs
  <1>15. ASSUME NEW c \in Clients, WrittenHandler(c) PROVE CallbackChain'
    BY <1>15, <1>c DEF WrittenHandler, Runs
  <1>16. ASSUME NEW c \in Clients, NEW r \in {"written", "writeError"}, WriteCompletes(c, r)
         PROVE CallbackChain'
    BY <1>16, <1>a, <1>d, <1>e DEF WriteCompletes
  <1>17. ASSUME NEW c \in Clients, WriteErrorHandler(c) PROVE CallbackChain'
    BY <1>17, <1>c DEF WriteErrorHandler, Runs
  <1>18. ASSUME NEW c \in Clients, TickUpdate(c) PROVE CallbackChain'
    <2>1. CASE UNCHANGED <<strand, readArmed>>
      BY <2>1 DEF CallbackChain
    <2>2. CASE strand' = [strand EXCEPT ![c] = Append(@, "UPDATE")] /\ UNCHANGED readArmed
      BY <1>a, <1>d, <1>e, <2>2
    <2> QED BY <1>18, <2>1, <2>2 DEF TickUpdate
  <1>19. CASE TickStart
    <2> SUFFICES ASSUME NEW d \in Clients PROVE Followed(strand'[d], readArmed'[d])
      BY DEF CallbackChain
    <2>1. Followed(Append(strand[d], "UPDATE"), readArmed[d])
      BY <1>a, <1>e, FollowedAppend
    <2>2. readArmed' = readArmed
      BY <1>19 DEF TickStart
    <2> QED BY <1>19, <1>a, <2>1, <2>2, TickPosts
  <1>20. CASE UNCHANGED vars
    BY <1>20 DEF CallbackChain, vars
  <1>21. ASSUME NEW c \in Clients, Stuck(c) PROVE CallbackChain'
    BY <1>21, StuckKeeps DEF CallbackChain
  <1> QED
    BY <1>1, <1>2, <1>3, <1>4, <1>6, <1>7, <1>8, <1>9, <1>10, <1>11, <1>12, <1>13,
       <1>14, <1>15, <1>16, <1>17, <1>18, <1>19, <1>20, <1>21
       DEF Next, ClientStep, RunHandler, Stuck, Halted

\* The raw pointer of RequestDisconnect's lambda is never dangling when the lambda runs:
\* the read behind the lambda owns the Client.
THEOREM CallbacksAlive == Spec => []CallbackTargetsAlive
  <1>1. Init => CallbackChain
    <2> SUFFICES ASSUME Init, NEW c \in Clients PROVE Followed(strand[c], readArmed[c])
      BY DEF CallbackChain
    <2>1. Len(strand[c]) = 0
      BY DEF Init
    <2> QED BY <2>1 DEF Followed
  <1>2. Inv /\ CallbackChain /\ [Next]_vars => CallbackChain'
    BY CallbackStep DEF Inv
  <1>3. Inv /\ CallbackChain => CallbackTargetsAlive
    <2> SUFFICES ASSUME Inv, CallbackChain, NEW c \in Clients, Runs(c, "requestDisconnect")
                 PROVE  ClientAlive(c)
      BY DEF CallbackTargetsAlive
    <2>1. Len(strand[c]) \in Nat \ {0} /\ strand[c][1] = "requestDisconnect"
      BY TailElements DEF Inv, TypeOK, Runs
    <2>2. readArmed[c] \/ \E j \in 1 .. Len(strand[c]) : strand[c][j] \in {"read", "readError"}
      BY <2>1 DEF CallbackChain, Followed
    <2> QED BY <2>2 DEF ClientAlive
  <1> QED BY <1>1, <1>2, <1>3, InvAlways, PTL DEF Spec
----------------------------------------------------------------------------
(* The response before the lambda *)

\* A queue of buffers keeps what it has, and its head, when one is added.
LEMMA QueueAppend ==
  ASSUME NEW q \in Seq(Messages), NEW m \in Messages
  PROVE  /\ Has(Append(q, m), m)
         /\ \A h : Has(q, h) => Has(Append(q, m), h)
         /\ q # <<>> => Head(Append(q, m)) = Head(q)
  <1>1. /\ Len(q) \in Nat /\ Len(Append(q, m)) = Len(q) + 1
        /\ Append(q, m)[Len(q) + 1] = m
        /\ \A i \in 1 .. Len(q) : Append(q, m)[i] = q[i]
    BY AppendElements
  <1>2. Has(Append(q, m), m)
    BY <1>1 DEF Has
  <1>3. ASSUME NEW h, Has(q, h) PROVE Has(Append(q, m), h)
    <2>1. PICK i \in 1 .. Len(q) : q[i] = h
      BY <1>3 DEF Has
    <2>2. i \in 1 .. Len(Append(q, m)) /\ Append(q, m)[i] = h
      BY <1>1, <2>1
    <2> QED BY <2>2 DEF Has
  <1>4. q # <<>> => Head(Append(q, m)) = Head(q)
    OBVIOUS
  <1> QED BY <1>2, <1>3, <1>4

\* It loses only its head when the head has been written.
LEMMA QueueTail ==
  ASSUME NEW q \in Seq(Messages), q # <<>>, NEW h, Has(q, h), Head(q) # h
  PROVE  Has(Tail(q), h)
  <1>1. /\ Len(q) \in Nat \ {0} /\ Len(Tail(q)) = Len(q) - 1 /\ Head(q) = q[1]
        /\ \A i \in 1 .. Len(q) - 1 : Tail(q)[i] = q[i + 1]
    BY TailElements
  <1>2. PICK i \in 1 .. Len(q) : q[i] = h
    BY DEF Has
  <1>3. i # 1
    BY <1>1, <1>2
  <1>4. i - 1 \in 1 .. Len(Tail(q)) /\ Tail(q)[i - 1] = h
    BY <1>1, <1>2, <1>3
  <1> QED BY <1>4 DEF Has

\* A handler that is neither a Send of the response nor the lambda leaves the answer as
\* it is when it is taken from the strand ...
LEMMA AnsweredPop ==
  ASSUME NEW s \in Seq(Handlers), s # <<>>, NEW q, NEW p \in BOOLEAN, NEW t \in BOOLEAN,
         Answered(s, q, p, t), Head(s) # "ONLINE"
  PROVE  Answered(Tail(s), q, p, t)
  <1>1. Preceded(Tail(s), q, t)
    BY PrecededTail DEF Answered
  <1>2. Has(Tail(s), "written") => Has(s, "written")
    BY HasTailBack
  <1> QED BY <1>1, <1>2 DEF Answered

\* ... and when it is posted, the lambda only after the response.
LEMMA AnsweredPost ==
  ASSUME NEW s \in Seq(Handlers), NEW x \in Handlers, NEW q, NEW p \in BOOLEAN, NEW t \in BOOLEAN,
         Answered(s, q, p, t), x # "written", x = "requestDisconnect" => Has(s, "ONLINE")
  PROVE  Answered(Append(s, x), q, p, t)
  <1>1. Preceded(Append(s, x), q, t)
    BY PrecededAppend DEF Answered
  <1>2. Has(Append(s, x), "written") => Has(s, "written")
    BY HasAppendBack
  <1> QED BY <1>1, <1>2 DEF Answered

\* A handler changes the strand, the queue and the flags of its own client only.
LEMMA OneAnswer ==
  ASSUME TypeOK, Responses, NEW c \in Clients, NEW s, NEW q, NEW p, NEW t,
         strand' = [strand EXCEPT ![c] = s], writeQueue' = [writeQueue EXCEPT ![c] = q],
         pending' = [pending EXCEPT ![c] = p], told' = [told EXCEPT ![c] = t],
         Answered(s, q, p, t)
  PROVE  Responses'
  <1> SUFFICES ASSUME NEW d \in Clients
               PROVE  Answered(strand'[d], writeQueue'[d], pending'[d], told'[d])
    BY DEF Responses
  <1>1. CASE d = c
    <2>1. strand'[d] = s /\ writeQueue'[d] = q /\ pending'[d] = p /\ told'[d] = t
      BY <1>1 DEF TypeOK
    <2> QED BY <2>1
  <1>2. CASE d # c
    <2>1. /\ strand'[d] = strand[d] /\ writeQueue'[d] = writeQueue[d]
          /\ pending'[d] = pending[d] /\ told'[d] = told[d]
      BY <1>2 DEF TypeOK
    <2> QED BY <2>1 DEF Responses
  <1> QED BY <1>1, <1>2

\* A write completion on the strand stands for the buffer at the head of the queue.
LEMMA WrittenHasBuffer ==
  ASSUME TypeOK, SingleWrite, NEW c \in Clients, Has(strand[c], "written")
  PROVE  writeQueue[c] # <<>>
  <1>1. WriteCompletions(c) # {}
    BY DEF Has, WriteCompletions
  <1> QED BY <1>1 DEF SingleWrite

\* Every step keeps the response before the lambda.
LEMMA ResponsesStep == TypeOK /\ SingleWrite /\ Responses /\ [Next]_vars => Responses'
  <1> SUFFICES ASSUME TypeOK, SingleWrite, Responses, [Next]_vars PROVE Responses'
    OBVIOUS
  <1>a. ASSUME NEW c \in Clients
        PROVE  /\ strand[c] \in Seq(Handlers) /\ writeQueue[c] \in Seq(Messages)
               /\ pending[c] \in BOOLEAN /\ told[c] \in BOOLEAN
               /\ writeQueue = [writeQueue EXCEPT ![c] = writeQueue[c]]
               /\ pending = [pending EXCEPT ![c] = pending[c]]
               /\ told = [told EXCEPT ![c] = told[c]]
               /\ Answered(strand[c], writeQueue[c], pending[c], told[c])
    BY DEF TypeOK, Responses
  <1>b. ASSUME NEW c \in Clients, NEW s, strand' = [strand EXCEPT ![c] = s],
               UNCHANGED <<writeQueue, pending, told>>,
               Answered(s, writeQueue[c], pending[c], told[c])
        PROVE  Responses'
    <2>1. /\ writeQueue' = [writeQueue EXCEPT ![c] = writeQueue[c]]
          /\ pending' = [pending EXCEPT ![c] = pending[c]]
          /\ told' = [told EXCEPT ![c] = told[c]]
      BY <1>a, <1>b
    <2>2. strand' = [strand EXCEPT ![c] = s] /\ Answered(s, writeQueue[c], pending[c], told[c])
      BY <1>b
    <2> QED BY <2>1, <2>2, OneAnswer
  <1>c. ASSUME NEW c \in Clients, strand[c] # <<>>, Head(strand[c]) # "ONLINE"
        PROVE  /\ Tail(strand[c]) \in Seq(Handlers)
               /\ Answered(Tail(strand[c]), writeQueue[c], pending[c], told[c])
    BY <1>a, <1>c, AnsweredPop, TailElements
  <1>d. ASSUME NEW c \in Clients, strand[c] # <<>>, Head(strand[c]) # "ONLINE", Pop(c),
               UNCHANGED <<writeQueue, pending, told>>
        PROVE  Responses'
    BY <1>b, <1>c, <1>d DEF Pop
  <1>e. ASSUME NEW c \in Clients, NEW x \in Handlers \ {"written", "requestDisconnect"},
               strand' = [strand EXCEPT ![c] = Append(@, x)], UNCHANGED <<writeQueue, pending, told>>
        PROVE  Responses'
    <2>1. Answered(Append(strand[c], x), writeQueue[c], pending[c], told[c])
      BY <1>a, AnsweredPost
    <2> QED BY <1>b, <1>e, <2>1
  <1>f. {"read", "readError", "writeError"} \cup Messages \subseteq Handlers \ {"written", "requestDisconnect"}
    BY DEF Handlers, Messages
  <1>1. ASSUME NEW c \in Clients, Accept(c) PROVE Responses'
    BY <1>1 DEF Accept, writeVars, Responses
  <1>2. ASSUME NEW c \in Clients, ReadCompletes(c) PROVE Responses'
    BY <1>2, <1>e, <1>f DEF ReadCompletes, writeVars
  <1>3. ASSUME NEW c \in Clients, ReadFails(c) PROVE Responses'
    BY <1>3, <1>e, <1>f DEF ReadFails, writeVars
  <1>4. ASSUME NEW c \in Clients, FloodDisconnect(c) PROVE Responses'
    BY <1>4, <1>d DEF FloodDisconnect, Runs, writeVars
  <1>5. ASSUME NEW c \in Clients, NEW t \in Stages, HandleIncomingData(c, t)
        PROVE  /\ Tail(strand[c]) \in Seq(Handlers)
               /\ Answered(Tail(strand[c]), writeQueue[c], pending[c], told[c])
               /\ UNCHANGED <<writeQueue, pending, told>>
    BY <1>5, <1>c DEF HandleIncomingData, Runs, writeVars
  <1>6. ASSUME NEW c \in Clients, NEW t \in Stages, HandleIncomingData(c, t),
               NEW h \in Messages, PopAndPost(c, h) \/ PopAndPostTwo(c, h, "WELCOME")
        PROVE  Responses'
    <2> DEFINE s == Tail(strand[c])
               r == Append(s, h)
    <2>1. /\ s \in Seq(Handlers) /\ Answered(s, writeQueue[c], pending[c], told[c])
          /\ pending[c] \in BOOLEAN /\ told[c] \in BOOLEAN
          /\ UNCHANGED <<writeQueue, pending, told>>
      BY <1>5, <1>6, <1>a
    <2>2. /\ {h, "WELCOME"} \subseteq Handlers
          /\ h \notin {"written", "requestDisconnect"}
      BY <1>f DEF Messages
    <2>3. \/ strand' = [strand EXCEPT ![c] = r]
          \/ strand' = [strand EXCEPT ![c] = Append(r, "WELCOME")]
      BY <1>6 DEF PopAndPost, PopAndPostTwo
    <2> HIDE DEF s
    <2>4. r \in Seq(Handlers)
      BY <2>1, <2>2, AppendElements
    <2>5. Answered(r, writeQueue[c], pending[c], told[c])
      BY <2>1, <2>2, AnsweredPost
    <2> HIDE DEF r
    <2>6. Answered(Append(r, "WELCOME"), writeQueue[c], pending[c], told[c])
      BY <2>1, <2>2, <2>4, <2>5, AnsweredPost
    <2> QED BY <1>b, <2>1, <2>3, <2>5, <2>6
  <1>7. ASSUME NEW c \in Clients, Handshake(c) PROVE Responses'
    BY <1>6, <1>7 DEF Handshake, Messages, Stages
  <1>8. ASSUME NEW c \in Clients, MalformedLogin(c) PROVE Responses'
    BY <1>8, <1>d DEF MalformedLogin, HandleIncomingData, Runs, writeVars
  <1>9. ASSUME NEW c \in Clients, NEW n \in Names, LoginRejected(c, n) PROVE Responses'
    <2> DEFINE s == Tail(strand[c])
               r == Append(s, "ONLINE")
    <2>1. HandleIncomingData(c, "LOGGING_IN") /\ "LOGGING_IN" \in Stages
      BY <1>9 DEF LoginRejected, Stages
    <2>2. /\ s \in Seq(Handlers) /\ Answered(s, writeQueue[c], pending[c], told[c])
          /\ pending[c] \in BOOLEAN /\ told[c] \in BOOLEAN
          /\ UNCHANGED <<writeQueue, pending, told>>
      BY <1>5, <1>a, <2>1
    <2>3. /\ "ONLINE" \in Handlers /\ "requestDisconnect" \in Handlers
          /\ "ONLINE" # "written" /\ "ONLINE" # "requestDisconnect" /\ "requestDisconnect" # "written"
      BY DEF Handlers, Messages
    <2>4. strand' = [strand EXCEPT ![c] = Append(r, "requestDisconnect")]
      BY <1>9 DEF LoginRejected, PopAndPostTwo
    <2> HIDE DEF s
    <2>5. r \in Seq(Handlers) /\ Has(r, "ONLINE")
      BY <2>2, <2>3, HasAppend
    <2>6. Answered(r, writeQueue[c], pending[c], told[c])
      BY <2>2, <2>3, AnsweredPost
    <2> HIDE DEF r
    <2>7. Answered(Append(r, "requestDisconnect"), writeQueue[c], pending[c], told[c])
      BY <2>2, <2>3, <2>5, <2>6, AnsweredPost
    <2> QED BY <1>b, <2>2, <2>4, <2>7
  <1>10. ASSUME NEW c \in Clients, NEW n \in Names, LoginAccepted(c, n) PROVE Responses'
    <2>1. PICK h \in {"OK", "RECONNECT"} : PopAndPost(c, h) \/ PopAndPostTwo(c, h, "WELCOME")
      BY <1>10 DEF LoginAccepted, LoginSends
    <2> QED BY <1>6, <1>10, <2>1 DEF LoginAccepted, Messages, Stages
  <1>11. ASSUME NEW c \in Clients, NEW m \in BOOLEAN, GamePacket(c, m) PROVE Responses'
    BY <1>11, <1>d DEF GamePacket, HandleIncomingData, Runs, writeVars
  <1>12. ASSUME NEW c \in Clients, LateData(c) PROVE Responses'
    BY <1>12, <1>d DEF LateData, HandleIncomingData, Runs, writeVars
  <1>13. ASSUME NEW c \in Clients, ReadErrorHandler(c) PROVE Responses'
    BY <1>13, <1>d DEF ReadErrorHandler, Runs, writeVars
  <1>14. ASSUME NEW c \in Clients, NEW m \in Messages, RunSend(c, m) PROVE Responses'
    <2> DEFINE s == strand[c]
               q == writeQueue[c]
    <2>1. s # <<>> /\ Head(s) = m
      BY <1>14 DEF RunSend, Runs
    <2>2. Preceded(Tail(s), Append(q, m), told[c])
      <3>1. Preceded(s, q, told[c])
        BY <1>a DEF Answered
      <3>2. /\ Has(Append(q, m), m)
            /\ Has(q, "ONLINE") => Has(Append(q, m), "ONLINE")
        BY <1>a, QueueAppend
      <3> QED BY <1>a, <2>1, <3>1, <3>2, PrecededTail
    <2>3. pending[c] => told[c] \/ Has(Append(q, m), "ONLINE")
      BY <1>a, QueueAppend DEF Answered
    <2>4. ASSUME Has(Tail(s), "written"), Head(Append(q, m)) = "ONLINE" PROVE told[c]
      <3>1. Has(s, "written")
        BY <1>a, <2>1, <2>4, HasTailBack
      <3>2. Head(q) = "ONLINE"
        BY <1>a, <2>4, <3>1, QueueAppend, WrittenHasBuffer
      <3> QED BY <1>a, <3>1, <3>2 DEF Answered
    <2>5. Answered(Tail(s), Append(q, m), pending[c], told[c])
      BY <2>2, <2>3, <2>4 DEF Answered
    <2>6. /\ strand' = [strand EXCEPT ![c] = Tail(s)]
          /\ writeQueue' = [writeQueue EXCEPT ![c] = Append(q, m)]
          /\ pending' = [pending EXCEPT ![c] = pending[c]]
          /\ told' = [told EXCEPT ![c] = told[c]]
      BY <1>14, <1>a DEF RunSend, Pop
    <2> QED BY <2>5, <2>6, OneAnswer
  <1>15. ASSUME NEW c \in Clients, RunRequestDisconnect(c) PROVE Responses'
    <2>1. strand[c] # <<>> /\ Head(strand[c]) = "requestDisconnect"
      BY <1>15 DEF RunRequestDisconnect, Runs
    <2>2. Answered(Tail(strand[c]), writeQueue[c], pending[c], told[c])
      BY <1>c, <2>1
    <2>3. told[c] \/ Has(writeQueue[c], "ONLINE")
      <3>1. 1 \in 1 .. Len(strand[c]) /\ strand[c][1] = "requestDisconnect"
        BY <1>a, <2>1, TailElements
      <3>2. ~ \E j \in 1 .. Len(strand[c]) : j < 1 /\ strand[c][j] = "ONLINE"
        BY <1>a
      <3> QED BY <1>a, <3>1, <3>2 DEF Answered, Preceded
    <2>4. Answered(Tail(strand[c]), writeQueue[c], TRUE, told[c])
      BY <2>2, <2>3 DEF Answered
    <2>5. /\ strand' = [strand EXCEPT ![c] = Tail(strand[c])]
          /\ writeQueue' = [writeQueue EXCEPT ![c] = writeQueue[c]]
          /\ pending' = [pending EXCEPT ![c] = TRUE]
          /\ told' = [told EXCEPT ![c] = told[c]]
      BY <1>15, <1>a DEF RunRequestDisconnect, Pop
    <2> QED BY <2>4, <2>5, OneAnswer
  <1>16. ASSUME NEW c \in Clients, NEW r \in {"written", "writeError"}, WriteCompletes(c, r)
         PROVE Responses'
    <2> DEFINE s == strand[c]
               t == told[c] \/ (r = "written" /\ Head(writeQueue[c]) = "ONLINE")
    <2>1. r \in Handlers /\ r # "requestDisconnect"
      BY DEF Handlers
    <2>2. Preceded(Append(s, r), writeQueue[c], t)
      <3>1. Preceded(s, writeQueue[c], told[c]) /\ t \in BOOLEAN /\ (told[c] => t)
        BY <1>a DEF Answered
      <3> HIDE DEF t
      <3> QED BY <1>a, <2>1, <3>1, PrecededAppend
    <2>3. ASSUME Has(Append(s, r), "written"), Head(writeQueue[c]) = "ONLINE" PROVE t
      <3>1. CASE r = "written"
        BY <2>3, <3>1
      <3>2. CASE r # "written"
        BY <1>a, <2>1, <2>3, <3>2, HasAppendBack DEF Answered
      <3> QED BY <3>1, <3>2
    <2>4. pending[c] => t \/ Has(writeQueue[c], "ONLINE")
      BY <1>a DEF Answered
    <2>5. Answered(Append(s, r), writeQueue[c], pending[c], t)
      BY <2>2, <2>3, <2>4 DEF Answered
    <2>6. /\ strand' = [strand EXCEPT ![c] = Append(s, r)]
          /\ writeQueue' = [writeQueue EXCEPT ![c] = writeQueue[c]]
          /\ pending' = [pending EXCEPT ![c] = pending[c]]
          /\ told' = [told EXCEPT ![c] = t]
      BY <1>16, <1>a DEF WriteCompletes
    <2> HIDE DEF t
    <2> QED BY <2>5, <2>6, OneAnswer
  <1>17. ASSUME NEW c \in Clients, WrittenHandler(c) PROVE Responses'
    <2> DEFINE s == strand[c]
               q == writeQueue[c]
    <2>1. /\ s # <<>> /\ Head(s) = "written" /\ s \in Seq(Handlers) /\ q \in Seq(Messages)
          /\ Answered(s, q, pending[c], told[c])
      BY <1>17, <1>a DEF WrittenHandler, Runs
    <2>2. Has(s, "written") /\ q # <<>>
      <3>1. 1 \in 1 .. Len(s) /\ s[1] = "written"
        BY <2>1, TailElements
      <3>2. Has(s, "written")
        BY <3>1 DEF Has
      <3> QED BY <3>2, WrittenHasBuffer
    <2>3. Has(q, "ONLINE") => told[c] \/ Has(Tail(q), "ONLINE")
      <3>1. CASE Head(q) = "ONLINE"
        BY <2>1, <2>2, <3>1 DEF Answered
      <3>2. CASE Head(q) # "ONLINE"
        BY <2>1, <2>2, <3>2, QueueTail
      <3> QED BY <3>1, <3>2
    <2>4. Preceded(Tail(s), Tail(q), told[c])
      BY <1>a, <2>1, <2>3, PrecededTail DEF Answered
    <2>5. ~Has(Tail(s), "written")
      BY <2>1, AfterPop DEF Has, Marks
    <2>6. pending[c] => told[c] \/ Has(Tail(q), "ONLINE")
      BY <2>1, <2>3 DEF Answered
    <2>7. PICK p \in BOOLEAN : (p => pending[c]) /\ pending' = [pending EXCEPT ![c] = p]
      BY <1>17, <1>a DEF WrittenHandler
    <2>8. Answered(Tail(s), Tail(q), p, told[c])
      BY <2>4, <2>5, <2>6, <2>7 DEF Answered
    <2>9. /\ strand' = [strand EXCEPT ![c] = Tail(s)]
          /\ writeQueue' = [writeQueue EXCEPT ![c] = Tail(q)]
          /\ told' = [told EXCEPT ![c] = told[c]]
      BY <1>17, <1>a DEF WrittenHandler, Pop
    <2> QED BY <2>7, <2>8, <2>9, OneAnswer
  <1>18. ASSUME NEW c \in Clients, WriteErrorHandler(c) PROVE Responses'
    BY <1>18, <1>d DEF WriteErrorHandler, Runs, writeVars
  <1>19. ASSUME NEW c \in Clients, TickUpdate(c) PROVE Responses'
    <2>1. CASE UNCHANGED <<strand, writeQueue, pending, told>>
      BY <2>1 DEF Responses
    <2>2. CASE /\ strand' = [strand EXCEPT ![c] = Append(@, "UPDATE")]
               /\ UNCHANGED <<writeQueue, pending, told>>
      BY <1>e, <1>f, <2>2 DEF Messages
    <2> QED BY <1>19, <2>1, <2>2 DEF TickUpdate, writeVars
  <1>20. CASE TickStart
    <2> SUFFICES ASSUME NEW d \in Clients
                 PROVE  Answered(strand'[d], writeQueue'[d], pending'[d], told'[d])
      BY DEF Responses
    <2>1. Answered(Append(strand[d], "UPDATE"), writeQueue[d], pending[d], told[d])
      BY <1>a, <1>f, AnsweredPost DEF Messages
    <2>2. UNCHANGED <<writeQueue, pending, told>>
      BY <1>20 DEF TickStart, writeVars
    <2> QED BY <1>20, <1>a, <2>1, <2>2, TickPosts
  <1>21. CASE UNCHANGED vars
    BY <1>21 DEF Responses, vars
  <1>22. ASSUME NEW c \in Clients, Stuck(c) PROVE Responses'
    BY <1>22, StuckKeeps DEF Responses
  <1> QED
    BY <1>1, <1>2, <1>3, <1>4, <1>7, <1>8, <1>9, <1>10, <1>11, <1>12, <1>13,
       <1>14, <1>15, <1>16, <1>17, <1>18, <1>19, <1>20, <1>21, <1>22
       DEF Next, ClientStep, RunHandler, Stuck, Halted
\* Nothing waits in an empty queue.
LEMMA EmptyHasNothing == \A h : ~Has(<<>>, h)
  <1>1. Len(<<>>) = 0
    OBVIOUS
  <1> QED BY <1>1 DEF Has

\* Only these two handlers close a connection with a "written" or a RequestDisconnect at
\* the head of its strand.
LEMMA ClosedByServer ==
  ASSUME TypeOK, [Next]_vars, NEW c \in Clients, ~disconnected[c], disconnected'[c],
         Head(strand[c]) \in {"written", "requestDisconnect"}
  PROVE  \/ RunRequestDisconnect(c) /\ ~writing[c] /\ writeQueue[c] = <<>>
         \/ WrittenHandler(c) /\ Tail(writeQueue[c]) = <<>> /\ pending[c]
  <1>1. disconnected' # disconnected
    OBVIOUS
  <1>2. ASSUME NEW d \in Clients, Disconnect(d) PROVE d = c
    BY <1>2 DEF Disconnect, TypeOK
  <1>3. PICK d \in Clients : RunHandler(d)
    BY <1>1 DEF Next, ClientStep, Accept, ReadCompletes, ReadFails, WriteCompletes, TickUpdate,
       TickStart, Halted, connVars, vars
  <1>4. ~FloodDisconnect(d) /\ ~MalformedLogin(d) /\ ~ReadErrorHandler(d) /\ ~WriteErrorHandler(d)
    BY <1>2 DEF FloodDisconnect, MalformedLogin, HandleIncomingData, ReadErrorHandler,
       WriteErrorHandler, Runs
  <1>5. ~Handshake(d) /\ ~LateData(d) /\ \A n \in Names : ~LoginRejected(d, n) /\ ~LoginAccepted(d, n)
    BY <1>1 DEF Handshake, LateData, LoginRejected, LoginAccepted, connVars
  <1>6. /\ \A m \in BOOLEAN : ~GamePacket(d, m)
        /\ \A m \in Messages : ~RunSend(d, m)
    BY <1>1 DEF GamePacket, RunSend, connVars
  <1>a. ~Stuck(d)
    BY <1>1, StuckKeeps
  <1>7. CASE RunRequestDisconnect(d)
    BY <1>1, <1>2, <1>7 DEF RunRequestDisconnect
  <1>8. CASE WrittenHandler(d)
    BY <1>1, <1>2, <1>8 DEF WrittenHandler
  <1> QED BY <1>3, <1>4, <1>5, <1>6, <1>a, <1>7, <1>8 DEF RunHandler, Stuck

\* The server closes a connection on its own account only after the peer has been sent
\* ACCOUNT_ONLINE in full, whatever else is read, posted and written meanwhile.
THEOREM RejectionsDelivered == Spec => RejectionDelivered
  <1>1. Init => Responses
    <2> SUFFICES ASSUME Init, NEW c \in Clients
                 PROVE  Answered(strand[c], writeQueue[c], pending[c], told[c])
      BY DEF Responses
    <2>1. Len(strand[c]) = 0 /\ pending[c] = FALSE
      BY DEF Init
    <2> QED BY <2>1 DEF Answered, Preceded, Has
  <1>2. Inv /\ Responses /\ [Next]_vars => Responses'
    BY ResponsesStep DEF Inv
  <1>3. Inv /\ Responses /\ [Next]_vars =>
          [\A c \in Clients :
             /\ ~disconnected[c] /\ disconnected'[c]
             /\ Head(strand[c]) \in {"written", "requestDisconnect"}
             => told'[c]]_vars
    <2> SUFFICES ASSUME Inv, Responses, [Next]_vars, NEW c \in Clients,
                        ~disconnected[c], disconnected'[c],
                        Head(strand[c]) \in {"written", "requestDisconnect"}
                 PROVE  told'[c]
      OBVIOUS
    <2>1. /\ strand[c] \in Seq(Handlers) /\ writeQueue[c] \in Seq(Messages)
          /\ Answered(strand[c], writeQueue[c], pending[c], told[c])
      BY DEF Inv, TypeOK, Responses
    <2>2. CASE RunRequestDisconnect(c) /\ writeQueue[c] = <<>>
      <3>1. 1 \in 1 .. Len(strand[c]) /\ strand[c][1] = "requestDisconnect"
        BY <2>1, <2>2, TailElements DEF RunRequestDisconnect, Runs
      <3>2. ~Has(writeQueue[c], "ONLINE")
        BY <2>2, EmptyHasNothing, Zenon
      <3>3. ~ \E j \in 1 .. Len(strand[c]) : j < 1 /\ strand[c][j] = "ONLINE"
        BY <2>1
      <3>4. told[c]
        BY <2>1, <3>1, <3>2, <3>3 DEF Answered, Preceded
      <3> QED BY <2>2, <3>4 DEF RunRequestDisconnect
    <2>3. CASE WrittenHandler(c) /\ Tail(writeQueue[c]) = <<>> /\ pending[c]
      <3>1. 1 \in 1 .. Len(strand[c]) /\ strand[c][1] = "written"
        BY <2>1, <2>3, TailElements DEF WrittenHandler, Runs
      <3>2. Has(strand[c], "written")
        BY <3>1 DEF Has
      <3>3. writeQueue[c] # <<>>
        BY <3>2, WrittenHasBuffer DEF Inv
      <3>4. ~Has(Tail(writeQueue[c]), "ONLINE")
        BY <2>3, EmptyHasNothing, Zenon
      <3>5. Has(writeQueue[c], "ONLINE") => Head(writeQueue[c]) = "ONLINE"
        BY <2>1, <3>3, <3>4, QueueTail
      <3>6. told[c]
        BY <2>1, <2>3, <3>2, <3>5 DEF Answered
      <3> QED BY <2>3, <3>6 DEF WrittenHandler
    <2> QED BY <2>2, <2>3, ClosedByServer DEF Inv
  <1> QED BY <1>1, <1>2, <1>3, InvAlways, PTL DEF Spec, RejectionDelivered
==============================================================================
