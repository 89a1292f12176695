----------------------------- MODULE Accounts -----------------------------
(***************************************************************************)
(* What the World's registry promises to the rest of the server: a name is *)
(* online for at most one session and has a slot of its own; a session is  *)
(* online under at most one name; a name goes offline before it can come   *)
(* online for another session.                                             *)
(***************************************************************************)
EXTENDS Integers

CONSTANTS Sessions, NoSession, Names, MaxPlayers

VARIABLES
  online,  \* the session a name is online for, or NoSession
  slot     \* the slot of a name that is online, or -1

Init ==
  /\ online = [n \in Names |-> NoSession]
  /\ slot = [n \in Names |-> -1]

LogIn(n, s, i) ==
  /\ online[n] = NoSession
  /\ \A m \in Names : online[m] # s /\ slot[m] # i
  /\ online' = [online EXCEPT ![n] = s]
  /\ slot' = [slot EXCEPT ![n] = i]

LogOut(n) ==
  /\ online[n] # NoSession
  /\ online' = [online EXCEPT ![n] = NoSession]
  /\ slot' = [slot EXCEPT ![n] = -1]

Next ==
  \E n \in Names :
    \/ \E s \in Sessions, i \in 0 .. MaxPlayers - 1 : LogIn(n, s, i)
    \/ LogOut(n)

Spec == Init /\ [][Next]_<<online, slot>>
============================================================================
