---------------------------- MODULE EntryProofs -----------------------------
(***************************************************************************)
(* Proofs about Entry, for any number of packets of Player::Login and any  *)
(* size of a key set.                                                      *)
(***************************************************************************)
EXTENDS Entry, TLAPS

----------------------------------------------------------------------------
(* Where a thread is *)

\* What rest leaves of all has been done, in order.
SuffixOf(rest, all) ==
  /\ Len(rest) <= Len(all)
  /\ \A i \in 1 .. Len(rest) : rest[i] = all[(Len(all) - Len(rest)) + i]

\* The steps of a tick for a player whose region has not been set.
TickSteps == RegionSteps \o UpdateSteps

\* A thread is somewhere in its steps: how many are left says which is next.
InTheirSteps ==
  /\ SuffixOf(todo["network"], LoginSteps)
  /\ SuffixOf(todo["main"], TickSteps)

\* The steps a thread has left.
Left(t) == Len(todo[t])

----------------------------------------------------------------------------
(* The attributes announced follow *)

\* Between two resets flags are only added, so what an earlier read of the flags
\* has found is still there for the later ones.
AnnouncedKept ==
  /\ Left("main") = 6 => (required => flags # {})
  /\ Left("main") = 5 => (movement.update => flags # {})
  /\ Left("main") \in 2 .. 4 => (movement.update => block.written)
  /\ Left("main") = 3 => (block.masked => "Appearance" \in flags /\ block.written)
  /\ Left("main") = 2 => (block.masked => block.appended)

----------------------------------------------------------------------------
(* What Login asks for *)

\* The steps of Login there are.
LoginLength == 6 + 2 * Interfaces

\* What the update under way has taken in of the flags Login set: as far as it has
\* come, it has a block, the appearance is in its mask, and then in the block.
TakenIn ==
  /\ Left("main") \in 1 .. 4 => block.written
  /\ Left("main") \in 1 .. 3 => block.masked
  /\ Left("main") \in 1 .. 2 => block.appended
  /\ Left("main") # 1

\* What Login asked for is still asked for, and taken in by the update under way, until
\* the appearance has been sent.
AskedUntilShown ==
  Left("network") < LoginLength - 5 /\ ~late => shown \/ (flags = Flags /\ TakenIn)

----------------------------------------------------------------------------
(* An undivided RegisterPlayer *)

\* The next key GetNextKey returns.
NextKey == IF idx # 0 THEN <<set, idx - 1>> ELSE <<(set + 1) % KeySets, Size - 1>>

\* Whether thread t has taken a key and not yet posted its packet.
Holds(t) ==
  /\ todo[t] # <<>>
  /\ IF t = "main" THEN Left(t) \in 2 .. 7 ELSE Head(todo[t]) \in {"sendMap", "sendInterface"}

\* Only one thread is in the middle of its steps.
OneAtATime ==
  undivided =>
    /\ todo["main"] # <<>> => todo["network"] = <<>>
    /\ Left("main") <= 8

\* How far Login has come.
LoginProgress ==
  /\ registered <=> Left("network") < LoginLength
  /\ Left("network") < LoginLength - 1 => regionSet
  /\ Left("network") < LoginLength - 4 => map

\* The keys are taken in the order in which the client uses them.
KeysInOrder ==
  undivided =>
    IF \E t \in Threads : Holds(t)
    THEN /\ \A t \in Threads : Holds(t) => held[t] = KeyAt(received)
         /\ NextKey = KeyAt((received + 1) % (Size * KeySets))
    ELSE NextKey = KeyAt(received)

\* All reads of the flags for one update find the same.
SameFlags ==
  undivided =>
    /\ Left("main") \in 1 .. 6 => (required <=> flags # {})
    /\ Left("main") \in 1 .. 5 => (movement.update <=> flags # {})
    /\ Left("main") \in 1 .. 4 => (block.written <=> flags # {})
    /\ Left("main") \in 1 .. 3 => (block.masked <=> "Appearance" \in flags)
    /\ Left("main") \in 1 .. 2 => (block.appended <=> "Appearance" \in flags)
    /\ Left("main") = 1 => ("Appearance" \in flags => shown)


Inv ==
  /\ TypeOK /\ InTheirSteps /\ AnnouncedKept /\ AttributesFollow
  /\ OneAtATime /\ LoginProgress /\ KeysInOrder /\ SameFlags /\ AskedUntilShown
  /\ PacketsReadable

----------------------------------------------------------------------------
(* The steps of the threads *)

\* The elements of two sequences, one after the other.
LEMMA ConcatElements ==
  ASSUME NEW S, NEW s \in Seq(S), NEW t \in Seq(S)
  PROVE  /\ s \o t \in Seq(S) /\ Len(s \o t) = Len(s) + Len(t)
         /\ Len(s) \in Nat /\ Len(t) \in Nat
         /\ \A i \in 1 .. Len(s) : (s \o t)[i] = s[i]
         /\ \A i \in 1 .. Len(t) : (s \o t)[Len(s) + i] = t[i]
  OBVIOUS

\* A function on 1 .. n is a sequence of length n.
LEMMA DefinedSequence ==
  ASSUME NEW S, NEW n \in Nat, NEW f \in [1 .. n -> S]
  PROVE  f \in Seq(S) /\ Len(f) = n
  OBVIOUS

\* UpdateMapRegion, by the numbers of its steps.
LEMMA RegionStepsAre ==
  /\ RegionSteps \in Seq(StepNames) /\ Len(RegionSteps) = 4
  /\ RegionSteps[1] = "region" /\ RegionSteps[2] = "placement" /\ RegionSteps[3] = "key"
  /\ RegionSteps[4] = "sendMap"
  BY DEF RegionSteps, StepNames

\* UpdatePlayer and Player::Reset, by the numbers of their steps.
LEMMA UpdateStepsAre ==
  /\ UpdateSteps \in Seq(StepNames) /\ Len(UpdateSteps) = 8
  /\ UpdateSteps[1] = "key" /\ UpdateSteps[2] = "required"
  /\ UpdateSteps[3] = "movement" /\ UpdateSteps[4] = "state" /\ UpdateSteps[5] = "mask"
  /\ UpdateSteps[6] = "appearance" /\ UpdateSteps[7] = "sendUpdate" /\ UpdateSteps[8] = "reset"
  BY DEF UpdateSteps, StepNames

\* The steps of a tick, by their number.
LEMMA TickStepsAre ==
  /\ TickSteps \in Seq(StepNames) /\ Len(TickSteps) = 12
  /\ TickSteps[1] = "region" /\ TickSteps[2] = "placement" /\ TickSteps[3] = "key"
  /\ TickSteps[4] = "sendMap" /\ TickSteps[5] = "key" /\ TickSteps[6] = "required"
  /\ TickSteps[7] = "movement" /\ TickSteps[8] = "state" /\ TickSteps[9] = "mask"
  /\ TickSteps[10] = "appearance" /\ TickSteps[11] = "sendUpdate" /\ TickSteps[12] = "reset"
  <1>1. /\ TickSteps \in Seq(StepNames) /\ Len(TickSteps) = 4 + 8
        /\ \A i \in 1 .. 4 : TickSteps[i] = RegionSteps[i]
        /\ \A i \in 1 .. 8 : TickSteps[4 + i] = UpdateSteps[i]
    <2>1. /\ TickSteps \in Seq(StepNames)
          /\ Len(TickSteps) = Len(RegionSteps) + Len(UpdateSteps)
          /\ \A i \in 1 .. Len(RegionSteps) : TickSteps[i] = RegionSteps[i]
          /\ \A i \in 1 .. Len(UpdateSteps) : TickSteps[Len(RegionSteps) + i] = UpdateSteps[i]
      <3>1. RegionSteps \in Seq(StepNames) /\ UpdateSteps \in Seq(StepNames)
        BY RegionStepsAre, UpdateStepsAre
      <3> QED BY <3>1, ConcatElements DEF TickSteps
    <2> QED BY <2>1, RegionStepsAre, UpdateStepsAre
  <1>2. /\ TickSteps[4 + 1] = "key" /\ TickSteps[4 + 2] = "required"
        /\ TickSteps[4 + 3] = "movement" /\ TickSteps[4 + 4] = "state"
        /\ TickSteps[4 + 5] = "mask" /\ TickSteps[4 + 6] = "appearance"
        /\ TickSteps[4 + 7] = "sendUpdate" /\ TickSteps[4 + 8] = "reset"
    BY <1>1, UpdateStepsAre
  <1> QED BY <1>1, <1>2, RegionStepsAre

\* The steps of Login, by their number.
LEMMA LoginStepsAre ==
  /\ LoginSteps \in Seq(StepNames) /\ Len(LoginSteps) = LoginLength /\ LoginLength \in Nat
  /\ LoginLength >= 8
  /\ LoginSteps[1] = "insert" /\ LoginSteps[2] = "region" /\ LoginSteps[3] = "placement"
  /\ LoginSteps[4] = "key" /\ LoginSteps[5] = "sendMap" /\ LoginSteps[6] = "all"
  /\ \A i \in 7 .. LoginLength :
       LoginSteps[i] = IF (i - 6) % 2 = 1 THEN "key" ELSE "sendInterface"
  <1> DEFINE one == <<"insert">>
             two == one \o RegionSteps
             last == <<"all">>
             first == two \o last
             rest == [i \in 1 .. 2 * Interfaces |-> IF i % 2 = 1 THEN "key" ELSE "sendInterface"]
  <1>1. one \in Seq(StepNames) /\ Len(one) = 1 /\ one[1] = "insert"
    BY DEF StepNames
  <1>2. last \in Seq(StepNames) /\ Len(last) = 1 /\ last[1] = "all"
    BY DEF StepNames
  <1>3. LoginSteps = first \o rest
    BY DEF LoginSteps
  <1> HIDE DEF one, last
  <1>4. /\ two \in Seq(StepNames) /\ Len(two) = 1 + 4
        /\ \A i \in 1 .. 1 : two[i] = one[i]
        /\ \A i \in 1 .. 4 : two[1 + i] = RegionSteps[i]
    <2>1. /\ two \in Seq(StepNames) /\ Len(two) = Len(one) + Len(RegionSteps)
          /\ \A i \in 1 .. Len(one) : two[i] = one[i]
          /\ \A i \in 1 .. Len(RegionSteps) : two[Len(one) + i] = RegionSteps[i]
      <3>1. one \in Seq(StepNames) /\ RegionSteps \in Seq(StepNames)
        BY <1>1, RegionStepsAre
      <3> QED BY <3>1, ConcatElements
    <2> HIDE DEF two
    <2> QED BY <1>1, <2>1, RegionStepsAre
  <1>5. two[1] = "insert" /\ two[1 + 1] = "region" /\ two[1 + 2] = "placement"
        /\ two[1 + 3] = "key" /\ two[1 + 4] = "sendMap"
    BY <1>1, <1>4, RegionStepsAre
  <1> HIDE DEF two
  <1>6. /\ first \in Seq(StepNames) /\ Len(first) = 5 + 1
        /\ \A i \in 1 .. 5 : first[i] = two[i]
        /\ \A i \in 1 .. 1 : first[5 + i] = last[i]
    <2>1. /\ first \in Seq(StepNames) /\ Len(first) = Len(two) + Len(last)
          /\ \A i \in 1 .. Len(two) : first[i] = two[i]
          /\ \A i \in 1 .. Len(last) : first[Len(two) + i] = last[i]
      <3>1. two \in Seq(StepNames) /\ last \in Seq(StepNames)
        BY <1>2, <1>4
      <3> QED BY <3>1, ConcatElements
    <2>2. Len(two) = 5 /\ Len(last) = 1
      BY <1>2, <1>4
    <2> HIDE DEF first
    <2> QED BY <2>1, <2>2
  <1>7. first[5 + 1] = "all"
    BY <1>2, <1>6
  <1>8. 2 * Interfaces \in Nat
    BY InterfacesAssumption
  <1>9. /\ rest \in Seq(StepNames) /\ Len(rest) = 2 * Interfaces
        /\ \A i \in 1 .. 2 * Interfaces : rest[i] = IF i % 2 = 1 THEN "key" ELSE "sendInterface"
    <2> DEFINE n == 2 * Interfaces
    <2>1. n \in Nat
      BY <1>8
    <2>2. rest = [i \in 1 .. n |-> IF i % 2 = 1 THEN "key" ELSE "sendInterface"]
      OBVIOUS
    <2> HIDE DEF n
    <2>3. /\ rest \in Seq(StepNames) /\ Len(rest) = n
          /\ \A i \in 1 .. n : rest[i] = IF i % 2 = 1 THEN "key" ELSE "sendInterface"
      <3>1. rest \in [1 .. n -> StepNames]
        BY <2>2, Zenon DEF StepNames
      <3>2. rest \in Seq(StepNames) /\ Len(rest) = n
        BY <2>1, <3>1, DefinedSequence, Zenon
      <3> QED BY <2>2, <3>2, Zenon
    <2> QED BY <2>3 DEF n
  <1>10. LoginLength \in Nat /\ LoginLength >= 8 /\ LoginLength = 6 + 2 * Interfaces
    BY InterfacesAssumption DEF LoginLength
  <1> HIDE DEF first, rest
  <1>11. /\ LoginSteps \in Seq(StepNames) /\ Len(LoginSteps) = LoginLength
         /\ \A i \in 1 .. 6 : LoginSteps[i] = first[i]
         /\ \A i \in 1 .. 2 * Interfaces : LoginSteps[6 + i] = rest[i]
    <2>1. /\ first \o rest \in Seq(StepNames) /\ Len(first \o rest) = Len(first) + Len(rest)
          /\ \A i \in 1 .. Len(first) : (first \o rest)[i] = first[i]
          /\ \A i \in 1 .. Len(rest) : (first \o rest)[Len(first) + i] = rest[i]
      <3>1. first \in Seq(StepNames) /\ rest \in Seq(StepNames)
        BY <1>6, <1>9
      <3> QED BY <3>1, ConcatElements
    <2>2. Len(first) = 6 /\ Len(rest) = 2 * Interfaces
      BY <1>6, <1>9
    <2> QED BY <1>3, <1>10, <2>1, <2>2
  <1>12. ASSUME NEW i \in 7 .. LoginLength
         PROVE  LoginSteps[i] = IF (i - 6) % 2 = 1 THEN "key" ELSE "sendInterface"
    <2>1. i - 6 \in 1 .. 2 * Interfaces /\ i = 6 + (i - 6)
      BY <1>8, <1>10
    <2>2. LoginSteps[i] = rest[i - 6]
      BY <1>11, <2>1
    <2> QED BY <1>9, <2>1, <2>2
  <1> QED BY <1>5, <1>6, <1>7, <1>10, <1>11, <1>12

\* The head of what is left is the next step, and the tail is what is left after it.
LEMMA SuffixTail ==
  ASSUME NEW all \in Seq(StepNames), NEW rest \in Seq(StepNames), SuffixOf(rest, all), rest # <<>>
  PROVE  /\ Tail(rest) \in Seq(StepNames) /\ SuffixOf(Tail(rest), all)
         /\ Len(Tail(rest)) = Len(rest) - 1 /\ Len(rest) \in 1 .. Len(all)
         /\ Head(rest) = all[(Len(all) - Len(rest)) + 1]
  <1>1. /\ Tail(rest) \in Seq(StepNames) /\ Len(Tail(rest)) = Len(rest) - 1
        /\ Len(rest) \in Nat \ {0} /\ Len(all) \in Nat
        /\ Head(rest) = rest[1]
        /\ \A i \in 1 .. Len(rest) - 1 : Tail(rest)[i] = rest[i + 1]
    OBVIOUS
  <1>2. Head(rest) = all[(Len(all) - Len(rest)) + 1] /\ Len(rest) \in 1 .. Len(all)
    BY <1>1 DEF SuffixOf
  <1>3. ASSUME NEW i \in 1 .. Len(Tail(rest))
        PROVE  Tail(rest)[i] = all[(Len(all) - Len(Tail(rest))) + i]
    <2>1. i + 1 \in 1 .. Len(rest) /\ Tail(rest)[i] = rest[i + 1]
      BY <1>1
    <2>2. rest[i + 1] = all[(Len(all) - Len(rest)) + (i + 1)]
      BY <2>1 DEF SuffixOf
    <2>3. (Len(all) - Len(rest)) + (i + 1) = (Len(all) - Len(Tail(rest))) + i
      BY <1>1
    <2> QED BY <2>1, <2>2, <2>3
  <1>4. Len(Tail(rest)) <= Len(all)
    BY <1>1 DEF SuffixOf
  <1> QED BY <1>1, <1>2, <1>3, <1>4 DEF SuffixOf

\* The number of steps the threads have left.
LEMMA LeftType ==
  ASSUME TypeOK, InTheirSteps
  PROVE  /\ Left("main") \in 0 .. 12 /\ Left("network") \in 0 .. LoginLength
         /\ \A t \in Threads : todo[t] \in Seq(StepNames) /\ (todo[t] = <<>> <=> Left(t) = 0)
  <1>1. \A t \in Threads : todo[t] \in Seq(StepNames)
    BY DEF TypeOK
  <1>2. \A t \in Threads : Left(t) \in Nat /\ (todo[t] = <<>> <=> Left(t) = 0)
    BY <1>1 DEF Left
  <1>3. Left("main") <= 12 /\ Left("network") <= LoginLength
    BY TickStepsAre, LoginStepsAre DEF InTheirSteps, SuffixOf, Left
  <1>4. "main" \in Threads /\ "network" \in Threads
    BY DEF Threads
  <1> QED BY <1>1, <1>2, <1>3, <1>4, LoginStepsAre

\* A thread makes its next step and no other.
LEMMA StepsEffect ==
  ASSUME TypeOK, InTheirSteps, NEW t \in Threads, NEW step, Steps(t, step)
  PROVE  /\ todo' \in [Threads -> Seq(StepNames)] /\ InTheirSteps'
         /\ Left(t) \in Nat \ {0} /\ Left(t)' = Left(t) - 1
         /\ \A u \in Threads \ {t} : todo'[u] = todo[u] /\ Left(u)' = Left(u)
         /\ t = "main" => step = TickSteps[13 - Left(t)]
         /\ t = "network" => step = LoginSteps[(LoginLength - Left(t)) + 1]
         /\ undivided' = undivided
  <1>1. /\ todo \in [Threads -> Seq(StepNames)] /\ todo[t] # <<>> /\ step = Head(todo[t])
        /\ todo' = [todo EXCEPT ![t] = Tail(todo[t])] /\ undivided' = undivided
    BY DEF Steps, TypeOK
  <1>2. todo'[t] = Tail(todo[t]) /\ \A u \in Threads \ {t} : todo'[u] = todo[u]
    BY <1>1
  <1>3. CASE t = "main"
    <2>1. SuffixOf(todo["main"], TickSteps)
      BY DEF InTheirSteps
    <2>2. /\ Tail(todo["main"]) \in Seq(StepNames) /\ SuffixOf(Tail(todo["main"]), TickSteps)
          /\ Len(Tail(todo["main"])) = Len(todo["main"]) - 1
          /\ Len(todo["main"]) \in 1 .. 12
          /\ Head(todo["main"]) = TickSteps[(12 - Len(todo["main"])) + 1]
      <3>1. todo["main"] \in Seq(StepNames) /\ todo["main"] # <<>>
        BY <1>1, <1>3
      <3>2. TickSteps \in Seq(StepNames) /\ Len(TickSteps) = 12
        BY TickStepsAre
      <3> QED BY <2>1, <3>1, <3>2, SuffixTail
    <2>3. "network" \in Threads \ {t} /\ "main" \in Threads
      BY <1>3 DEF Threads
    <2>4. todo' \in [Threads -> Seq(StepNames)]
      BY <1>1, <1>3, <2>2
    <2>5. InTheirSteps'
      BY <1>2, <1>3, <2>2, <2>3 DEF InTheirSteps
    <2>6. (12 - Len(todo["main"])) + 1 = 13 - Len(todo["main"])
      BY <2>2
    <2> QED BY <1>1, <1>2, <1>3, <2>2, <2>4, <2>5, <2>6 DEF Left
  <1>4. CASE t = "network"
    <2>1. SuffixOf(todo["network"], LoginSteps)
      BY DEF InTheirSteps
    <2>2. /\ Tail(todo["network"]) \in Seq(StepNames) /\ SuffixOf(Tail(todo["network"]), LoginSteps)
          /\ Len(Tail(todo["network"])) = Len(todo["network"]) - 1
          /\ Len(todo["network"]) \in 1 .. LoginLength
          /\ Head(todo["network"]) = LoginSteps[(LoginLength - Len(todo["network"])) + 1]
      <3>1. todo["network"] \in Seq(StepNames) /\ todo["network"] # <<>>
        BY <1>1, <1>4
      <3>2. LoginSteps \in Seq(StepNames) /\ Len(LoginSteps) = LoginLength
        BY LoginStepsAre
      <3> QED BY <2>1, <3>1, <3>2, SuffixTail
    <2>3. "main" \in Threads \ {t} /\ "network" \in Threads
      BY <1>4 DEF Threads
    <2>4. todo' \in [Threads -> Seq(StepNames)]
      BY <1>1, <1>4, <2>2
    <2>5. InTheirSteps'
      BY <1>2, <1>4, <2>2, <2>3 DEF InTheirSteps
    <2> QED BY <1>1, <1>2, <1>4, <2>2, <2>4, <2>5 DEF Left
  <1> QED BY <1>3, <1>4 DEF Threads

----------------------------------------------------------------------------
(* Types *)

\* A remainder is smaller than what one divides by.
LEMMA RemainderType ==
  ASSUME NEW m \in Int, NEW n \in Nat \ {0}
  PROVE  m % n \in 0 .. n - 1
  OBVIOUS

\* A tick starts with the steps for the player.
LEMMA ProcessEffect ==
  ASSUME TypeOK, InTheirSteps, Process
  PROVE  /\ todo' \in [Threads -> Seq(StepNames)] /\ InTheirSteps'
         /\ Left("main") = 0 /\ Left("main")' = IF regionSet THEN 8 ELSE 12
         /\ todo'["network"] = todo["network"] /\ Left("network")' = Left("network")
         /\ todo'["main"] # <<>>
  <1>1. "main" \in Threads /\ "network" \in Threads
    BY DEF Threads
  <1>2. CASE regionSet
    <2>1. <<>> \o UpdateSteps = UpdateSteps
      <3>1. UpdateSteps \in Seq(StepNames)
        BY UpdateStepsAre
      <3> QED BY <3>1
    <2>2. todo' = [todo EXCEPT !["main"] = UpdateSteps]
      BY <1>2, <2>1 DEF Process
    <2>3. todo'["main"] = UpdateSteps /\ todo'["network"] = todo["network"]
      BY <1>1, <2>2 DEF TypeOK
    <2>4. SuffixOf(UpdateSteps, TickSteps)
      <3>1. Len(UpdateSteps) = 8 /\ Len(TickSteps) = 12
        BY UpdateStepsAre, TickStepsAre
      <3>2. ASSUME NEW i \in 1 .. 8 PROVE UpdateSteps[i] = TickSteps[(12 - 8) + i]
        BY UpdateStepsAre, TickStepsAre
      <3> QED BY <3>1, <3>2 DEF SuffixOf
    <2>5. todo' \in [Threads -> Seq(StepNames)]
      BY <2>2, UpdateStepsAre DEF TypeOK
    <2>6. Len(UpdateSteps) = 8 /\ UpdateSteps # <<>>
      <3>1. Len(UpdateSteps) = 8
        BY UpdateStepsAre
      <3> QED BY <3>1
    <2>7. Left("main") = 0
      BY <1>1 DEF Process, Left, TypeOK
    <2> QED BY <1>2, <2>3, <2>4, <2>5, <2>6, <2>7 DEF InTheirSteps, Left
  <1>3. CASE ~regionSet
    <2>1. todo' = [todo EXCEPT !["main"] = TickSteps]
      BY <1>3 DEF Process, TickSteps
    <2>2. todo'["main"] = TickSteps /\ todo'["network"] = todo["network"]
      BY <1>1, <2>1 DEF TypeOK
    <2>3. SuffixOf(TickSteps, TickSteps)
      BY TickStepsAre DEF SuffixOf
    <2>4. todo' \in [Threads -> Seq(StepNames)]
      BY <2>1, TickStepsAre DEF TypeOK
    <2>5. Len(TickSteps) = 12 /\ TickSteps # <<>>
      <3>1. Len(TickSteps) = 12
        BY TickStepsAre
      <3> QED BY <3>1
    <2>6. Left("main") = 0
      BY <1>1 DEF Process, Left, TypeOK
    <2> QED BY <1>3, <2>2, <2>3, <2>4, <2>5, <2>6 DEF InTheirSteps, Left
  <1> QED BY <1>2, <1>3

\* Types and steps when a thread posts a packet.
LEMMA PostsType ==
  ASSUME TypeOK, NEW t \in Threads, NEW wrong \in SUBSET Faults, Posts(t, wrong)
  PROVE  received' \in 0 .. Size * KeySets - 1 /\ faults' \subseteq Faults
  <1>1. Size * KeySets \in Nat \ {0}
    BY KeysAssumption
  <1>2. received \in Int
    BY DEF TypeOK
  <1>3. received' \in 0 .. Size * KeySets - 1
    BY <1>1, <1>2, RemainderType DEF Posts
  <1>4. "key" \in Faults
    BY DEF Faults
  <1>5. faults' \subseteq Faults
    BY <1>4 DEF Posts, TypeOK
  <1> QED BY <1>3, <1>5

\* GetNextKey takes a key of a key set.
LEMMA TakeKeyType ==
  ASSUME TypeOK, NEW t \in Threads, TakeKey(t)
  PROVE  /\ set' \in 0 .. KeySets - 1 /\ idx' \in 0 .. Size /\ held' \in [Threads -> Keys]
         /\ <<set', idx'>> = NextKey /\ held'[t] = NextKey
         /\ \A u \in Threads \ {t} : held'[u] = held[u]
  <1>1. set' \in 0 .. KeySets - 1 /\ idx' \in 0 .. Size - 1 /\ <<set', idx'>> = NextKey
    <2>1. CASE idx # 0 /\ idx' = idx - 1 /\ UNCHANGED set
      BY <2>1, KeysAssumption DEF TypeOK, NextKey
    <2>2. CASE idx = 0 /\ idx' = IndexAfterWrap /\ set' = (set + 1) % KeySets
      <3>1. set' \in 0 .. KeySets - 1
        <4>1. set + 1 \in Int /\ KeySets \in Nat \ {0}
          BY KeysAssumption DEF TypeOK
        <4> QED BY <2>2, <4>1, RemainderType
      <3> QED BY <2>2, <3>1, KeysAssumption DEF IndexAfterWrap, NextKey
    <2> QED BY <2>1, <2>2 DEF TakeKey
  <1>2. <<set', idx'>> \in Keys
    BY <1>1 DEF Keys
  <1>3. idx' \in 0 .. Size
    BY <1>1, KeysAssumption
  <1> QED BY <1>1, <1>2, <1>3 DEF TakeKey, TypeOK

\* The types and the order of the steps are kept.
LEMMA TypeStep == TypeOK /\ InTheirSteps /\ [Next]_vars => TypeOK' /\ InTheirSteps'
  <1> SUFFICES ASSUME TypeOK, InTheirSteps, [Next]_vars PROVE TypeOK' /\ InTheirSteps'
    OBVIOUS
  <1> USE DEF playerVars, keyVars, buildVars, clientVars
  <1>0. "main" \in Threads /\ "network" \in Threads
    BY DEF Threads
  <1>1. ASSUME NEW t \in Threads, NEW step, Steps(t, step)
        PROVE  /\ todo' \in [Threads -> Seq(StepNames)] /\ InTheirSteps'
               /\ undivided' = undivided /\ late' \in BOOLEAN
    <2>1. late' \in BOOLEAN
      BY <1>1 DEF Steps
    <2> QED BY <1>1, <2>1, StepsEffect
  <1>2. ASSUME NEW t \in Threads, SetRegion(t) PROVE TypeOK' /\ InTheirSteps'
    <2>1. regionSet' \in BOOLEAN
      BY <1>2 DEF SetRegion
    <2> QED BY <1>1, <1>2, <2>1 DEF SetRegion, TypeOK
  <1>3. ASSUME NEW t \in Threads, SetPlacement(t) PROVE TypeOK' /\ InTheirSteps'
    <2>1. flags' \subseteq Flags
      BY <1>3 DEF SetPlacement, Flags, TypeOK
    <2> QED BY <1>1, <1>3, <2>1 DEF SetPlacement, TypeOK
  <1>4. ASSUME NEW t \in Threads, TakeKey(t) PROVE TypeOK' /\ InTheirSteps'
    <2>1. set' \in 0 .. KeySets - 1 /\ idx' \in 0 .. Size /\ held' \in [Threads -> Keys]
      BY <1>4, TakeKeyType
    <2> QED BY <1>1, <1>4, <2>1 DEF TakeKey, TypeOK
  <1>5. ASSUME NEW t \in Threads, SendMapRegion(t) PROVE TypeOK' /\ InTheirSteps'
    <2>1. received' \in 0 .. Size * KeySets - 1 /\ faults' \subseteq Faults
      BY <1>5, PostsType DEF SendMapRegion
    <2>2. map' \in BOOLEAN
      BY <1>5 DEF SendMapRegion
    <2> QED BY <1>1, <1>5, <2>1, <2>2 DEF SendMapRegion, Posts, TypeOK
  <1>6. CASE Insert
    <2>1. registered' \in BOOLEAN
      BY <1>6 DEF Insert
    <2> QED BY <1>0, <1>1, <1>6, <2>1 DEF Insert, TypeOK
  <1>7. CASE SetAll
    BY <1>0, <1>1, <1>7 DEF SetAll, TypeOK
  <1>8. CASE SendInterface
    <2>1. received' \in 0 .. Size * KeySets - 1 /\ faults' \subseteq Faults
      BY <1>0, <1>8, PostsType DEF SendInterface
    <2> QED BY <1>0, <1>1, <1>8, <2>1 DEF SendInterface, Posts, TypeOK
  <1>9. CASE Process
    BY <1>9, ProcessEffect DEF Process, TypeOK
  <1>10. CASE ReadRequired
    <2>1. required' \in BOOLEAN
      BY <1>10 DEF ReadRequired
    <2> QED BY <1>0, <1>1, <1>10, <2>1 DEF ReadRequired, TypeOK
  <1>11. CASE UpdateLocalPlayerMovement
    <2>1. movement' \in Movements
      BY <1>11 DEF UpdateLocalPlayerMovement, Movements, TypeOK
    <2> QED BY <1>0, <1>1, <1>11, <2>1 DEF UpdateLocalPlayerMovement, TypeOK
  <1>12. CASE NeedsUpdate
    <2>1. block' \in Blocks
      BY <1>12 DEF NeedsUpdate, Blocks, NoBlock
    <2> QED BY <1>0, <1>1, <1>12, <2>1 DEF NeedsUpdate, TypeOK
  <1>13. CASE WriteMask
    <2>1. block' \in Blocks
      BY <1>13 DEF WriteMask, Blocks, TypeOK
    <2> QED BY <1>0, <1>1, <1>13, <2>1 DEF WriteMask, TypeOK
  <1>14. CASE AppendAppearance
    <2>1. block' \in Blocks
      BY <1>14 DEF AppendAppearance, Blocks, TypeOK
    <2> QED BY <1>0, <1>1, <1>14, <2>1 DEF AppendAppearance, TypeOK
  <1>15. CASE SendUpdate
    <2>1. received' \in 0 .. Size * KeySets - 1 /\ faults' \subseteq Faults
      BY <1>0, <1>15, PostsType DEF SendUpdate
    <2>2. shown' \in BOOLEAN
      BY <1>15 DEF SendUpdate
    <2> QED BY <1>0, <1>1, <1>15, <2>1, <2>2 DEF SendUpdate, Posts, TypeOK
  <1>16. CASE Reset
    BY <1>0, <1>1, <1>16 DEF Reset, TypeOK
  <1>17. CASE UNCHANGED vars
    BY <1>17 DEF vars, TypeOK, InTheirSteps
  <1> QED
    BY <1>0, <1>2, <1>3, <1>4, <1>5, <1>6, <1>7, <1>8, <1>9, <1>10, <1>11, <1>12, <1>13, <1>14,
       <1>15, <1>16, <1>17 DEF Next, Login, Tick

\* The step the main thread makes says how many it has left.
LEMMA MainPlace ==
  ASSUME TypeOK, InTheirSteps, NEW step, Steps("main", step)
  PROVE  /\ Left("main") \in 1 .. 12 /\ Left("main")' = Left("main") - 1
         /\ Left("network")' = Left("network") /\ todo'["network"] = todo["network"]
         /\ undivided' = undivided
         /\ step = "region" => Left("main") = 12
         /\ step = "placement" => Left("main") = 11
         /\ step = "key" => Left("main") \in {8, 10}
         /\ step = "sendMap" => Left("main") = 9
         /\ step = "required" => Left("main") = 7
         /\ step = "movement" => Left("main") = 6
         /\ step = "state" => Left("main") = 5
         /\ step = "mask" => Left("main") = 4
         /\ step = "appearance" => Left("main") = 3
         /\ step = "sendUpdate" => Left("main") = 2
         /\ step = "reset" => Left("main") = 1
  <1>1. "main" \in Threads /\ "network" \in Threads \ {"main"}
    BY DEF Threads
  <1>2. /\ Left("main") \in Nat \ {0} /\ Left("main")' = Left("main") - 1
        /\ Left("network")' = Left("network") /\ todo'["network"] = todo["network"]
        /\ undivided' = undivided /\ step = TickSteps[13 - Left("main")]
    BY <1>1, StepsEffect
  <1>3. Left("main") \in 1 .. 12
    BY <1>2, LeftType
  <1> HIDE DEF Left
  <1> DEFINE n == Left("main")
  <1>4. \/ (n = 1 /\ step = "reset") \/ (n = 2 /\ step = "sendUpdate")
        \/ (n = 3 /\ step = "appearance") \/ (n = 4 /\ step = "mask")
        \/ (n = 5 /\ step = "state") \/ (n = 6 /\ step = "movement")
        \/ (n = 7 /\ step = "required") \/ (n = 8 /\ step = "key")
        \/ (n = 9 /\ step = "sendMap") \/ (n = 10 /\ step = "key")
        \/ (n = 11 /\ step = "placement") \/ (n = 12 /\ step = "region")
    <2>1. step = TickSteps[13 - n] /\ n \in 1 .. 12
      BY <1>2, <1>3
    <2> HIDE DEF n
    <2> QED BY <2>1, TickStepsAre
  <1> QED BY <1>2, <1>3, <1>4

\* The network thread leaves the main thread's place alone.
LEMMA NetworkPlace ==
  ASSUME TypeOK, InTheirSteps, NEW step, Steps("network", step)
  PROVE  /\ Left("network") \in 1 .. LoginLength /\ Left("network")' = Left("network") - 1
         /\ Left("main")' = Left("main") /\ todo'["main"] = todo["main"]
         /\ undivided' = undivided
         /\ step = LoginSteps[(LoginLength - Left("network")) + 1]
  <1>1. "network" \in Threads /\ "main" \in Threads \ {"network"}
    BY DEF Threads
  <1>2. /\ Left("network") \in Nat \ {0} /\ Left("network")' = Left("network") - 1
        /\ Left("main")' = Left("main") /\ todo'["main"] = todo["main"]
        /\ undivided' = undivided
        /\ step = LoginSteps[(LoginLength - Left("network")) + 1]
    BY <1>1, StepsEffect
  <1> QED BY <1>2, LeftType, LoginStepsAre

----------------------------------------------------------------------------
(* The attributes announced follow, however the threads interleave *)

\* What a read of the flags has found stays true for the reads that follow.
LEMMA AnnouncedStep ==
  TypeOK /\ InTheirSteps /\ AnnouncedKept /\ AttributesFollow /\ [Next]_vars
    => AnnouncedKept' /\ AttributesFollow'
  <1> SUFFICES ASSUME TypeOK, InTheirSteps, AnnouncedKept, AttributesFollow, [Next]_vars
               PROVE  AnnouncedKept' /\ AttributesFollow'
    OBVIOUS
  <1> USE DEF playerVars, keyVars, buildVars, clientVars
  <1>0. "main" \in Threads /\ "network" \in Threads
    BY DEF Threads
  <1>1. ASSUME Left("main")' = Left("main"), flags \subseteq flags', UNCHANGED buildVars
        PROVE  AnnouncedKept'
    BY <1>1 DEF AnnouncedKept
  <1>2. ASSUME Left("main")' \notin 2 .. 6 PROVE AnnouncedKept'
    BY <1>2 DEF AnnouncedKept
  <1>3. ASSUME NEW t \in Threads, NEW wrong, Posts(t, wrong), "missing" \notin wrong
        PROVE  AttributesFollow'
    BY <1>3 DEF Posts, AttributesFollow
  <1>4. ASSUME UNCHANGED faults PROVE AttributesFollow'
    BY <1>4 DEF AttributesFollow
  <1>5. ASSUME NEW step, Steps("network", step) PROVE Left("main")' = Left("main")
    BY <1>5, NetworkPlace
  <1>6. ASSUME NEW step, Steps("main", step), step \in {"region", "placement", "key", "sendMap"}
        PROVE  Left("main")' \notin 2 .. 6
    BY <1>6, MainPlace
  <1>7. CASE SetRegion("network") \/ SetPlacement("network") \/ TakeKey("network")
    BY <1>1, <1>4, <1>5, <1>7 DEF SetRegion, SetPlacement, TakeKey
  <1>8. CASE SendMapRegion("network")
    BY <1>0, <1>1, <1>3, <1>5, <1>8 DEF SendMapRegion, Posts
  <1>9. CASE SetRegion("main") \/ SetPlacement("main") \/ TakeKey("main")
    BY <1>2, <1>4, <1>6, <1>9 DEF SetRegion, SetPlacement, TakeKey
  <1>10. CASE SendMapRegion("main")
    BY <1>0, <1>2, <1>3, <1>6, <1>10 DEF SendMapRegion
  <1>11. CASE Insert
    BY <1>1, <1>4, <1>5, <1>11 DEF Insert
  <1>12. CASE SetAll
    BY <1>1, <1>4, <1>5, <1>12 DEF SetAll, TypeOK
  <1>13. CASE SendInterface
    BY <1>0, <1>1, <1>3, <1>5, <1>13 DEF SendInterface, Posts
  <1>14. CASE Process
    BY <1>2, <1>4, <1>14, ProcessEffect DEF Process
  <1>15. CASE ReadRequired
    <2>1. Left("main")' = 6 /\ flags' = flags /\ faults' = faults
      BY <1>15, MainPlace DEF ReadRequired
    <2>2. required' => flags # {}
      BY <1>15 DEF ReadRequired
    <2> QED BY <1>4, <2>1, <2>2 DEF AnnouncedKept
  <1>16. CASE UpdateLocalPlayerMovement
    <2>1. Left("main") = 6 /\ Left("main")' = 5 /\ flags' = flags /\ faults' = faults
      BY <1>16, MainPlace DEF UpdateLocalPlayerMovement
    <2>2. required => flags # {}
      BY <2>1 DEF AnnouncedKept
    <2>3. movement'.update => flags' # {}
      BY <1>16, <2>1, <2>2 DEF UpdateLocalPlayerMovement
    <2> QED BY <1>4, <2>1, <2>3 DEF AnnouncedKept
  <1>17. CASE NeedsUpdate
    <2>1. /\ Left("main") = 5 /\ Left("main")' = 4 /\ flags' = flags /\ faults' = faults
          /\ movement' = movement
      BY <1>17, MainPlace DEF NeedsUpdate
    <2>2. movement.update => flags # {}
      BY <2>1 DEF AnnouncedKept
    <2>3. block'.written <=> flags # {}
      BY <1>17 DEF NeedsUpdate, NoBlock
    <2> QED BY <1>4, <2>1, <2>2, <2>3 DEF AnnouncedKept
  <1>18. CASE WriteMask
    <2>1. /\ Left("main") = 4 /\ Left("main")' = 3 /\ flags' = flags /\ faults' = faults
          /\ movement' = movement
      BY <1>18, MainPlace DEF WriteMask
    <2>2. movement.update => block.written
      BY <2>1 DEF AnnouncedKept
    <2>3. /\ block'.written = block.written
          /\ block'.masked <=> block.written /\ "Appearance" \in flags
      BY <1>18 DEF WriteMask, TypeOK, Blocks
    <2> QED BY <1>4, <2>1, <2>2, <2>3 DEF AnnouncedKept
  <1>19. CASE AppendAppearance
    <2>1. /\ Left("main") = 3 /\ Left("main")' = 2 /\ flags' = flags /\ faults' = faults
          /\ movement' = movement
      BY <1>19, MainPlace DEF AppendAppearance
    <2>2. /\ movement.update => block.written
          /\ block.masked => "Appearance" \in flags /\ block.written
      BY <2>1 DEF AnnouncedKept
    <2>3. /\ block'.written = block.written /\ block'.masked = block.masked
          /\ block'.appended <=> block.written /\ "Appearance" \in flags
      BY <1>19 DEF AppendAppearance, TypeOK, Blocks
    <2> QED BY <1>4, <2>1, <2>2, <2>3 DEF AnnouncedKept
  <1>20. CASE SendUpdate
    <2>1. Left("main") = 2 /\ Left("main")' = 1
      BY <1>20, MainPlace DEF SendUpdate
    <2>2. (movement.update => block.written) /\ (block.masked => block.appended)
      BY <2>1 DEF AnnouncedKept
    <2> DEFINE wrong == {f \in Faults :
          \/ f = "missing" /\ movement.update /\ ~block.written
          \/ f = "missing" /\ block.masked /\ ~block.appended
          \/ f = "unannounced" /\ ~movement.update /\ block.written
          \/ f = "unmasked" /\ ~block.masked /\ block.appended
          \/ f = "placement" /\ movement.placed /\ ~map}
    <2>3. Posts("main", wrong)
      BY <1>20 DEF SendUpdate
    <2>4. "missing" \notin wrong
      BY <2>2
    <2> HIDE DEF wrong
    <2> QED BY <1>0, <1>2, <1>3, <2>1, <2>3, <2>4
  <1>21. CASE Reset
    BY <1>2, <1>4, <1>21, MainPlace DEF Reset
  <1>22. CASE UNCHANGED vars
    BY <1>22 DEF vars, AnnouncedKept, AttributesFollow, Left
  <1> QED
    BY <1>7, <1>8, <1>9, <1>10, <1>11, <1>12, <1>13, <1>14, <1>15, <1>16, <1>17, <1>18, <1>19,
       <1>20, <1>21, <1>22 DEF Next, Login, Tick

----------------------------------------------------------------------------
(* What Login asks for is sent, however the threads interleave *)

\* Where the main thread is says what its next step is.
LEMMA MainHead ==
  ASSUME TypeOK, InTheirSteps, todo["main"] # <<>>
  PROVE  Left("main") \in 1 .. 12 /\ Head(todo["main"]) = TickSteps[13 - Left("main")]
  <1>1. todo["main"] \in Seq(StepNames) /\ SuffixOf(todo["main"], TickSteps)
    BY DEF TypeOK, Threads, InTheirSteps
  <1>2. TickSteps \in Seq(StepNames) /\ Len(TickSteps) = 12
    BY TickStepsAre
  <1>3. /\ Len(todo["main"]) \in 1 .. 12
        /\ Head(todo["main"]) = TickSteps[(12 - Len(todo["main"])) + 1]
    BY <1>1, <1>2, SuffixTail
  <1>4. (12 - Len(todo["main"])) + 1 = 13 - Len(todo["main"])
    BY <1>3
  <1> QED BY <1>3, <1>4 DEF Left

\* Flags that Login does not set too late are still read by the update under way.
LEMMA NotTooLate ==
  ASSUME TypeOK, InTheirSteps, ~PastReading
  PROVE  TakenIn
  <1>1. CASE todo["main"] = <<>>
    <2>1. Left("main") = 0
      BY <1>1 DEF Left
    <2> QED BY <2>1 DEF TakenIn
  <1>2. CASE todo["main"] # <<>>
    <2> DEFINE n == Left("main")
    <2>1. n \in 1 .. 12 /\ Head(todo["main"]) = TickSteps[13 - n]
      BY <1>2, MainHead
    <2>2. /\ Head(todo["main"]) \notin {"appearance", "sendUpdate", "reset"}
          /\ Head(todo["main"]) = "mask" => block.written
      BY <1>2 DEF PastReading
    <2> HIDE DEF n
    <2>3. n \notin 1 .. 3 /\ (n = 4 => block.written)
      BY <2>1, <2>2, TickStepsAre
    <2> QED BY <2>1, <2>3 DEF TakenIn, n
  <1> QED BY <1>1, <1>2

\* Only Reset takes flags away, and it does so after the update that has taken them in
\* has been sent.
LEMMA AskedStep ==
  TypeOK /\ InTheirSteps /\ AskedUntilShown /\ [Next]_vars => AskedUntilShown'
  <1> SUFFICES ASSUME TypeOK, InTheirSteps, AskedUntilShown, [Next]_vars, ~late',
                      Left("network")' < LoginLength - 5
               PROVE  shown' \/ (flags' = Flags /\ TakenIn')
    BY DEF AskedUntilShown
  <1> USE DEF playerVars, keyVars, buildVars, clientVars
  <1>1. LoginLength \in Nat /\ LoginLength >= 8 /\ LoginSteps[6] = "all" /\ LoginSteps[3] = "placement"
    BY LoginStepsAre
  <1>2. ASSUME NEW step, Steps("main", step)
        PROVE  /\ Left("main") \in 1 .. 12 /\ Left("main")' = Left("main") - 1
               /\ shown \/ (flags = Flags /\ TakenIn)
    <2>1. /\ Left("main") \in 1 .. 12 /\ Left("main")' = Left("main") - 1
          /\ Left("network")' = Left("network")
      BY <1>2, MainPlace
    <2>2. ~late
      BY <1>2 DEF Steps
    <2> QED BY <2>1, <2>2 DEF AskedUntilShown
  <1>3. ASSUME NEW step, Steps("network", step), step # "all"
        PROVE  /\ Left("main")' = Left("main")
               /\ shown \/ (flags = Flags /\ TakenIn)
    <2>1. /\ Left("network") \in 1 .. LoginLength /\ Left("network")' = Left("network") - 1
          /\ step = LoginSteps[(LoginLength - Left("network")) + 1]
          /\ Left("main")' = Left("main")
      BY <1>3, NetworkPlace
    <2>2. Left("network") # LoginLength - 5
      <3>1. Left("network") = LoginLength - 5 => (LoginLength - Left("network")) + 1 = 6
        BY <1>1
      <3> QED BY <1>1, <1>3, <2>1, <3>1
    <2>3. ~late
      BY <1>3 DEF Steps
    <2> QED BY <1>1, <2>1, <2>2, <2>3 DEF AskedUntilShown
  \* A step that takes no flag away and builds nothing.
  <1>4. ASSUME shown \/ (flags = Flags /\ TakenIn), shown => shown', UNCHANGED block,
               flags = Flags => flags' = Flags,
               Left("main")' = Left("main") \/ Left("main")' \in 5 .. 12
        PROVE  shown' \/ (flags' = Flags /\ TakenIn')
    BY <1>4 DEF TakenIn
  <1>5. ASSUME NEW t \in Threads,
               SetRegion(t) \/ SetPlacement(t) \/ TakeKey(t) \/ SendMapRegion(t)
        PROVE  shown' \/ (flags' = Flags /\ TakenIn')
    <2>1. PICK step \in {"region", "placement", "key", "sendMap"} : Steps(t, step)
      BY <1>5 DEF SetRegion, SetPlacement, TakeKey, SendMapRegion
    <2>2. UNCHANGED <<block, shown>> /\ (flags = Flags => flags' = Flags)
      BY <1>5 DEF SetRegion, SetPlacement, TakeKey, SendMapRegion, Posts, Flags
    <2>3. CASE t = "network"
      BY <1>3, <1>4, <2>1, <2>2, <2>3
    <2>4. CASE t = "main"
      <3>1. Left("main") \in {8, 9, 10, 11, 12}
        BY <2>1, <2>4, MainPlace
      <3>2. Left("main")' \in 5 .. 12
        BY <1>2, <2>1, <2>4, <3>1
      <3> QED BY <1>2, <1>4, <2>1, <2>2, <2>4, <3>2
    <2> QED BY <2>3, <2>4 DEF Threads
  <1>6. CASE Insert \/ SendInterface
    <2>1. PICK step \in {"insert", "sendInterface"} : Steps("network", step)
      BY <1>6 DEF Insert, SendInterface
    <2>2. UNCHANGED <<block, shown, flags>>
      BY <1>6 DEF Insert, SendInterface, Posts
    <2> QED BY <1>3, <1>4, <2>1, <2>2
  <1>7. CASE SetAll
    <2>1. Steps("network", "all") /\ flags' = Flags /\ UNCHANGED <<block, shown>>
      BY <1>7 DEF SetAll
    <2>2. ~PastReading
      BY <2>1 DEF Steps
    <2>3. TakenIn
      BY <2>2, NotTooLate
    <2>4. Left("main")' = Left("main")
      BY <2>1, NetworkPlace
    <2> QED BY <2>1, <2>3, <2>4 DEF TakenIn
  <1>8. CASE Process
    <2>1. Left("main")' \in 5 .. 12 /\ Left("network")' = Left("network")
      BY <1>8, ProcessEffect
    <2>2. UNCHANGED <<block, shown, flags, late>>
      BY <1>8 DEF Process
    <2> QED BY <1>4, <2>1, <2>2 DEF AskedUntilShown
  <1>9. CASE ReadRequired \/ UpdateLocalPlayerMovement
    <2>1. PICK step \in {"required", "movement"} : Steps("main", step)
      BY <1>9 DEF ReadRequired, UpdateLocalPlayerMovement
    <2>2. UNCHANGED <<block, shown, flags>>
      BY <1>9 DEF ReadRequired, UpdateLocalPlayerMovement
    <2>3. Left("main")' \in 5 .. 12
      BY <1>2, <2>1, MainPlace
    <2> QED BY <1>2, <1>4, <2>1, <2>2, <2>3
  <1>10. CASE NeedsUpdate
    <2>1. Left("main")' = 4 /\ UNCHANGED <<flags, shown>>
      BY <1>10, MainPlace DEF NeedsUpdate
    <2>2. flags # {} => block'.written
      BY <1>10 DEF NeedsUpdate, NoBlock
    <2>3. Flags # {}
      BY DEF Flags
    <2>4. shown \/ flags = Flags
      BY <1>2, <1>10 DEF NeedsUpdate
    <2> QED BY <2>1, <2>2, <2>3, <2>4 DEF TakenIn
  <1>11. CASE WriteMask
    <2>1. Left("main") = 4 /\ Left("main")' = 3 /\ UNCHANGED <<flags, shown>>
      BY <1>11, MainPlace DEF WriteMask
    <2>2. /\ block'.written = block.written
          /\ block'.masked <=> block.written /\ "Appearance" \in flags
      BY <1>11 DEF WriteMask, TypeOK, Blocks
    <2>3. shown \/ (flags = Flags /\ block.written)
      BY <1>2, <1>11, <2>1 DEF WriteMask, TakenIn
    <2> QED BY <2>1, <2>2, <2>3 DEF TakenIn, Flags
  <1>12. CASE AppendAppearance
    <2>1. Left("main") = 3 /\ Left("main")' = 2 /\ UNCHANGED <<flags, shown>>
      BY <1>12, MainPlace DEF AppendAppearance
    <2>2. /\ block'.written = block.written /\ block'.masked = block.masked
          /\ block'.appended <=> block.written /\ "Appearance" \in flags
      BY <1>12 DEF AppendAppearance, TypeOK, Blocks
    <2>3. shown \/ (flags = Flags /\ block.written /\ block.masked)
      BY <1>2, <1>12, <2>1 DEF AppendAppearance, TakenIn
    <2> QED BY <2>1, <2>2, <2>3 DEF TakenIn, Flags
  <1>13. CASE SendUpdate
    <2>1. Left("main") = 2
      BY <1>13, MainPlace DEF SendUpdate
    <2>2. shown \/ (block.masked /\ block.appended)
      BY <1>2, <1>13, <2>1 DEF SendUpdate, TakenIn
    <2>3. shown' <=> shown \/ (block.masked /\ block.appended)
      BY <1>13 DEF SendUpdate
    <2> QED BY <2>2, <2>3
  <1>14. CASE Reset
    <2>1. Left("main") = 1 /\ UNCHANGED shown
      BY <1>14, MainPlace DEF Reset
    <2>2. shown
      BY <1>2, <1>14, <2>1 DEF Reset, TakenIn
    <2> QED BY <2>1, <2>2
  <1>15. CASE UNCHANGED vars
    <2>1. UNCHANGED <<todo, flags, block, shown, late>>
      BY <1>15 DEF vars
    <2> QED BY <1>4, <2>1 DEF AskedUntilShown, Left
  <1>16. "main" \in Threads /\ "network" \in Threads
    BY DEF Threads
  <1> QED
    BY <1>5, <1>6, <1>7, <1>8, <1>9, <1>10, <1>11, <1>12, <1>13, <1>14, <1>15, <1>16
    DEF Next, Login, Tick

----------------------------------------------------------------------------
(* The order of the keys *)

\* A number is a quotient times the divisor and a remainder.
LEMMA Quotient ==
  ASSUME NEW s \in Nat \ {0}, NEW n \in Int
  PROVE  n \div s \in Int /\ n % s \in 0 .. s - 1 /\ n = s * (n \div s) + (n % s)
  BY SMTT(30)

\* Multiples of s are s or more apart.
LEMMA MultiplesApart ==
  ASSUME NEW s \in Nat \ {0}, NEW a \in Int, NEW b \in Int, a < b
  PROVE  s * a + s <= s * b /\ s * a \in Int /\ s * b \in Int
  <1>1. PICK d \in Nat \ {0} : b = a + d
    <2>1. b - a \in Nat \ {0} /\ b = a + (b - a)
      OBVIOUS
    <2> QED BY <2>1
  <1>2. s * b = s * a + s * d
    BY <1>1, SMTT(30)
  <1>3. s * d >= s
    BY <1>1, SMTT(30)
  <1>4. s * b \in Int /\ s * a \in Int /\ s * d \in Int
    BY <1>1
  <1> QED BY <1>2, <1>3, <1>4

\* Quotient and remainder are the only such numbers.
LEMMA QuotientUnique ==
  ASSUME NEW s \in Nat \ {0}, NEW q \in Int, NEW r \in 0 .. s - 1, NEW n \in Int,
         n = s * q + r
  PROVE  n \div s = q /\ n % s = r
  <1> DEFINE p == n \div s
             t == n % s
  <1>1. p \in Int /\ t \in 0 .. s - 1 /\ n = s * p + t
    BY Quotient
  <1> HIDE DEF p, t
  <1>2. s * p \in Int /\ s * q \in Int
    BY <1>1
  <1>3. CASE p < q
    <2>1. s * p + s <= s * q
      BY <1>1, <1>3, MultiplesApart
    <2> QED BY <1>1, <1>2, <2>1
  <1>4. CASE q < p
    <2>1. s * q + s <= s * p
      BY <1>1, <1>4, MultiplesApart
    <2> QED BY <1>1, <1>2, <2>1
  <1>5. CASE p = q
    BY <1>1, <1>2, <1>5 DEF p, t
  <1> QED BY <1>1, <1>3, <1>4, <1>5

\* The key GetNextKey returns when the last one was k.
After(k) == IF k[2] # 0 THEN <<k[1], k[2] - 1>> ELSE <<(k[1] + 1) % KeySets, Size - 1>>

\* GetNextKey returns the keys in the order in which they are counted, from one key
\* set to the next too.
LEMMA KeySuccessor ==
  ASSUME NEW n \in 0 .. Size * KeySets - 1
  PROVE  After(KeyAt(n)) = KeyAt((n + 1) % (Size * KeySets))
  <1> DEFINE q == n \div Size
             r == n % Size
             N == Size * KeySets
  <1>1. Size \in Nat \ {0} /\ KeySets \in Nat \ {0} /\ N \in Nat \ {0} /\ n \in 0 .. N - 1
    BY KeysAssumption
  <1>2. q \in Int /\ r \in 0 .. Size - 1 /\ n = Size * q + r
    BY <1>1, Quotient
  <1>3. KeyAt(n) = <<q, Size - 1 - r>>
    BY DEF KeyAt
  <1> HIDE DEF q, r
  <1>4. Size * q \in Int
    BY <1>1, <1>2
  <1>5. 0 <= q /\ q < KeySets
    <2>1. CASE q < 0
      <3>1. Size * q + Size <= Size * 0
        BY <1>1, <1>2, <2>1, MultiplesApart
      <3>2. Size * 0 = 0
        BY <1>1
      <3> QED BY <1>1, <1>2, <1>4, <3>1, <3>2
    <2>2. CASE KeySets <= q
      <3>1. N <= Size * q
        <4>1. CASE KeySets = q
          BY <4>1, <1>1, <1>4
        <4>2. CASE KeySets < q
          <5>1. Size * KeySets + Size <= Size * q
            BY <1>1, <1>2, <4>2, MultiplesApart
          <5> QED BY <1>1, <1>4, <5>1
        <4> QED BY <1>1, <1>2, <2>2, <4>1, <4>2
      <3> HIDE DEF N
      <3> QED BY <1>1, <1>2, <1>4, <3>1
    <2> QED BY <1>1, <1>2, <2>1, <2>2
  <1>6. Size * (q + 1) = Size * q + Size
    BY <1>1, <1>2, SMTT(30)
  <1>7. CASE r < Size - 1
    <2>1. After(KeyAt(n)) = <<q, Size - 1 - (r + 1)>>
      BY <1>1, <1>2, <1>3, <1>7 DEF After
    <2>2. Size * q + Size <= N
      BY <1>1, <1>2, <1>5, MultiplesApart
    <2> HIDE DEF N
    <2>3. n + 1 \in 0 .. N - 1
      BY <1>1, <1>2, <1>4, <1>7, <2>2
    <2>4. N * 0 = 0
      BY <1>1
    <2>5. n + 1 = N * 0 + (n + 1)
      BY <1>1, <2>4
    <2>6. (n + 1) % N = n + 1
      BY <1>1, <2>3, <2>5, QuotientUnique
    <2>7. (n + 1) \div Size = q /\ (n + 1) % Size = r + 1
      <3>1. n + 1 = Size * q + (r + 1) /\ r + 1 \in 0 .. Size - 1 /\ n + 1 \in Int
        BY <1>1, <1>2, <1>4, <1>7
      <3> QED BY <1>1, <1>2, <3>1, QuotientUnique
    <2>8. KeyAt((n + 1) % N) = <<q, Size - 1 - (r + 1)>>
      BY <2>6, <2>7 DEF KeyAt
    <2> QED BY <2>1, <2>8 DEF N
  <1>8. CASE r = Size - 1
    <2>1. After(KeyAt(n)) = <<(q + 1) % KeySets, Size - 1>>
      BY <1>1, <1>2, <1>3, <1>8 DEF After
    <2>2. n + 1 = Size * (q + 1) /\ n + 1 \in Int
      BY <1>1, <1>2, <1>4, <1>6, <1>8
    <2>3. CASE q + 1 < KeySets
      <3>1. (q + 1) % KeySets = q + 1
        <4>1. KeySets * 0 = 0
          BY <1>1
        <4>2. q + 1 = KeySets * 0 + (q + 1) /\ q + 1 \in 0 .. KeySets - 1
          BY <1>1, <1>2, <1>5, <2>3, <4>1
        <4> QED BY <1>1, <4>2, QuotientUnique
      <3>2. Size * (q + 1) + Size <= N
        BY <1>1, <1>2, <2>3, MultiplesApart
      <3> HIDE DEF N
      <3>3. n + 1 \in 0 .. N - 1
        BY <1>1, <2>2, <3>2
      <3>4. N * 0 = 0
        BY <1>1
      <3>5. n + 1 = N * 0 + (n + 1)
        BY <1>1, <3>4
      <3>6. (n + 1) % N = n + 1
        BY <1>1, <3>3, <3>5, QuotientUnique
      <3>7. (n + 1) \div Size = q + 1 /\ (n + 1) % Size = 0
        <4> DEFINE p == q + 1
        <4>1. p \in Int /\ n + 1 = Size * p /\ 0 \in 0 .. Size - 1
          BY <1>1, <1>2, <2>2
        <4> HIDE DEF p
        <4>2. n + 1 = Size * p + 0
          BY <1>1, <2>2, <4>1
        <4>3. (n + 1) \div Size = p /\ (n + 1) % Size = 0
          BY <1>1, <2>2, <4>1, <4>2, QuotientUnique
        <4> QED BY <4>3 DEF p
      <3>8. KeyAt((n + 1) % N) = <<q + 1, Size - 1>>
        BY <1>1, <3>6, <3>7 DEF KeyAt
      <3> QED BY <2>1, <3>1, <3>8 DEF N
    <2>4. CASE q + 1 = KeySets
      <3>1. n + 1 = N
        BY <2>2, <2>4
      <3> HIDE DEF N
      <3>2. (n + 1) % N = 0
        <4>1. N * 1 = N
          BY <1>1
        <4>2. n + 1 = N * 1 + 0 /\ 0 \in 0 .. N - 1
          BY <1>1, <3>1, <4>1
        <4> QED BY <1>1, <2>2, <4>2, QuotientUnique
      <3>3. (q + 1) % KeySets = 0
        <4>1. KeySets * 1 = KeySets
          BY <1>1
        <4>2. q + 1 = KeySets * 1 + 0 /\ 0 \in 0 .. KeySets - 1 /\ q + 1 \in Int
          BY <1>1, <1>2, <2>4, <4>1
        <4> QED BY <1>1, <4>2, QuotientUnique
      <3>4. 0 \div Size = 0 /\ 0 % Size = 0
        BY <1>1
      <3>5. KeyAt((n + 1) % N) = <<0, Size - 1>>
        BY <1>1, <3>2, <3>4 DEF KeyAt
      <3> QED BY <2>1, <3>3, <3>5 DEF N
    <2> QED BY <1>1, <1>2, <1>5, <2>3, <2>4
  <1> QED BY <1>1, <1>2, <1>7, <1>8

----------------------------------------------------------------------------
(* An undivided RegisterPlayer *)

Sends == {"sendMap", "sendInterface"}

\* Login posts a packet after each key it takes, and takes no key before it has.
LEMMA LoginAlternates ==
  ASSUME NEW i \in 1 .. LoginLength
  PROVE  /\ LoginSteps[i] = "key" => i + 1 \in 1 .. LoginLength /\ LoginSteps[i + 1] \in Sends
         /\ LoginSteps[i] # "key" /\ i # LoginLength => LoginSteps[i + 1] \notin Sends
         /\ LoginSteps[i] = "insert" => i = 1
         /\ LoginSteps[i] = "region" => i = 2
         /\ LoginSteps[i] = "placement" => i = 3
         /\ LoginSteps[i] = "sendMap" => i = 5
         /\ LoginSteps[i] = "all" => i = 6
         /\ LoginSteps[i] = "sendInterface" => i > 6
  <1>1. LoginLength \in Nat /\ LoginLength >= 8 /\ (LoginLength - 6) % 2 = 0
    <2>1. LoginLength - 6 = 2 * Interfaces /\ 2 * Interfaces \in Nat
      BY InterfacesAssumption DEF LoginLength
    <2>2. (2 * Interfaces) % 2 = 0
      BY InterfacesAssumption
    <2> QED BY <2>1, <2>2, LoginStepsAre
  <1>2. CASE i \in 1 .. 6
    <2>1. 7 \in 7 .. LoginLength /\ (7 - 6) % 2 = 1
      BY <1>1
    <2>2. LoginSteps[7] = "key"
      BY <2>1, LoginStepsAre
    <2>3. /\ LoginSteps[1] = "insert" /\ LoginSteps[2] = "region" /\ LoginSteps[3] = "placement"
          /\ LoginSteps[4] = "key" /\ LoginSteps[5] = "sendMap" /\ LoginSteps[6] = "all"
      BY LoginStepsAre
    <2> QED BY <1>1, <1>2, <2>2, <2>3 DEF Sends
  <1>3. CASE i \in 7 .. LoginLength
    <2>1. LoginSteps[i] = IF (i - 6) % 2 = 1 THEN "key" ELSE "sendInterface"
      BY <1>3, LoginStepsAre
    <2>2. CASE i = LoginLength
      BY <1>1, <1>3, <2>1, <2>2
    <2>3. CASE i # LoginLength
      <3>1. i + 1 \in 7 .. LoginLength
        BY <1>1, <1>3, <2>3
      <3>2. LoginSteps[i + 1] = IF (i + 1 - 6) % 2 = 1 THEN "key" ELSE "sendInterface"
        BY <3>1, LoginStepsAre
      <3>3. (i - 6) % 2 = 1 <=> (i + 1 - 6) % 2 # 1
        OBVIOUS
      <3> QED BY <1>1, <1>3, <2>1, <3>1, <3>2, <3>3 DEF Sends
    <2> QED BY <2>2, <2>3
  <1> QED BY <1>1, <1>2, <1>3

\* The head of what is left of Login is its next step.
LEMMA LoginNext ==
  ASSUME NEW rest \in Seq(StepNames), SuffixOf(rest, LoginSteps), rest # <<>>
  PROVE  Head(rest) = LoginSteps[(LoginLength - Len(rest)) + 1]
  <1>1. LoginSteps \in Seq(StepNames) /\ Len(LoginSteps) = LoginLength
    BY LoginStepsAre
  <1> QED BY <1>1, SuffixTail

\* With an undivided RegisterPlayer, Login holds a key between taking and posting it.
LEMMA NetworkHolds ==
  ASSUME TypeOK, InTheirSteps, NEW step, Steps("network", step)
  PROVE  /\ Holds("network") <=> step \in Sends
         /\ Holds("network")' <=> step = "key"
         /\ step = "insert" => Left("network") = LoginLength
         /\ step = "region" => Left("network") = LoginLength - 1
         /\ step = "placement" => Left("network") = LoginLength - 2
         /\ step = "sendMap" => Left("network") = LoginLength - 4
         /\ step = "all" => Left("network") = LoginLength - 5
         /\ step = "sendInterface" => Left("network") < LoginLength - 5
  <1> DEFINE m == Left("network")
             i == (LoginLength - m) + 1
  <1>1. m \in 1 .. LoginLength /\ m' = m - 1 /\ step = LoginSteps[i] /\ LoginLength \in Nat
    BY NetworkPlace, LoginStepsAre
  <1>2. Holds("network") <=> step \in Sends
    <2>1. todo["network"] # <<>> /\ Head(todo["network"]) = step
      BY DEF Steps
    <2> QED BY <2>1 DEF Holds, Sends
  <1>3. /\ todo'["network"] \in Seq(StepNames) /\ SuffixOf(todo'["network"], LoginSteps)
        /\ Len(todo'["network"]) = m - 1
    <2>1. "network" \in Threads
      BY DEF Threads
    <2>2. todo' \in [Threads -> Seq(StepNames)] /\ InTheirSteps'
      BY <2>1, StepsEffect
    <2> QED BY <1>1, <2>1, <2>2 DEF InTheirSteps, Left
  <1>4. i \in 1 .. LoginLength
    BY <1>1
  <1>5. Holds("network")' <=> step = "key"
    <2>1. CASE todo'["network"] = <<>>
      <3>1. m = 1
        BY <1>1, <1>3, <2>1
      <3>2. i = LoginLength
        BY <1>1, <3>1
      <3>3. step # "key"
        BY <1>1, <1>4, <3>2, LoginAlternates
      <3> QED BY <2>1, <3>3 DEF Holds
    <2>2. CASE todo'["network"] # <<>>
      <3>1. Len(todo'["network"]) # 0
        BY <1>3, <2>2
      <3>2. i # LoginLength /\ (LoginLength - (m - 1)) + 1 = i + 1
        BY <1>1, <1>3, <3>1
      <3>3. Head(todo'["network"]) = LoginSteps[i + 1]
        BY <1>3, <2>2, <3>2, LoginNext
      <3>4. LoginSteps[i + 1] \in Sends <=> LoginSteps[i] = "key"
        BY <1>4, <3>2, LoginAlternates
      <3> HIDE DEF i
      <3>5. Holds("network")' <=> Head(todo'["network"]) \in Sends
        BY <2>2 DEF Holds, Sends
      <3> QED BY <1>1, <3>3, <3>4, <3>5
    <2> QED BY <2>1, <2>2
  <1>6. /\ step = "insert" => i = 1
        /\ step = "region" => i = 2
        /\ step = "placement" => i = 3
        /\ step = "sendMap" => i = 5
        /\ step = "all" => i = 6
        /\ step = "sendInterface" => i > 6
    BY <1>1, <1>4, LoginAlternates
  <1> HIDE DEF m
  <1>7. /\ i = 1 => m = LoginLength
        /\ i = 2 => m = LoginLength - 1
        /\ i = 3 => m = LoginLength - 2
        /\ i = 5 => m = LoginLength - 4
        /\ i = 6 => m = LoginLength - 5
        /\ i > 6 => m < LoginLength - 5
    BY <1>1
  <1> HIDE DEF i
  <1>8. /\ step = "insert" => m = LoginLength
        /\ step = "region" => m = LoginLength - 1
        /\ step = "placement" => m = LoginLength - 2
        /\ step = "sendMap" => m = LoginLength - 4
        /\ step = "all" => m = LoginLength - 5
        /\ step = "sendInterface" => m < LoginLength - 5
    BY <1>6, <1>7
  <1> QED BY <1>2, <1>5, <1>8 DEF m

\* While the network thread runs Login, the main thread has nothing under way.
LEMMA NetworkAlone ==
  ASSUME TypeOK, InTheirSteps, OneAtATime, undivided, NEW step, Steps("network", step)
  PROVE  /\ todo["main"] = <<>> /\ todo'["main"] = <<>>
         /\ Left("main") = 0 /\ Left("main")' = 0
         /\ ~Holds("main") /\ ~Holds("main")'
  <1>1. todo["network"] # <<>>
    BY DEF Steps
  <1>2. todo["main"] = <<>> /\ todo'["main"] = <<>>
    BY <1>1, NetworkPlace DEF OneAtATime
  <1> QED BY <1>2 DEF Holds, Left

\* While the main thread updates the player, Login is over.
LEMMA MainAlone ==
  ASSUME TypeOK, InTheirSteps, OneAtATime, undivided, NEW step, Steps("main", step)
  PROVE  /\ todo["network"] = <<>> /\ todo'["network"] = <<>>
         /\ Left("network") = 0 /\ Left("network")' = 0
         /\ ~Holds("network") /\ ~Holds("network")'
         /\ Left("main") \in 1 .. 8 /\ Left("main")' = Left("main") - 1
         /\ Holds("main") <=> Left("main") \in 2 .. 7
         /\ Holds("main")' <=> Left("main") - 1 \in 2 .. 7
  <1>1. todo["main"] # <<>>
    BY DEF Steps
  <1>2. todo["network"] = <<>> /\ todo'["network"] = <<>>
    BY <1>1, MainPlace DEF OneAtATime
  <1>3. Left("main") \in 1 .. 8 /\ Left("main")' = Left("main") - 1
    <2>1. Left("main") \in 1 .. 12 /\ Left("main")' = Left("main") - 1
      BY MainPlace
    <2>2. Left("main") <= 8
      BY DEF OneAtATime
    <2> QED BY <2>1, <2>2
  <1>4. Holds("main") <=> Left("main") \in 2 .. 7
    BY <1>1 DEF Holds
  <1>5. Holds("main")' <=> Left("main") - 1 \in 2 .. 7
    <2>1. Left("main")' \in 2 .. 7 => todo'["main"] # <<>>
      BY DEF Left
    <2> QED BY <1>3, <2>1 DEF Holds
  <1> QED BY <1>2, <1>3, <1>4, <1>5 DEF Holds, Left

\* A tick that begins after an undivided RegisterPlayer finds Login over.
LEMMA ProcessAfterLogin ==
  ASSUME TypeOK, InTheirSteps, LoginProgress, undivided, Process
  PROVE  todo["network"] = <<>> /\ Left("network") = 0 /\ regionSet /\ map
  <1>1. todo["network"] \in {<<>>, LoginSteps} /\ registered
    BY DEF Process, MayRun
  <1>2. todo["network"] # LoginSteps
    BY <1>1, LoginStepsAre DEF LoginProgress, Left
  <1>3. todo["network"] = <<>> /\ Left("network") = 0
    BY <1>1, <1>2 DEF Left
  <1> QED BY <1>3, LoginStepsAre DEF LoginProgress

\* The threads stay apart, and Login makes progress.
LEMMA ApartStep ==
  TypeOK /\ InTheirSteps /\ OneAtATime /\ LoginProgress /\ [Next]_vars
    => OneAtATime' /\ LoginProgress'
  <1> SUFFICES ASSUME TypeOK, InTheirSteps, OneAtATime, LoginProgress, [Next]_vars
               PROVE  OneAtATime' /\ LoginProgress'
    OBVIOUS
  <1> USE DEF playerVars, keyVars, buildVars, clientVars
  <1>0. LoginLength \in Nat /\ LoginLength >= 8 /\ Left("network") \in 0 .. LoginLength
    BY LoginStepsAre, LeftType
  <1>1. ASSUME NEW step, Steps("network", step)
        PROVE  OneAtATime' /\ Left("network")' = Left("network") - 1
    <2>1. Left("network")' = Left("network") - 1 /\ undivided' = undivided
      BY <1>1, NetworkPlace
    <2> QED BY <1>1, <2>1, NetworkAlone DEF OneAtATime
  <1>2. ASSUME NEW step, Steps("main", step)
        PROVE  OneAtATime' /\ Left("network")' = Left("network")
    <2>1. Left("network")' = Left("network") /\ undivided' = undivided
      BY <1>2, MainPlace
    <2>2. undivided => todo'["network"] = <<>> /\ Left("main")' <= 8
      BY <1>2, MainAlone
    <2> QED BY <2>1, <2>2 DEF OneAtATime
  <1>3. ASSUME Left("network")' = Left("network"), UNCHANGED <<registered, map>>,
               regionSet => regionSet'
        PROVE  LoginProgress'
    BY <1>3 DEF LoginProgress
  <1>4. CASE SetRegion("main")
    BY <1>2, <1>3, <1>4 DEF SetRegion
  <1>5. CASE SetPlacement("main") \/ TakeKey("main") \/ ReadRequired \/ UpdateLocalPlayerMovement
             \/ NeedsUpdate \/ WriteMask \/ AppendAppearance \/ Reset
    BY <1>2, <1>3, <1>5 DEF SetPlacement, TakeKey, ReadRequired, UpdateLocalPlayerMovement,
       NeedsUpdate, WriteMask, AppendAppearance, Reset
  <1>6. CASE SendMapRegion("main")
    BY <1>2, <1>6 DEF SendMapRegion, Posts, LoginProgress
  <1>7. CASE SendUpdate
    BY <1>2, <1>3, <1>7 DEF SendUpdate, Posts
  <1>8. CASE Process
    <2>1. Left("network")' = Left("network") /\ todo'["network"] = todo["network"]
      BY <1>8, ProcessEffect
    <2>2. LoginProgress'
      BY <1>3, <1>8, <2>1 DEF Process
    <2>3. undivided => todo'["network"] = <<>> /\ Left("main")' = 8
      BY <1>8, <2>1, ProcessEffect, ProcessAfterLogin
    <2>4. undivided' = undivided
      BY <1>8 DEF Process
    <2> QED BY <2>2, <2>3, <2>4 DEF OneAtATime
  <1>9. CASE Insert
    <2>1. Left("network") = LoginLength
      BY <1>9, NetworkHolds DEF Insert
    <2>2. Left("network")' = LoginLength - 1 /\ OneAtATime'
      BY <1>1, <1>9, <2>1 DEF Insert
    <2>3. registered'
      BY <1>9 DEF Insert
    <2>4. LoginProgress'
      BY <1>0, <2>2, <2>3 DEF LoginProgress
    <2> QED BY <2>2, <2>4
  <1>10. ASSUME NEW step, Steps("network", step), step # "insert", UNCHANGED registered,
                regionSet => regionSet', map => map', step = "region" => regionSet',
                step = "sendMap" => map'
         PROVE  LoginProgress'
    <2>1. Left("network") \in 1 .. LoginLength /\ Left("network")' = Left("network") - 1
      BY <1>10, NetworkPlace
    <2> DEFINE m == Left("network")
    <2>2. LoginSteps[1] = "insert" /\ LoginSteps[2] = "region" /\ LoginSteps[5] = "sendMap"
      BY LoginStepsAre
    <2>3. step = LoginSteps[(LoginLength - m) + 1]
      BY <1>10, NetworkPlace
    <2> HIDE DEF m
    <2>4. m # LoginLength /\ (m = LoginLength - 1 => step = "region")
          /\ (m = LoginLength - 4 => step = "sendMap")
      BY <1>0, <1>10, <2>2, <2>3
    <2>5. m \in 1 .. LoginLength /\ Left("network")' = m - 1
      BY <2>1 DEF m
    <2>6. registered'
      BY <1>0, <1>10, <2>4, <2>5 DEF LoginProgress, m
    <2>7. m - 1 < LoginLength - 1 => regionSet'
      BY <1>0, <1>10, <2>4, <2>5 DEF LoginProgress, m
    <2>8. m - 1 < LoginLength - 4 => map'
      BY <1>0, <1>10, <2>4, <2>5 DEF LoginProgress, m
    <2> QED BY <1>0, <2>5, <2>6, <2>7, <2>8 DEF LoginProgress
  <1>11. CASE SetRegion("network")
    BY <1>1, <1>10, <1>11 DEF SetRegion
  <1>12. CASE SetPlacement("network") \/ TakeKey("network") \/ SetAll
    BY <1>1, <1>10, <1>12 DEF SetPlacement, TakeKey, SetAll
  <1>13. CASE SendMapRegion("network")
    BY <1>1, <1>10, <1>13 DEF SendMapRegion, Posts
  <1>14. CASE SendInterface
    BY <1>1, <1>10, <1>14 DEF SendInterface, Posts
  <1>15. CASE UNCHANGED vars
    BY <1>15 DEF vars, OneAtATime, LoginProgress, Left
  <1> QED
    BY <1>4, <1>5, <1>6, <1>7, <1>8, <1>9, <1>11, <1>12, <1>13, <1>14, <1>15
       DEF Next, Login, Tick

\* A key is taken when no other packet is under way: it is the one the client uses next.
LEMMA KeyTaken ==
  ASSUME TypeOK, KeysInOrder, undivided, undivided' = undivided,
         NEW t \in Threads, TakeKey(t),
         \A u \in Threads : ~Holds(u), \A u \in Threads : Holds(u)' <=> u = t
  PROVE  KeysInOrder'
  <1>1. NextKey = KeyAt(received) /\ received \in 0 .. Size * KeySets - 1
    BY DEF KeysInOrder, TypeOK
  <1>2. <<set', idx'>> = NextKey /\ held'[t] = NextKey /\ received' = received
    BY TakeKeyType DEF TakeKey, clientVars
  <1>3. NextKey' = After(<<set', idx'>>)
    BY DEF NextKey, After
  <1>4. NextKey' = KeyAt((received + 1) % (Size * KeySets))
    BY <1>1, <1>2, <1>3, KeySuccessor
  <1>5. KeyAt(received)' = KeyAt(received)
    BY <1>2 DEF KeyAt
  <1>6. \A u \in Threads : Holds(u)' => held'[u] = KeyAt(received')
    BY <1>1, <1>2
  <1>7. NextKey' = KeyAt((received' + 1) % (Size * KeySets))
    BY <1>2, <1>4
  <1> QED BY <1>6, <1>7 DEF KeysInOrder

\* A packet is posted by the thread that holds its key: the client reads it.
LEMMA KeyPosted ==
  ASSUME TypeOK, KeysInOrder, undivided, NEW t \in Threads, NEW wrong, Posts(t, wrong),
         Holds(t), \A u \in Threads : ~Holds(u)'
  PROVE  KeysInOrder' /\ faults' = faults \cup wrong
  <1>1. held[t] = KeyAt(received) /\ NextKey = KeyAt((received + 1) % (Size * KeySets))
    BY DEF KeysInOrder
  <1>2. NextKey' = NextKey /\ received' = (received + 1) % (Size * KeySets)
    BY DEF Posts, keyVars, NextKey
  <1>3. NextKey' = KeyAt(received')
    BY <1>1, <1>2
  <1>4. KeysInOrder'
    BY <1>3 DEF KeysInOrder
  <1>5. faults' = faults \cup wrong
    BY <1>1 DEF Posts
  <1> QED BY <1>4, <1>5

\* Nothing changes in the order of the keys when none is taken or used.
LEMMA KeyKept ==
  ASSUME KeysInOrder, undivided, UNCHANGED <<keyVars, received>>,
         \A u \in Threads : Holds(u)' <=> Holds(u)
  PROVE  KeysInOrder'
  <1>1. NextKey' = NextKey /\ held' = held /\ received' = received
    BY DEF keyVars, NextKey
  <1> QED BY <1>1 DEF KeysInOrder

\* With an undivided RegisterPlayer the keys are used in the order they are taken, all
\* reads of the flags for an update agree, and every packet is readable.
LEMMA UndividedStep ==
  Inv /\ [Next]_vars => KeysInOrder' /\ SameFlags' /\ PacketsReadable'
  <1> DEFINE Goal == KeysInOrder' /\ SameFlags' /\ PacketsReadable'
  <1>1. [Next]_vars => undivided' = undivided
    BY DEF Next, Login, Tick, vars, Steps, SetRegion, SetPlacement, TakeKey, SendMapRegion,
       Insert, SetAll, SendInterface, Process, ReadRequired, UpdateLocalPlayerMovement,
       NeedsUpdate, WriteMask, AppendAppearance, SendUpdate, Reset
  <1>2. ~undivided' => Goal
    BY DEF KeysInOrder, SameFlags, PacketsReadable
  <1> SUFFICES ASSUME Inv, [Next]_vars, undivided, undivided' = undivided PROVE Goal
    BY <1>1, <1>2
  <1> HIDE DEF Goal
  <1> USE DEF playerVars, keyVars, buildVars, clientVars
  <1>3. TypeOK /\ InTheirSteps /\ OneAtATime /\ LoginProgress /\ KeysInOrder
    BY DEF Inv
  <1>4. LoginLength \in Nat /\ LoginLength >= 8 /\ Threads = {"main", "network"}
    BY LoginStepsAre DEF Threads
  \* The network thread.
  <1>5. ASSUME NEW step, Steps("network", step)
        PROVE  SameFlags' /\ ~Holds("main") /\ ~Holds("main")'
    BY <1>3, <1>5, NetworkAlone DEF SameFlags
  <1>6. ASSUME NEW step, Steps("network", step), step \notin Sends \cup {"key"},
               UNCHANGED <<keyVars, received>>
        PROVE  KeysInOrder'
    BY <1>3, <1>4, <1>5, <1>6, NetworkHolds, KeyKept
  <1>7. ASSUME NEW step, Steps("network", step), step \in Sends, Posts("network", {})
        PROVE  KeysInOrder' /\ PacketsReadable'
    <2>1. step # "key"
      BY <1>7 DEF Sends
    <2>2. Holds("network") /\ ~Holds("network")'
      BY <1>3, <1>7, <2>1, NetworkHolds
    <2>3. KeysInOrder' /\ faults' = faults \cup {}
      BY <1>3, <1>4, <1>5, <1>7, <2>2, KeyPosted
    <2> QED BY <2>3 DEF Inv, PacketsReadable
  <1>8. CASE SetRegion("network") \/ Insert
    <2>1. PICK step \in {"region", "insert"} : Steps("network", step)
      BY <1>8 DEF SetRegion, Insert
    <2>2. step \notin Sends \cup {"key"} /\ step # "all"
      BY <2>1 DEF Sends
    <2>3. UNCHANGED <<flags, keyVars, clientVars>>
      BY <1>8 DEF SetRegion, Insert
    <2>4. PacketsReadable'
      BY <2>3 DEF Inv, PacketsReadable
    <2> QED BY <1>5, <1>6, <2>1, <2>2, <2>3, <2>4 DEF Goal
  <1>9. CASE SetPlacement("network")
    <2>1. "placement" \notin Sends \cup {"key"}
      BY DEF Sends
    <2>2. Steps("network", "placement") /\ UNCHANGED <<keyVars, clientVars>>
      BY <1>9 DEF SetPlacement
    <2>3. PacketsReadable'
      BY <2>2 DEF Inv, PacketsReadable
    <2> QED BY <1>5, <1>6, <2>1, <2>2, <2>3 DEF Goal
  <1>10. CASE SetAll
    <2>1. "all" \notin Sends \cup {"key"}
      BY DEF Sends
    <2>2. Steps("network", "all") /\ UNCHANGED <<keyVars, clientVars>> /\ flags' = Flags
      BY <1>10 DEF SetAll
    <2>3. PacketsReadable'
      BY <2>2 DEF Inv, PacketsReadable
    <2> QED BY <1>5, <1>6, <2>1, <2>2, <2>3 DEF Goal
  <1>11. CASE TakeKey("network")
    <2>1. Steps("network", "key") /\ UNCHANGED <<flags, clientVars>>
      BY <1>11 DEF TakeKey
    <2>2. "key" \notin Sends
      BY DEF Sends
    <2>3. ~Holds("network") /\ Holds("network")'
      BY <1>3, <2>1, <2>2, NetworkHolds
    <2>4. KeysInOrder'
      BY <1>3, <1>4, <1>5, <1>11, <2>1, <2>3, KeyTaken
    <2>5. PacketsReadable'
      BY <2>1 DEF Inv, PacketsReadable
    <2> QED BY <1>5, <2>1, <2>4, <2>5 DEF Goal
  <1>12. CASE SendMapRegion("network") \/ SendInterface
    <2>1. PICK step \in Sends : Steps("network", step)
      BY <1>12 DEF SendMapRegion, SendInterface, Sends
    <2>2. Posts("network", {}) /\ UNCHANGED <<flags, shown>> /\ step # "all"
      BY <1>12, <2>1 DEF SendMapRegion, SendInterface, Posts, Sends
    <2> QED BY <1>5, <1>7, <2>1, <2>2 DEF Goal
  \* The main thread.
  <1>13. ASSUME NEW step, Steps("main", step)
         PROVE  /\ Left("main") \in 1 .. 8 /\ Left("main")' = Left("main") - 1
                /\ Left("network") = 0 /\ Left("network")' = 0
                /\ ~Holds("network") /\ ~Holds("network")'
                /\ Holds("main") <=> Left("main") \in 2 .. 7
                /\ Holds("main")' <=> Left("main") - 1 \in 2 .. 7
    BY <1>3, <1>13, MainAlone
  <1>14. ASSUME NEW step, Steps("main", step), UNCHANGED <<keyVars, received>>,
                Left("main") \in {1, 3, 4, 5, 6, 7}
         PROVE  KeysInOrder'
    <2>1. Holds("main")' <=> Holds("main")
      BY <1>13, <1>14
    <2> QED BY <1>3, <1>4, <1>13, <1>14, <2>1, KeyKept
  <1>15. ASSUME UNCHANGED faults PROVE PacketsReadable'
    BY <1>15 DEF Inv, PacketsReadable
  <1>16. CASE SetRegion("main") \/ SetPlacement("main") \/ SendMapRegion("main")
    <2>1. PICK step \in {"region", "placement", "sendMap"} : Steps("main", step)
      BY <1>16 DEF SetRegion, SetPlacement, SendMapRegion
    <2>2. Left("main") \in {9, 11, 12}
      BY <1>3, <2>1, MainPlace
    <2> QED BY <1>13, <2>1, <2>2
  <1>17. CASE TakeKey("main")
    <2>1. Steps("main", "key") /\ UNCHANGED <<flags, clientVars>>
      BY <1>17 DEF TakeKey
    <2>2. Left("main") = 8 /\ Left("main")' = 7
      BY <1>3, <1>13, <2>1, MainPlace
    <2>3. ~Holds("main") /\ Holds("main")'
      BY <1>13, <2>1, <2>2
    <2>4. KeysInOrder'
      BY <1>3, <1>4, <1>13, <1>17, <2>1, <2>3, KeyTaken
    <2>5. SameFlags'
      BY <2>2 DEF SameFlags
    <2> QED BY <1>15, <2>1, <2>4, <2>5 DEF Goal
  <1>18. CASE ReadRequired
    <2>1. Steps("main", "required") /\ UNCHANGED <<flags, keyVars, clientVars>>
      BY <1>18 DEF ReadRequired
    <2>2. Left("main") = 7 /\ Left("main")' = 6
      BY <1>3, <1>13, <2>1, MainPlace
    <2>3. required' <=> flags' # {}
      BY <1>18, <2>1 DEF ReadRequired
    <2>4. SameFlags'
      BY <2>2, <2>3 DEF SameFlags
    <2> QED BY <1>14, <1>15, <2>1, <2>2, <2>4 DEF Goal
  <1>19. CASE UpdateLocalPlayerMovement
    <2>1. /\ Steps("main", "movement") /\ UNCHANGED <<flags, keyVars, clientVars>>
          /\ required' = required
      BY <1>19 DEF UpdateLocalPlayerMovement
    <2>2. Left("main") = 6 /\ Left("main")' = 5
      BY <1>3, <1>13, <2>1, MainPlace
    <2>3. required <=> flags # {}
      BY <2>2 DEF Inv, SameFlags
    <2>4. movement'.update <=> flags # {}
      BY <1>19, <2>3 DEF UpdateLocalPlayerMovement
    <2>5. SameFlags'
      BY <2>1, <2>2, <2>3, <2>4 DEF SameFlags
    <2> QED BY <1>14, <1>15, <2>1, <2>2, <2>5 DEF Goal
  <1>20. CASE NeedsUpdate
    <2>1. /\ Steps("main", "state") /\ UNCHANGED <<flags, keyVars, clientVars>>
          /\ required' = required /\ movement' = movement
      BY <1>20 DEF NeedsUpdate
    <2>2. Left("main") = 5 /\ Left("main")' = 4
      BY <1>3, <1>13, <2>1, MainPlace
    <2>3. (required <=> flags # {}) /\ (movement.update <=> flags # {})
      BY <2>2 DEF Inv, SameFlags
    <2>4. block'.written <=> flags # {}
      BY <1>20 DEF NeedsUpdate, NoBlock
    <2>5. SameFlags'
      BY <2>1, <2>2, <2>3, <2>4 DEF SameFlags
    <2> QED BY <1>14, <1>15, <2>1, <2>2, <2>5 DEF Goal
  <1>21. CASE WriteMask
    <2>1. /\ Steps("main", "mask") /\ UNCHANGED <<flags, keyVars, clientVars>>
          /\ required' = required /\ movement' = movement
      BY <1>21 DEF WriteMask
    <2>2. Left("main") = 4 /\ Left("main")' = 3
      BY <1>3, <1>13, <2>1, MainPlace
    <2>3. /\ required <=> flags # {}
          /\ movement.update <=> flags # {}
          /\ block.written <=> flags # {}
      BY <2>2 DEF Inv, SameFlags
    <2>4. /\ block'.written <=> flags # {}
          /\ block'.masked <=> "Appearance" \in flags
      BY <1>3, <1>21, <2>3 DEF WriteMask, TypeOK, Blocks
    <2>5. SameFlags'
      BY <2>1, <2>2, <2>3, <2>4 DEF SameFlags
    <2> QED BY <1>14, <1>15, <2>1, <2>2, <2>5 DEF Goal
  <1>22. CASE AppendAppearance
    <2>1. /\ Steps("main", "appearance") /\ UNCHANGED <<flags, keyVars, clientVars>>
          /\ required' = required /\ movement' = movement
      BY <1>22 DEF AppendAppearance
    <2>2. Left("main") = 3 /\ Left("main")' = 2
      BY <1>3, <1>13, <2>1, MainPlace
    <2>3. /\ required <=> flags # {}
          /\ movement.update <=> flags # {}
          /\ block.written <=> flags # {}
          /\ block.masked <=> "Appearance" \in flags
      BY <2>2 DEF Inv, SameFlags
    <2>4. /\ block'.written <=> flags # {}
          /\ block'.masked <=> "Appearance" \in flags
          /\ block'.appended <=> "Appearance" \in flags
      BY <1>3, <1>22, <2>3 DEF AppendAppearance, TypeOK, Blocks
    <2>5. SameFlags'
      BY <2>1, <2>2, <2>3, <2>4 DEF SameFlags
    <2> QED BY <1>14, <1>15, <2>1, <2>2, <2>5 DEF Goal
  <1>23. CASE SendUpdate
    <2>1. Steps("main", "sendUpdate") /\ UNCHANGED <<flags, keyVars, buildVars>>
      BY <1>23 DEF SendUpdate, Posts
    <2>2. Left("main") = 2 /\ Left("main")' = 1 /\ Left("network") = 0
      BY <1>3, <1>13, <2>1, MainPlace
    <2>3. /\ required <=> flags # {}
          /\ movement.update <=> flags # {}
          /\ block.written <=> flags # {}
          /\ block.masked <=> "Appearance" \in flags
          /\ block.appended <=> "Appearance" \in flags
      BY <2>2 DEF Inv, SameFlags
    <2>4. map
      BY <1>4, <2>2 DEF Inv, LoginProgress
    <2> DEFINE wrong == {f \in Faults :
          \/ f = "missing" /\ movement.update /\ ~block.written
          \/ f = "missing" /\ block.masked /\ ~block.appended
          \/ f = "unannounced" /\ ~movement.update /\ block.written
          \/ f = "unmasked" /\ ~block.masked /\ block.appended
          \/ f = "placement" /\ movement.placed /\ ~map}
    <2>5. Posts("main", wrong)
      BY <1>23 DEF SendUpdate
    <2>6. wrong = {}
      BY <2>3, <2>4
    <2>7. Holds("main") /\ ~Holds("main")'
      BY <1>13, <2>1, <2>2
    <2> HIDE DEF wrong
    <2>8. KeysInOrder' /\ faults' = faults \cup wrong
      BY <1>3, <1>4, <1>13, <2>1, <2>5, <2>7, KeyPosted
    <2>9. PacketsReadable'
      BY <2>6, <2>8 DEF Inv, PacketsReadable
    <2>10. shown' <=> shown \/ (block.masked /\ block.appended)
      BY <1>23 DEF SendUpdate
    <2>11. SameFlags'
      BY <2>1, <2>2, <2>3, <2>10 DEF SameFlags
    <2> QED BY <2>8, <2>9, <2>11 DEF Goal
  <1>24. CASE Reset
    <2>1. Steps("main", "reset") /\ UNCHANGED <<keyVars, clientVars>>
      BY <1>24 DEF Reset
    <2>2. Left("main") = 1 /\ Left("main")' = 0 /\ Left("network") = 0
      BY <1>3, <1>13, <2>1, MainPlace
    <2>3. SameFlags'
      BY <2>2 DEF SameFlags
    <2> QED BY <1>14, <1>15, <2>1, <2>2, <2>3 DEF Goal
  <1>25. CASE Process
    <2>1. /\ Left("main") = 0 /\ Left("main")' = 8 /\ todo'["network"] = todo["network"]
          /\ Left("network")' = Left("network") /\ todo["network"] = <<>>
      BY <1>3, <1>25, ProcessEffect, ProcessAfterLogin
    <2>2. UNCHANGED <<flags, keyVars, clientVars>>
      BY <1>25 DEF Process
    <2>3. ~Holds("main") /\ ~Holds("main")' /\ ~Holds("network") /\ ~Holds("network")'
      BY <2>1 DEF Holds
    <2>4. KeysInOrder'
      BY <1>3, <1>4, <2>2, <2>3, KeyKept
    <2>5. SameFlags'
      BY <2>1, <2>2 DEF Inv, SameFlags
    <2> QED BY <1>15, <2>2, <2>4, <2>5 DEF Goal
  <1>26. CASE UNCHANGED vars
    <2>1. UNCHANGED <<flags, keyVars, buildVars, clientVars, todo>>
      BY <1>26 DEF vars
    <2>2. \A t \in Threads : Holds(t)' <=> Holds(t)
      BY <2>1 DEF Holds, Left
    <2>3. KeysInOrder'
      BY <1>3, <2>1, <2>2, KeyKept
    <2>4. SameFlags'
      BY <2>1 DEF Inv, SameFlags, Left
    <2> QED BY <1>15, <2>1, <2>3, <2>4 DEF Goal
  <1> QED
    BY <1>8, <1>9, <1>10, <1>11, <1>12, <1>16, <1>17, <1>18, <1>19, <1>20, <1>21, <1>22,
       <1>23, <1>24, <1>25, <1>26 DEF Next, Login, Tick

\* The invariant holds before the player is registered.
LEMMA InvInit == Init => Inv
  <1> SUFFICES ASSUME Init PROVE Inv
    OBVIOUS
  <1>1. LoginSteps \in Seq(StepNames) /\ Len(LoginSteps) = LoginLength /\ LoginLength \in Nat
        /\ LoginLength >= 8
    BY LoginStepsAre
  <1>2. todo \in [Threads -> Seq(StepNames)] /\ todo["network"] = LoginSteps /\ todo["main"] = <<>>
    BY <1>1 DEF Init, Threads
  <1>3. Left("network") = LoginLength /\ Left("main") = 0
    BY <1>1, <1>2 DEF Left
  <1>4. TypeOK
    <2>1. registered \in BOOLEAN /\ regionSet \in BOOLEAN /\ required \in BOOLEAN
          /\ map \in BOOLEAN /\ shown \in BOOLEAN /\ undivided \in BOOLEAN
          /\ late \in BOOLEAN
      BY DEF Init
    <2>2. movement \in Movements /\ block \in Blocks
      BY DEF Init, Movements, Blocks, NoBlock
    <2>3. set \in 0 .. KeySets - 1 /\ idx \in 0 .. Size /\ received \in 0 .. Size * KeySets - 1
      BY KeysAssumption DEF Init
    <2>4. held \in [Threads -> Keys]
      <3>1. <<0, 0>> \in Keys
        BY KeysAssumption DEF Keys
      <3> QED BY <3>1 DEF Init
    <2>5. flags \subseteq Flags /\ faults \subseteq Faults
      BY DEF Init
    <2> QED BY <1>2, <2>1, <2>2, <2>3, <2>4, <2>5 DEF TypeOK
  <1>5. InTheirSteps
    <2>1. SuffixOf(LoginSteps, LoginSteps)
      BY <1>1 DEF SuffixOf
    <2>2. SuffixOf(<<>>, TickSteps)
      BY TickStepsAre DEF SuffixOf
    <2> QED BY <1>2, <2>1, <2>2 DEF InTheirSteps
  <1>6. AnnouncedKept /\ AttributesFollow /\ SameFlags /\ PacketsReadable
    BY <1>3 DEF Init, AnnouncedKept, AttributesFollow, SameFlags, PacketsReadable
  <1>7. OneAtATime /\ LoginProgress /\ AskedUntilShown
    BY <1>1, <1>2, <1>3 DEF Init, OneAtATime, LoginProgress, AskedUntilShown
  <1>8. KeysInOrder
    <2>1. ~Holds("main")
      BY <1>2 DEF Holds
    <2>2. ~Holds("network")
      <3>1. Head(LoginSteps) = LoginSteps[1]
        BY <1>1
      <3>2. Head(LoginSteps) = "insert"
        BY <3>1, LoginStepsAre
      <3> QED BY <1>2, <3>2 DEF Holds
    <2>3. KeyAt(0) = <<0, Size - 1>>
      <3>1. 0 \div Size = 0 /\ 0 % Size = 0
        BY KeysAssumption
      <3> QED BY <3>1, KeysAssumption DEF KeyAt
    <2>4. NextKey = <<0, Size - 1>> /\ received = 0
      BY KeysAssumption DEF Init, NextKey
    <2> QED BY <2>1, <2>2, <2>3, <2>4 DEF KeysInOrder, Threads
  <1> QED BY <1>4, <1>5, <1>6, <1>7, <1>8 DEF Inv

\* The invariant is inductive.
THEOREM Invariance == Spec => []Inv
  <1>1. Inv /\ [Next]_vars => Inv'
    BY TypeStep, AnnouncedStep, AskedStep, ApartStep, UndividedStep DEF Inv
  <1> QED BY <1>1, InvInit, PTL DEF Spec

\* The types are kept, whatever step of a tick falls between which steps of Login: every
\* key taken is one of a key set (ISAACCipher::GetNextKey).
THEOREM TypeCorrect == Spec => []TypeOK
  <1>1. Inv => TypeOK
    BY DEF Inv
  <1> QED BY <1>1, Invariance, PTL

\* However World::RegisterPlayer and World::Process interleave, attributes announced in
\* one part of an update follow in the next (PlayerUpdating::UpdatePlayer, UpdateState).
THEOREM AttributesAlwaysFollow == Spec => []AttributesFollow
  <1>1. Inv => AttributesFollow
    BY DEF Inv
  <1> QED BY <1>1, Invariance, PTL

\* For any number of packets of Login and any size of a key set: if RegisterPlayer is not
\* divided, every packet has the key the client reads it with, announces exactly what is
\* in it, and places the player only in a map region sent before.
THEOREM PacketsAlwaysReadable == Spec => []PacketsReadable
  <1>1. Inv => PacketsReadable
    BY DEF Inv
  <1> QED BY <1>1, Invariance, PTL

\* However World::RegisterPlayer and World::Process interleave, Player::Reset clears the
\* flags of Player::Login only after an update has sent the player's appearance, unless
\* Login set them after that update's last read of them that counted.
THEOREM LoginsAnnounced == Spec => []LoginAnnounced
  <1>1. Inv => LoginAnnounced
    <2> SUFFICES ASSUME Inv, Len(todo["network"]) <= 2 * Interfaces, flags = {}
                 PROVE  shown \/ late
      BY DEF LoginAnnounced
    <2>1. Left("network") < LoginLength - 5
      <3>1. Len(todo["network"]) \in Nat
        BY LeftType DEF Inv, Left
      <3> QED BY <3>1, InterfacesAssumption DEF Left, LoginLength
    <2>2. flags # Flags
      BY DEF Flags
    <2> QED BY <2>1, <2>2 DEF Inv, AskedUntilShown
  <1> QED BY <1>1, Invariance, PTL
=============================================================================
