----------------------------- MODULE ViewProofs -----------------------------
(***************************************************************************)
(* Proofs about View, for any number of players, slots and list entries,   *)
(* any map, any turns and any rehash.                                      *)
(***************************************************************************)
EXTENDS View, InductionProofs, FiniteSetTheorems

----------------------------------------------------------------------------
(* The inductive invariant *)

\* A player that has not been registered is nowhere, and a name that logs in again is
\* another player: what a registered player is told of starts empty.
Untouched ==
  \A p \in Players : index[p] = -1 =>
    /\ p \notin world /\ p \notin batch
    /\ local[p] = <<>> /\ view[p] = <<>> /\ lost[p] = "no"

\* The players in the world have slots of their own, so there are finitely many.
SlotsApart == \A p, q \in world : index[p] = index[q] => p = q

\* Only registered players are listed: the slot of an entry does not change any more.
Listed == \A p \in Players : \A i \in 1 .. Len(local[p]) : index[local[p][i]] # -1

\* Only players of the running tick have directions the updates tell of.
Still == \A p \in Players : p \notin batch => steps[p] = NoTurn

\* Between two ticks there is no list of players.
NoBatch == phase = "process" => batch = {}

\* A tick that has a player whose Login is running has processed it too early, and one
\* that comes to a player twice has moved it twice.
Exceptions == entering \cap batch \subseteq early /\ again \subseteq slipped

\* What the client of p has still to be told of the way of q.
Untold(p, q) == IF p \in todo THEN Told(steps[q]) ELSE Stand

\* A client that has its place in the stream has the server's list.
Matched(p) ==
  /\ lost[p] # "size"
  /\ lost[p] = "no" =>
       /\ Len(view[p]) = Len(local[p])
       /\ \A i \in 1 .. Len(local[p]) : view[p][i].slot = index[local[p][i]]

\* Each entry is behind its player by what is untold.
PlacedWith(p) ==
  lost[p] = "no" =>
    \A i \in 1 .. Len(local[p]) :
      local[p][i] \notin slipped =>
        Plus(view[p][i].pos, Untold(p, local[p][i])) = pos[local[p][i]]

\* So is the client's own player, unless it will be told by a placement.
OwnKnown(p) ==
  \/ lost[p] # "no"
  \/ Plus(own[p], Untold(p, p)) = pos[p]
  \/ p \notin batch \ todo /\ (p \in entering \/ "NeedsPlacement" \in flags[p])

ViewMatches == \A p \in Players : Matched(p)
ViewTracks == \A p \in world \ Astray : PlacedWith(p) /\ OwnKnown(p)

\* An update that has been made has shown its player's appearance, or was lost.
AppearanceShown ==
  \A p \in ((batch \ todo) \cap world) \ early : p \in shown \/ lost[p] # "no"

Inv ==
  /\ TypeOK /\ ListsProper /\ Untouched /\ SlotsApart /\ Listed /\ Still /\ NoBatch
  /\ Exceptions /\ ViewMatches /\ ViewTracks /\ ViewComplete /\ OwnAppearanceSent
  /\ AppearanceShown

----------------------------------------------------------------------------
(* The loop over a local list *)

\* f gives the places in I of the first entries of a list of n.
PlacesBy(f, n, I) ==
  f = [k \in 0 .. n |-> IF k = 0 THEN <<>>
                        ELSE IF k \in I THEN Append(f[k - 1], k)
                        ELSE f[k - 1]]

\* t has every number in I up to n, once.
Selects(t, n, I) ==
  /\ t \in Seq(1 .. n) /\ Len(t) <= n
  /\ \A k \in 1 .. Len(t) : t[k] \in I
  /\ \A j, k \in 1 .. Len(t) : t[j] = t[k] => j = k
  /\ \A i \in 1 .. n : i \in I => \E k \in 1 .. Len(t) : t[k] = i

\* The function in the definition of Places exists.
LEMMA PlacesExist == ASSUME NEW n \in Nat, NEW I PROVE \E f : PlacesBy(f, n, I)
  <1> DEFINE S == {m \in Nat : \E f : PlacesBy(f, m, I)}
  <1>1. 0 \in S
    <2>1. PlacesBy([k \in 0 .. 0 |-> <<>>], 0, I)
      BY DEF PlacesBy
    <2> QED BY <2>1
  <1>2. ASSUME NEW m \in S PROVE m + 1 \in S
    <2>1. PICK f : PlacesBy(f, m, I)
      OBVIOUS
    <2> DEFINE v == IF m + 1 \in I THEN Append(f[m], m + 1) ELSE f[m]
               g == [k \in 0 .. m + 1 |-> IF k = m + 1 THEN v ELSE f[k]]
    <2>2. PlacesBy(g, m + 1, I)
      <3> SUFFICES ASSUME NEW k \in 0 .. m + 1
                   PROVE  g[k] = IF k = 0 THEN <<>>
                                 ELSE IF k \in I THEN Append(g[k - 1], k)
                                 ELSE g[k - 1]
        BY DEF PlacesBy
      <3>1. CASE k = m + 1
        <4>1. g[k] = v /\ k # 0 /\ g[k - 1] = f[m]
          BY <3>1
        <4> QED BY <3>1, <4>1
      <3>2. CASE k # m + 1
        <4>1. k \in 0 .. m /\ g[k] = f[k] /\ (k # 0 => g[k - 1] = f[k - 1])
          BY <3>2
        <4> QED BY <2>1, <4>1 DEF PlacesBy
      <3> QED BY <3>1, <3>2
    <2> QED BY <2>2
  <1>3. Nat \subseteq S
    <2> HIDE DEF S
    <2> QED BY <1>1, <1>2, InductionOverNat
  <1> QED BY <1>3

\* One more entry: it is appended if it stays.
LEMMA SelectsNext ==
  ASSUME NEW m \in Nat, NEW I, NEW t, Selects(t, m, I)
  PROVE  /\ m + 1 \in I => Selects(Append(t, m + 1), m + 1, I)
         /\ m + 1 \notin I => Selects(t, m + 1, I)
  <1>1. t \in Seq(1 .. m) /\ Len(t) <= m /\ Len(t) \in Nat
    BY DEF Selects
  <1>2. t \in Seq(1 .. m + 1) /\ \A k \in 1 .. Len(t) : t[k] \in 1 .. m
    BY <1>1
  <1>3. ASSUME m + 1 \notin I PROVE Selects(t, m + 1, I)
    BY <1>1, <1>2, <1>3 DEF Selects
  <1>4. ASSUME m + 1 \in I PROVE Selects(Append(t, m + 1), m + 1, I)
    <2> DEFINE u == Append(t, m + 1)
    <2>1. /\ u \in Seq(1 .. m + 1) /\ Len(u) = Len(t) + 1
          /\ \A k \in 1 .. Len(t) : u[k] = t[k]
          /\ u[Len(t) + 1] = m + 1
      BY <1>1, <1>2
    <2> HIDE DEF u
    <2>0. /\ \A k \in 1 .. Len(u) : k \in 1 .. Len(t) \/ k = Len(t) + 1
          /\ Len(t) + 1 \notin 1 .. Len(t)
      BY <1>1, <2>1
    <2>2. \A k \in 1 .. Len(u) : u[k] \in I
      <3>1. \A k \in 1 .. Len(t) : t[k] \in I
        BY DEF Selects
      <3> QED BY ONLY <1>4, <2>0, <2>1, <3>1
    <2>3. \A j, k \in 1 .. Len(u) : u[j] = u[k] => j = k
      <3> TAKE j, k \in 1 .. Len(u)
      <3>1. CASE j \in 1 .. Len(t) /\ k \in 1 .. Len(t)
        BY <2>1, <3>1 DEF Selects
      <3>2. CASE j = Len(t) + 1 /\ k = Len(t) + 1
        BY <3>2
      <3>3. ASSUME NEW l \in 1 .. Len(t) PROVE u[l] # u[Len(t) + 1]
        <4>1. u[l] \in 1 .. m /\ u[Len(t) + 1] = m + 1
          BY ONLY <1>2, <2>1, <3>3
        <4> QED BY <4>1
      <3> QED BY ONLY <2>0, <3>1, <3>2, <3>3, j \in 1 .. Len(u), k \in 1 .. Len(u)
    <2>4. ASSUME NEW i \in 1 .. m + 1, i \in I PROVE \E k \in 1 .. Len(u) : u[k] = i
      <3>1. CASE i = m + 1
        BY <1>1, <2>1, <3>1
      <3>2. CASE i \in 1 .. m
        <4>1. PICK k \in 1 .. Len(t) : t[k] = i
          BY <2>4, <3>2 DEF Selects
        <4> QED BY <1>1, <2>1, <4>1, SMTT(30)
      <3> QED BY <3>1, <3>2
    <2>5. Selects(u, m + 1, I)
      BY <1>1, <2>1, <2>2, <2>3, <2>4 DEF Selects
    <2> QED BY <2>5 DEF u
  <1> QED BY <1>3, <1>4

\* Places gives what stays of a list, each entry once and nothing else.
LEMMA PlacesSelect == ASSUME NEW n \in Nat, NEW I PROVE Selects(Places(n, I), n, I)
  <1> DEFINE f == CHOOSE f : PlacesBy(f, n, I)
  <1>1. PlacesBy(f, n, I)
    BY PlacesExist
  <1>2. Places(n, I) = f[n]
    BY DEF Places, PlacesBy
  <1> HIDE DEF f
  <1> DEFINE S == {m \in Nat : m <= n => Selects(f[m], m, I)}
  <1>3. 0 \in S
    <2>1. f[0] = <<>>
      BY <1>1 DEF PlacesBy
    <2>2. Selects(<<>>, 0, I)
      BY DEF Selects
    <2> QED BY <2>1, <2>2
  <1>4. ASSUME NEW m \in Nat, m \in S PROVE m + 1 \in S
    <2> SUFFICES ASSUME m + 1 <= n PROVE Selects(f[m + 1], m + 1, I)
      OBVIOUS
    <2>1. Selects(f[m], m, I)
      BY <1>4
    <2>2. m + 1 \in 0 .. n /\ m + 1 # 0 /\ (m + 1) - 1 = m
      OBVIOUS
    <2>3. f[m + 1] = IF m + 1 \in I THEN Append(f[m], m + 1) ELSE f[m]
      BY <1>1, <2>2 DEF PlacesBy
    <2> QED BY <2>1, <2>3, SelectsNext
  <1>5. Nat \subseteq S
    <2> HIDE DEF S
    <2> QED BY <1>3, <1>4, InductionOverNat
  <1> QED BY <1>2, <1>5

\* The places of a local list whose players stay.
KeptPlaces(p) == Places(Len(local[p]), {i \in 1 .. Len(local[p]) : Keeps(p, local[p][i])})

\* No player is in the list twice.
Once(list) == \A i, j \in 1 .. Len(list) : list[i] = list[j] => i = j

\* Whether q is in the list.
Has(list, q) == \E i \in 1 .. Len(list) : list[i] = q

\* The range of a list.
LEMMA RangeIs ==
  ASSUME NEW S, NEW list \in Seq(S), NEW q
  PROVE  q \in Range(list) <=> Has(list, q)
  BY DEF Range, Has

\* The loop over a local list keeps the players that stay, in their order, and no other.
LEMMA KeptIs ==
  ASSUME local \in [Players -> Seq(Players)], NEW p \in Players
  PROVE  /\ Kept(p) \in Seq(Players)
         /\ Len(Kept(p)) = Len(KeptPlaces(p)) /\ Len(Kept(p)) <= Len(local[p])
         /\ \A k \in 1 .. Len(Kept(p)) :
              /\ KeptPlaces(p)[k] \in 1 .. Len(local[p])
              /\ Kept(p)[k] = local[p][KeptPlaces(p)[k]]
              /\ Keeps(p, Kept(p)[k])
         /\ Once(local[p]) => Once(Kept(p))
         /\ \A i \in 1 .. Len(local[p]) : Keeps(p, local[p][i]) => Has(Kept(p), local[p][i])
  <1> DEFINE n == Len(local[p])
             I == {i \in 1 .. n : Keeps(p, local[p][i])}
             t == KeptPlaces(p)
             kept == [k \in 1 .. Len(t) |-> local[p][t[k]]]
  <1>1. local[p] \in Seq(Players) /\ n \in Nat /\ \A i \in 1 .. n : local[p][i] \in Players
    OBVIOUS
  <1>2. Selects(t, n, I)
    BY <1>1, PlacesSelect DEF KeptPlaces
  <1>3. Kept(p) = kept
    BY DEF Kept, KeptPlaces
  <1> HIDE DEF t
  <1>4. Len(t) \in Nat /\ Len(t) <= n /\ \A k \in 1 .. Len(t) : t[k] \in 1 .. n /\ t[k] \in I
    BY <1>2 DEF Selects
  <1>5. kept \in Seq(Players) /\ Len(kept) = Len(t)
    BY <1>1, <1>4
  <1>6. \A k \in 1 .. Len(t) :
          t[k] \in 1 .. n /\ kept[k] = local[p][t[k]] /\ Keeps(p, kept[k])
    BY <1>4
  <1>7. ASSUME Once(local[p]) PROVE Once(kept)
    <2> SUFFICES ASSUME NEW j \in 1 .. Len(t), NEW k \in 1 .. Len(t), kept[j] = kept[k]
                 PROVE  j = k
      BY <1>5 DEF Once
    <2>1. t[j] = t[k]
      BY <1>6, <1>7 DEF Once
    <2> QED BY <1>2, <2>1 DEF Selects
  <1>8. ASSUME NEW i \in 1 .. n, Keeps(p, local[p][i]) PROVE Has(kept, local[p][i])
    <2>1. PICK k \in 1 .. Len(t) : t[k] = i
      BY <1>2, <1>8 DEF Selects
    <2> QED BY <1>5, <1>6, <2>1 DEF Has
  <1> HIDE DEF kept
  <1> QED BY <1>3, <1>4, <1>5, <1>6, <1>7, <1>8 DEF t

\* The client erases the same entries and moves the others by what their players tell.
LEMMA EntriesAfterIs ==
  ASSUME local \in [Players -> Seq(Players)], NEW p \in Players, NEW entries
  PROVE  EntriesAfter(entries, Movements(p)) =
           [k \in 1 .. Len(Kept(p)) |->
              [entries[KeptPlaces(p)[k]] EXCEPT !.pos = Plus(@, Told(steps[Kept(p)[k]]))]]
  <1> DEFINE n == Len(local[p])
             M == Movements(p)
  <1>1. local[p] \in Seq(Players) /\ n \in Nat
    OBVIOUS
  <1>2. Len(M) = n
    BY <1>1 DEF Movements
  <1>3. \A i \in 1 .. n : ~M[i].remove <=> Keeps(p, local[p][i])
    BY DEF Movements
  <1>4. \A i \in 1 .. n : Keeps(p, local[p][i]) => M[i].by = Told(steps[local[p][i]])
    BY DEF Movements
  <1> HIDE DEF M
  <1>5. Places(Len(M), {i \in 1 .. Len(M) : ~M[i].remove}) = KeptPlaces(p)
    <2>1. {i \in 1 .. n : ~M[i].remove} = {i \in 1 .. n : Keeps(p, local[p][i])}
      BY <1>3
    <2> QED BY <1>2, <2>1 DEF KeptPlaces
  <1>6. EntriesAfter(entries, M) =
          [k \in 1 .. Len(KeptPlaces(p)) |->
             [entries[KeptPlaces(p)[k]] EXCEPT !.pos = Plus(@, M[KeptPlaces(p)[k]].by)]]
    BY <1>5 DEF EntriesAfter
  <1>7. /\ Len(Kept(p)) = Len(KeptPlaces(p))
        /\ \A k \in 1 .. Len(Kept(p)) : M[KeptPlaces(p)[k]].by = Told(steps[Kept(p)[k]])
    BY <1>4, KeptIs
  <1> QED BY <1>6, <1>7 DEF M

----------------------------------------------------------------------------
(* The players added to a list *)

\* The players in the world are finitely many: each has a slot of its own.
LEMMA WorldFinite ==
  ASSUME TypeOK, SlotsApart, Untouched
  PROVE  IsFiniteSet(world)
  <1> DEFINE f == [q \in world |-> index[q]]
  <1>1. f \in [world -> Slots]
    BY DEF TypeOK, Untouched
  <1>2. f \in Injection(world, Slots)
    BY <1>1 DEF SlotsApart, Injection, IsInjective
  <1>3. IsFiniteSet(Slots)
    <2>1. 0 \in Int /\ MaxPlayers - 1 \in Int
      BY PlayersAssumption
    <2> QED BY <2>1, FS_Interval DEF Slots
  <1> QED BY <1>2, <1>3, FS_Injection

\* The smaller of two numbers.
LEMMA MinOfTwo ==
  ASSUME NEW a \in Int, NEW b \in Int
  PROVE  Min({a, b}) = IF a <= b THEN a ELSE b
  <1> DEFINE m == IF a <= b THEN a ELSE b
  <1>1. m \in {a, b} /\ \A y \in {a, b} : m <= y
    OBVIOUS
  <1>2. \A x \in {a, b} : (\A y \in {a, b} : x <= y) => x = m
    OBVIOUS
  <1>3. Min({a, b}) \in {a, b} /\ \A y \in {a, b} : Min({a, b}) <= y
    <2> HIDE DEF m
    <2> QED BY <1>1, Zenon DEF Min
  <1> QED BY <1>2, <1>3

\* A list of all members of a finite set in some order.
LEMMA OrderedSet ==
  ASSUME NEW S, IsFiniteSet(S), NEW found \in SetToSeqs(S)
  PROVE  /\ found \in Seq(S) /\ Once(found)
         /\ \A q \in S : Has(found, q)
  <1> DEFINE n == Cardinality(S)
  <1>1. n \in Nat
    BY FS_CardinalityType
  <1>2. found \in [1 .. n -> S] /\ \A i, j \in 1 .. n : found[i] = found[j] => i = j
    BY DEF SetToSeqs
  <1>3. found \in Seq(S) /\ Len(found) = n
    BY <1>1, <1>2
  <1>4. found \in Injection(1 .. n, S)
    BY <1>2 DEF Injection, IsInjective
  <1>5. Cardinality(1 .. n) = n
    <2>1. 1 \in Int /\ n \in Int
      BY <1>1
    <2>2. Cardinality(1 .. n) = IF 1 > n THEN 0 ELSE n - 1 + 1
      BY <2>1, FS_Interval
    <2> QED BY <1>1, <2>2
  <1>6. found \in Surjection(1 .. n, S)
    BY <1>4, <1>5, FS_Injection
  <1>7. \A q \in S : \E i \in 1 .. n : found[i] = q
    BY <1>6 DEF Surjection
  <1> QED BY <1>2, <1>3, <1>7 DEF Once, Has

\* The additions of an update: players the loop has come to, each once, all of them
\* unless the list is full then.
LEMMA AddedIs ==
  ASSUME TypeOK, SlotsApart, Untouched, NEW S, S \subseteq world,
         NEW kept \in Seq(Players), Len(kept) < MaxLocal, NEW found \in SetToSeqs(S),
         NEW added, added = SubSeq(found, 1, Min({MaxLocal - Len(kept), Len(found)}))
  PROVE  /\ added \in Seq(Players) /\ Once(added)
         /\ \A i \in 1 .. Len(added) : added[i] \in S
         /\ Len(kept) + Len(added) <= MaxLocal
         /\ Len(kept) + Len(added) < MaxLocal => \A q \in S : Has(added, q)
  <1> DEFINE m == Min({MaxLocal - Len(kept), Len(found)})
  <1>1. S \subseteq Players
    BY DEF TypeOK
  <1>2. IsFiniteSet(S)
    BY WorldFinite, FS_Subset
  <1>3. found \in Seq(S) /\ Once(found) /\ \A q \in S : Has(found, q)
    BY <1>2, OrderedSet
  <1>4. Len(found) \in Nat /\ Len(kept) \in Nat /\ MaxLocal \in Nat
    BY <1>3, PlayersAssumption
  <1>5. m = IF MaxLocal - Len(kept) <= Len(found) THEN MaxLocal - Len(kept) ELSE Len(found)
    <2>1. MaxLocal - Len(kept) \in Int /\ Len(found) \in Int
      BY <1>4
    <2> QED BY <2>1, MinOfTwo
  <1> HIDE DEF m
  <1>6. m \in 0 .. Len(found) /\ m <= MaxLocal - Len(kept)
        /\ (m < MaxLocal - Len(kept) => m = Len(found))
    BY <1>4, <1>5
  <1>7. /\ Len(added) = m /\ added \in Seq(S)
        /\ \A i \in 1 .. m : added[i] = found[i] /\ added[i] \in S
    <2>1. added = SubSeq(found, 1, m)
      BY DEF m
    <2>2. \A i \in 1 .. m : found[i] \in S /\ i \in 1 .. Len(found)
      BY <1>3, <1>4, <1>6
    <2>3. Len(added) = m /\ \A i \in 1 .. m : added[i] = found[i]
      BY ONLY <1>3, <1>4, <1>6, <2>1, <2>2
    <2>4. added \in Seq(S)
      BY ONLY <1>3, <1>4, <1>6, <2>1, <2>2
    <2> QED BY ONLY <2>2, <2>3, <2>4
  <1>8. added \in Seq(Players)
    BY ONLY <1>1, <1>7
  <1>9. Once(added)
    BY <1>3, <1>4, <1>6, <1>7, SMTT(30) DEF Once
  <1>10. ASSUME Len(kept) + Len(added) < MaxLocal, NEW q \in S PROVE Has(added, q)
    <2>1. m = Len(found)
      BY <1>4, <1>6, <1>7, <1>10
    <2> QED BY <1>3, <1>7, <2>1 DEF Has
  <1>11. Len(kept) + Len(added) <= MaxLocal
    BY ONLY <1>4, <1>6, <1>7
  <1> QED BY ONLY <1>7, <1>8, <1>9, <1>10, <1>11, Zenon

\* A relative position within sight survives its bits.
LEMMA FieldBack ==
  ASSUME NEW d \in -Behind .. Ahead
  PROVE  FieldValue(Field(d)) = d
  <1>1. d \in Int /\ -FieldSize <= 2 * d /\ 2 * d < FieldSize /\ FieldSize \in Nat /\ FieldSize > 0
    BY SightAssumption
  <1>2. CASE d >= 0
    <2>1. d % FieldSize = d
      BY <1>1, <1>2
    <2> QED BY <1>1, <2>1 DEF FieldValue, Field
  <1>3. CASE d < 0
    <2>1. d % FieldSize = d + FieldSize
      BY <1>1, <1>3, SMTT(30)
    <2> QED BY <1>1, <1>3, <2>1 DEF FieldValue, Field
  <1> QED BY <1>1, <1>2, <1>3

\* Positions and displacements add up; standing leads nowhere.
LEMMA PlusIs ==
  ASSUME NEW a \in Int \X Int
  PROVE  /\ \A d \in Int \X Int : Plus(a, d) \in Int \X Int
         /\ Plus(a, Stand) = a
  BY DEF Plus, Stand

\* What a player's directions tell is a displacement.
LEMMA ToldIs ==
  ASSUME NEW s \in (Int \X Int) \X (Int \X Int)
  PROVE  Told(s) \in Int \X Int
  <1>1. s[1] \in Int \X Int /\ s[2] \in Int \X Int
    OBVIOUS
  <1> QED BY <1>1, PlusIs DEF Told, Stand

\* Directions that are not set tell nothing.
LEMMA NoneTold == Told(NoTurn) = Stand
  BY DEF Told, NoTurn, Stand

\* The first and the second position of a pair decide it.
LEMMA PairIs ==
  ASSUME NEW a \in Int \X Int, NEW b \in Int \X Int, a[1] = b[1], a[2] = b[2]
  PROVE  a = b
  OBVIOUS

\* A player that starts with no directions and makes one turn with a primary direction,
\* or none at all, moves by what its directions tell.
LEMMA TurnTold ==
  ASSUME NEW t \in (Int \X Int) \X (Int \X Int), t[1] = Stand => t[2] = Stand,
         NEW a \in Int \X Int
  PROVE  Moved(Moved(a, t), NoTurn) = Plus(a, Told(Turned(Turned(NoTurn, t), NoTurn)))
  <1>1. t[1] \in Int \X Int /\ t[2] \in Int \X Int
    OBVIOUS
  <1>2. NoTurn[1] = Stand /\ NoTurn[2] = Stand
    BY DEF NoTurn
  <1>3. Turned(NoTurn, t)[1] = t[1] /\ Turned(NoTurn, t)[2] = t[2]
    BY <1>2 DEF Turned
  <1>4. /\ Turned(Turned(NoTurn, t), NoTurn)[1] = t[1]
        /\ Turned(Turned(NoTurn, t), NoTurn)[2] = t[2]
    BY <1>2, <1>3 DEF Turned
  <1>5. Told(Turned(Turned(NoTurn, t), NoTurn)) = Plus(t[1], t[2])
    <2>1. CASE t[1] = Stand
      <3>1. Plus(t[1], t[2]) = Stand
        BY <2>1 DEF Plus, Stand
      <3> QED BY <1>4, <2>1, <3>1 DEF Told
    <2>2. CASE t[1] # Stand
      BY <1>4, <2>2 DEF Told
    <2> QED BY <2>1, <2>2
  <1>6. Moved(a, t) = Plus(a, Plus(t[1], t[2])) /\ Moved(a, t) \in Int \X Int
    BY <1>1 DEF Moved, Plus
  <1>7. Moved(Moved(a, t), NoTurn) = Moved(a, t)
    <2> DEFINE b == Moved(a, t)
    <2>1. b \in Int \X Int
      BY <1>6
    <2> HIDE DEF b
    <2>2. Plus(Plus(b, Stand), Stand) = b
      BY <2>1, PlusIs
    <2> QED BY <1>2, <2>2 DEF Moved, b
  <1> QED BY <1>5, <1>6, <1>7

\* A turn leads from directions to directions.
LEMMA TurnedIs ==
  ASSUME NEW s \in (Int \X Int) \X (Int \X Int), NEW t \in (Int \X Int) \X (Int \X Int)
  PROVE  Turned(s, t) \in (Int \X Int) \X (Int \X Int)
  BY DEF Turned

\* The additions are entries of their players' slots, and stand where the players stand
\* if the client knows where its own does.
LEMMA EntryAdded ==
  ASSUME TypeOK, Untouched, NEW p \in Players, NEW q \in Players, Sees(p, q), q \in world,
         NEW at \in Int \X Int
  PROVE  LET a == AddPlayer(p, q)
             e == [slot |-> a.slot,
                   pos |-> Plus(at, <<FieldValue(a.x), FieldValue(a.y)>>)]
         IN  /\ e \in Entries /\ e.slot = index[q] /\ a.slot = index[q]
             /\ at = pos[p] => e.pos = pos[q]
  <1> DEFINE d == Minus(pos[q], pos[p])
             a == AddPlayer(p, q)
             e == [slot |-> a.slot,
                   pos |-> Plus(at, <<FieldValue(a.x), FieldValue(a.y)>>)]
  <1>1. pos[p] \in Int \X Int /\ pos[q] \in Int \X Int
    BY TilesAssumption DEF TypeOK
  <1>2. index[q] \in Nat
    BY PlayersAssumption DEF TypeOK, Untouched, Slots
  <1>3. d[1] \in -Behind .. Ahead /\ d[2] \in -Behind .. Ahead
    BY DEF Sees
  <1>4. d[1] = pos[q][1] - pos[p][1] /\ d[2] = pos[q][2] - pos[p][2]
    BY <1>1 DEF Minus
  <1>5. a = [slot |-> index[q], x |-> Field(d[1]), y |-> Field(d[2])]
    BY DEF AddPlayer
  <1>6. FieldValue(a.x) = d[1] /\ FieldValue(a.y) = d[2] /\ a.slot = index[q]
    <2>1. FieldValue(Field(d[1])) = d[1] /\ FieldValue(Field(d[2])) = d[2]
      BY <1>3, FieldBack
    <2> HIDE DEF d, a
    <2> QED BY <1>5, <2>1
  <1>7. <<d[1], d[2]>> \in Int \X Int /\ Plus(pos[p], <<d[1], d[2]>>) = pos[q]
    BY <1>1, <1>4 DEF Plus
  <1>8. e = [slot |-> index[q], pos |-> Plus(at, <<d[1], d[2]>>)]
    <2> HIDE DEF d, a
    <2> QED BY <1>6
  <1>9. Plus(at, <<d[1], d[2]>>) \in Int \X Int
    BY <1>7, PlusIs
  <1> HIDE DEF e, a, d
  <1>10. /\ e \in Entries /\ e.slot = index[q] /\ a.slot = index[q]
         /\ at = pos[p] => e.pos = pos[q]
    BY <1>2, <1>6, <1>7, <1>8, <1>9 DEF Entries
  <1> QED BY <1>10 DEF e, a

\* The packet's additions, as AddPlayer writes them, and the client's list after the
\* packet.
Additions(p, added) == [i \in 1 .. Len(added) |-> AddPlayer(p, added[i])]
SentView(p, added) ==
  EntriesAfter(view[p], Movements(p)) \o EntriesAdded(OwnAfter(p), Additions(p, added))

\* A client takes its own player to be at a position.
LEMMA OwnAfterIs ==
  ASSUME TypeOK, NEW p \in Players
  PROVE  OwnAfter(p) \in Int \X Int
  <1>1. /\ pos[p] \in Int \X Int /\ own[p] \in Int \X Int
        /\ steps[p] \in (Int \X Int) \X (Int \X Int)
    BY TilesAssumption DEF TypeOK
  <1>2. Plus(own[p], Told(steps[p])) \in Int \X Int
    BY <1>1, ToldIs, PlusIs
  <1> QED BY <1>1, <1>2 DEF OwnAfter

\* The elements of two lists, one after the other.
LEMMA Joined ==
  ASSUME NEW S, NEW s \in Seq(S), NEW t \in Seq(S)
  PROVE  /\ s \o t \in Seq(S) /\ Len(s \o t) = Len(s) + Len(t)
         /\ \A i \in 1 .. Len(s) : (s \o t)[i] = s[i]
         /\ \A i \in 1 .. Len(t) : (s \o t)[Len(s) + i] = t[i]
         /\ \A i \in 1 .. Len(s \o t) :
              i \in 1 .. Len(s) \/ \E j \in 1 .. Len(t) : i = Len(s) + j
  <1>1. /\ s \o t \in Seq(S) /\ Len(s \o t) = Len(s) + Len(t)
        /\ \A i \in 1 .. Len(s) : (s \o t)[i] = s[i]
        /\ \A i \in 1 .. Len(t) : (s \o t)[Len(s) + i] = t[i]
        /\ Len(s) \in Nat /\ Len(t) \in Nat
    OBVIOUS
  <1>2. ASSUME NEW i \in 1 .. Len(s) + Len(t), i \notin 1 .. Len(s)
        PROVE  \E j \in 1 .. Len(t) : i = Len(s) + j
    <2>1. i - Len(s) \in 1 .. Len(t) /\ i = Len(s) + (i - Len(s))
      BY <1>1, <1>2
    <2> QED BY <2>1
  <1> QED BY <1>1, <1>2

\* A client whose list is as long as the server's has as many entries afterwards: the
\* ones that stayed, moved, and the added ones, where they stand if the client knows
\* where its own player is.
LEMMA SentViewIs ==
  ASSUME TypeOK, Untouched, NEW p \in Players, NEW added \in Seq(Players),
         \A i \in 1 .. Len(added) : added[i] \in Unlisted(p, Kept(p)),
         Len(view[p]) = Len(local[p])
  PROVE  /\ SentView(p, added) \in Seq(Entries)
         /\ Len(SentView(p, added)) = Len(Kept(p)) + Len(added)
         /\ \A i \in 1 .. Len(Kept(p)) :
              /\ SentView(p, added)[i].slot = view[p][KeptPlaces(p)[i]].slot
              /\ SentView(p, added)[i].pos =
                   Plus(view[p][KeptPlaces(p)[i]].pos, Told(steps[Kept(p)[i]]))
         /\ \A i \in 1 .. Len(added) :
              /\ SentView(p, added)[Len(Kept(p)) + i].slot = index[added[i]]
              /\ OwnAfter(p) = pos[p] =>
                   SentView(p, added)[Len(Kept(p)) + i].pos = pos[added[i]]
  <1> DEFINE a == EntriesAfter(view[p], Movements(p))
             b == EntriesAdded(OwnAfter(p), Additions(p, added))
             places == KeptPlaces(p)
  <1>1. /\ view[p] \in Seq(Entries) /\ steps \in [Players -> (Int \X Int) \X (Int \X Int)]
        /\ local \in [Players -> Seq(Players)]
    BY DEF TypeOK
  <1>2. /\ Kept(p) \in Seq(Players) /\ Len(Kept(p)) \in Nat
        /\ \A i \in 1 .. Len(Kept(p)) : places[i] \in 1 .. Len(local[p]) /\ Kept(p)[i] \in Players
    <2>1. local \in [Players -> Seq(Players)]
      BY <1>1
    <2>2. /\ Kept(p) \in Seq(Players)
          /\ \A i \in 1 .. Len(Kept(p)) : places[i] \in 1 .. Len(local[p])
      BY <2>1, KeptIs, Zenon
    <2> HIDE DEF places
    <2> QED BY ONLY <2>2
  <1> DEFINE A(k) == [view[p][places[k]] EXCEPT !.pos = Plus(@, Told(steps[Kept(p)[k]]))]
  <1>3. a = [k \in 1 .. Len(Kept(p)) |-> A(k)]
    BY <1>1, EntriesAfterIs
  <1>4. ASSUME NEW k \in 1 .. Len(Kept(p))
        PROVE  /\ A(k) \in Entries /\ A(k).slot = view[p][places[k]].slot
               /\ A(k).pos = Plus(view[p][places[k]].pos, Told(steps[Kept(p)[k]]))
    <2> DEFINE e == view[p][places[k]]
    <2>1. e \in Entries
      <3>1. places[k] \in 1 .. Len(view[p])
        BY <1>2
      <3> HIDE DEF places
      <3> QED BY ONLY <1>1, <3>1
    <2>2. Told(steps[Kept(p)[k]]) \in Int \X Int
      BY <1>1, <1>2, ToldIs
    <2> HIDE DEF e
    <2>3. e.pos \in Int \X Int /\ e.slot \in Nat
      BY <2>1 DEF Entries
    <2>4. Plus(e.pos, Told(steps[Kept(p)[k]])) \in Int \X Int
      BY <2>2, <2>3, PlusIs
    <2>5. A(k) = [slot |-> e.slot, pos |-> Plus(e.pos, Told(steps[Kept(p)[k]]))]
      BY <2>1, SMTT(30) DEF Entries, e
    <2> QED BY <2>3, <2>4, <2>5 DEF Entries, e
  <1> HIDE DEF A
  <1>5. /\ a \in Seq(Entries) /\ Len(a) = Len(Kept(p))
        /\ \A i \in 1 .. Len(Kept(p)) : a[i] = A(i)
    BY ONLY <1>2, <1>3, <1>4
  <1> DEFINE E(q) == [slot |-> AddPlayer(p, q).slot,
                      pos |-> Plus(OwnAfter(p), <<FieldValue(AddPlayer(p, q).x),
                                                  FieldValue(AddPlayer(p, q).y)>>)]
  <1>6. Len(added) \in Nat /\ b = [i \in 1 .. Len(added) |-> E(added[i])]
    <2> DEFINE d == Additions(p, added)
    <2>1. Len(added) \in Nat
      OBVIOUS
    <2>2. Len(d) = Len(added) /\ \A i \in 1 .. Len(added) : d[i] = AddPlayer(p, added[i])
      BY <2>1 DEF Additions
    <2> HIDE DEF d
    <2>3. b = [i \in 1 .. Len(d) |->
                 [slot |-> d[i].slot,
                  pos |-> Plus(OwnAfter(p), <<FieldValue(d[i].x), FieldValue(d[i].y)>>)]]
      BY Zenon DEF EntriesAdded, d
    <2> QED BY ONLY <2>1, <2>2, <2>3
  <1>7. ASSUME NEW i \in 1 .. Len(added)
        PROVE  /\ E(added[i]) \in Entries /\ E(added[i]).slot = index[added[i]]
               /\ OwnAfter(p) = pos[p] => E(added[i]).pos = pos[added[i]]
    <2>1. added[i] \in Players /\ added[i] \in world /\ Sees(p, added[i])
      BY DEF Unlisted
    <2> QED BY <2>1, EntryAdded, OwnAfterIs
  <1> HIDE DEF E
  <1>8. /\ b \in Seq(Entries) /\ Len(b) = Len(added)
        /\ \A i \in 1 .. Len(added) : b[i] = E(added[i])
    BY ONLY <1>6, <1>7
  <1>9. SentView(p, added) = a \o b
    BY DEF SentView
  <1> HIDE DEF a, b
  <1>10. /\ a \o b \in Seq(Entries) /\ Len(a \o b) = Len(a) + Len(b)
         /\ \A i \in 1 .. Len(a) : (a \o b)[i] = a[i]
         /\ \A i \in 1 .. Len(b) : (a \o b)[Len(a) + i] = b[i]
    <2>1. a \in Seq(Entries) /\ b \in Seq(Entries)
      BY ONLY <1>5, <1>8
    <2> QED BY ONLY <2>1
  <1> QED BY ONLY <1>4, <1>5, <1>7, <1>8, <1>9, <1>10, SMTT(30)

----------------------------------------------------------------------------
(* An update *)

\* What an update leaves in a player's local list ...
GoodList(p, new) ==
  /\ new \in Seq(Players) /\ Len(new) <= MaxLocal /\ Once(new)
  /\ \A i \in 1 .. Len(new) : new[i] # p /\ Sees(p, new[i]) /\ index[new[i]] # -1

\* ... everybody in sight, if there is room ...
WholeList(p, new) ==
  Len(new) < MaxLocal => \A q \in world \ {p} : Sees(p, q) => Has(new, q)

\* ... and in the list of a client that has kept its place in the stream, the positions
\* if it knows where its own player is.
GoodSlots(entries, new) ==
  /\ Len(entries) = Len(new)
  /\ \A i \in 1 .. Len(new) : entries[i].slot = index[new[i]]
GoodPlaces(entries, new) ==
  \A i \in 1 .. Len(new) : new[i] \notin slipped => entries[i].pos = pos[new[i]]

\* The players that stay are in sight, registered, and not p.
LEMMA KeptGood ==
  ASSUME TypeOK, ListsProper, Listed, NEW p \in Players
  PROVE  /\ Kept(p) \in Seq(Players) /\ Len(Kept(p)) <= MaxLocal /\ Once(Kept(p))
         /\ \A i \in 1 .. Len(Kept(p)) :
              Kept(p)[i] # p /\ Sees(p, Kept(p)[i]) /\ index[Kept(p)[i]] # -1
  <1>1. local \in [Players -> Seq(Players)] /\ local[p] \in Seq(Players) /\ Len(local[p]) \in Nat
    BY DEF TypeOK
  <1>2. Len(local[p]) <= MaxLocal /\ Once(local[p]) /\ ~Has(local[p], p)
    BY <1>1, RangeIs DEF ListsProper, Once
  <1>3. \A i \in 1 .. Len(local[p]) : local[p][i] # p /\ index[local[p][i]] # -1
    BY <1>2 DEF Listed, Has
  <1> DEFINE kept == Kept(p)
             places == KeptPlaces(p)
  <1>4. /\ kept \in Seq(Players) /\ Len(kept) \in Nat /\ Len(kept) <= Len(local[p]) /\ Once(kept)
        /\ \A k \in 1 .. Len(kept) : /\ places[k] \in 1 .. Len(local[p])
                                     /\ kept[k] = local[p][places[k]] /\ Keeps(p, kept[k])
    BY <1>1, <1>2, KeptIs
  <1> HIDE DEF kept, places
  <1>5. Len(kept) <= MaxLocal
    BY <1>1, <1>2, <1>4, PlayersAssumption
  <1>6. \A i \in 1 .. Len(kept) : kept[i] # p /\ Sees(p, kept[i]) /\ index[kept[i]] # -1
    BY ONLY <1>3, <1>4 DEF Keeps
  <1> QED BY <1>4, <1>5, <1>6 DEF kept

\* An update with additions leaves a good list.
LEMMA ListGrows ==
  ASSUME TypeOK, ListsProper, Listed, SlotsApart, Untouched,
         NEW p \in Players, Len(Kept(p)) < MaxLocal,
         NEW S, S \subseteq Unlisted(p, Kept(p)), NEW found \in SetToSeqs(S),
         NEW added, added = SubSeq(found, 1, Min({MaxLocal - Len(Kept(p)), Len(found)}))
  PROVE  /\ GoodList(p, Kept(p) \o added)
         /\ S = Unlisted(p, Kept(p)) => WholeList(p, Kept(p) \o added)
         /\ added \in Seq(Players)
         /\ \A i \in 1 .. Len(added) : added[i] \in Unlisted(p, Kept(p))
  <1> DEFINE kept == Kept(p)
             new == kept \o added
  <1>1. /\ kept \in Seq(Players) /\ Once(kept) /\ Len(kept) \in Nat
        /\ \A i \in 1 .. Len(kept) : kept[i] # p /\ Sees(p, kept[i]) /\ index[kept[i]] # -1
    BY KeptGood
  <1>2. /\ added \in Seq(Players) /\ Once(added)
        /\ \A i \in 1 .. Len(added) : added[i] \in Unlisted(p, kept)
        /\ Len(kept) + Len(added) <= MaxLocal
        /\ Len(kept) + Len(added) < MaxLocal => \A q \in S : Has(added, q)
    <2>1. S \subseteq world
      BY DEF Unlisted
    <2>2. /\ kept \in Seq(Players) /\ Len(kept) < MaxLocal
          /\ added = SubSeq(found, 1, Min({MaxLocal - Len(kept), Len(found)}))
      BY <1>1
    <2> HIDE DEF kept, new
    <2>3. /\ added \in Seq(Players) /\ Once(added)
          /\ \A i \in 1 .. Len(added) : added[i] \in S
          /\ Len(kept) + Len(added) <= MaxLocal
          /\ Len(kept) + Len(added) < MaxLocal => \A q \in S : Has(added, q)
      BY <2>1, <2>2, AddedIs, ZenonT(60)
    <2>4. S \subseteq Unlisted(p, kept)
      BY DEF kept
    <2> QED BY <2>3, <2>4
  <1> HIDE DEF kept
  <1>3. /\ new \in Seq(Players) /\ Len(new) = Len(kept) + Len(added)
        /\ \A i \in 1 .. Len(kept) : new[i] = kept[i]
        /\ \A i \in 1 .. Len(added) : new[Len(kept) + i] = added[i]
        /\ \A i \in 1 .. Len(new) :
             i \in 1 .. Len(kept) \/ \E j \in 1 .. Len(added) : i = Len(kept) + j
    <2>1. kept \in Seq(Players) /\ added \in Seq(Players)
      BY <1>1, <1>2
    <2> QED BY ONLY <2>1, Joined, ZenonT(60)
  <1> HIDE DEF new
  <1>4. \A i \in 1 .. Len(added) :
          /\ added[i] # p /\ Sees(p, added[i]) /\ index[added[i]] # -1
          /\ ~Has(kept, added[i])
    <2>1. \A q \in Unlisted(p, kept) : q # p /\ Sees(p, q) /\ q \in world /\ q \notin Range(kept)
      BY DEF Unlisted
    <2>2. \A q \in world : index[q] # -1
      BY DEF Untouched, TypeOK
    <2> QED BY <1>1, <1>2, <2>1, <2>2, RangeIs
  <1>5. \A i \in 1 .. Len(new) : new[i] # p /\ Sees(p, new[i]) /\ index[new[i]] # -1
    <2> SUFFICES ASSUME NEW i \in 1 .. Len(new)
                 PROVE  new[i] # p /\ Sees(p, new[i]) /\ index[new[i]] # -1
      OBVIOUS
    <2>1. CASE i \in 1 .. Len(kept)
      <3>1. new[i] = kept[i]
        BY <1>3, <2>1
      <3> QED BY <1>1, <2>1, <3>1, Zenon
    <2>2. CASE \E j \in 1 .. Len(added) : i = Len(kept) + j
      <3>1. PICK j \in 1 .. Len(added) : new[i] = added[j]
        BY <1>3, <2>2
      <3> QED BY <1>4, <3>1, Zenon
    <2> QED BY <1>3, <2>1, <2>2, Zenon
  <1>6. Once(new)
    <2> SUFFICES ASSUME NEW i \in 1 .. Len(new), NEW j \in 1 .. Len(new), new[i] = new[j]
                 PROVE  i = j
      BY DEF Once
    <2>1. CASE i \in 1 .. Len(kept) /\ j \in 1 .. Len(kept)
      BY ONLY <1>1, <1>3, <2>1, new[i] = new[j] DEF Once
    <2>2. CASE \E k, l \in 1 .. Len(added) : i = Len(kept) + k /\ j = Len(kept) + l
      BY ONLY <1>2, <1>3, <2>2, new[i] = new[j] DEF Once
    <2>3. ASSUME NEW k \in 1 .. Len(kept), NEW l \in 1 .. Len(added)
          PROVE  new[k] # new[Len(kept) + l]
      BY ONLY <1>3, <1>4, <2>3 DEF Has
    <2> QED BY ONLY <1>3, <2>1, <2>2, <2>3, new[i] = new[j], i \in 1 .. Len(new), j \in 1 .. Len(new), ZenonT(60)
  <1>7. ASSUME S = Unlisted(p, kept), Len(new) < MaxLocal, NEW q \in world \ {p}, Sees(p, q)
        PROVE  Has(new, q)
    <2>1. CASE Has(kept, q)
      <3>1. PICK i \in 1 .. Len(kept) : kept[i] = q
        BY <2>1 DEF Has
      <3>2. i \in 1 .. Len(new)
        BY <1>1, <1>2, <1>3
      <3> QED BY <1>3, <3>1, <3>2 DEF Has
    <2>2. CASE ~Has(kept, q)
      <3>1. q \in Unlisted(p, kept)
        BY <1>1, <1>7, <2>2, RangeIs DEF Unlisted
      <3>2. PICK i \in 1 .. Len(added) : added[i] = q
        BY <1>2, <1>3, <1>7, <3>1 DEF Has
      <3>3. Len(kept) + i \in 1 .. Len(new) /\ new[Len(kept) + i] = q
        <4>1. Len(kept) \in Nat /\ Len(added) \in Nat /\ Len(new) = Len(kept) + Len(added)
          BY <1>1, <1>2, <1>3
        <4> QED BY ONLY <1>3, <3>2, <4>1
      <3> QED BY <3>3 DEF Has
    <2> QED BY <2>1, <2>2
  <1>8. Len(new) <= MaxLocal
    BY ONLY <1>2, <1>3
  <1>9. GoodList(p, new) /\ (S = Unlisted(p, kept) => WholeList(p, new))
    BY <1>3, <1>5, <1>6, <1>7, <1>8 DEF GoodList, WholeList
  <1> QED BY <1>2, <1>9 DEF new, kept

\* An update with a full list leaves a good list.
LEMMA ListFull ==
  ASSUME TypeOK, ListsProper, Listed, NEW p \in Players, Len(Kept(p)) >= MaxLocal
  PROVE  GoodList(p, Kept(p)) /\ WholeList(p, Kept(p))
  <1>1. /\ Kept(p) \in Seq(Players) /\ Len(Kept(p)) \in Nat /\ MaxLocal \in Nat
        /\ Len(Kept(p)) <= MaxLocal /\ Once(Kept(p))
        /\ \A i \in 1 .. Len(Kept(p)) :
             Kept(p)[i] # p /\ Sees(p, Kept(p)[i]) /\ index[Kept(p)[i]] # -1
    BY KeptGood, PlayersAssumption
  <1>2. ~ (Len(Kept(p)) < MaxLocal)
    BY <1>1
  <1> QED BY ONLY <1>1, <1>2 DEF GoodList, WholeList

\* What an update may do to a client: only p's changes; if it had the server's list and
\* can read the packet, it has the new one and has been sent p's appearance; and if its
\* entries were in place and it knows where p is, they are in place again.
ClientAfter(p, new) ==
  /\ \A q \in Players : q # p => view'[q] = view[q] /\ lost'[q] = lost[q] /\ own'[q] = own[q]
  /\ view' \in [Players -> Seq(Entries)] /\ lost' \in [Players -> {"no"} \cup Losses]
  /\ own' \in [Players -> Int \X Int]
  /\ shown \subseteq shown' /\ shown' \subseteq shown \cup {p}
  /\ lost[p] # "no" => lost'[p] = lost[p]
  /\ lost'[p] = "no" => own'[p] = OwnAfter(p)
  /\ lost'[p] = "no" /\ "Appearance" \in flags[p] => p \in shown'
  /\ Matched(p) =>
       /\ lost'[p] # "size"
       /\ lost'[p] = "no" => GoodSlots(view'[p], new)
  /\ p \in todo /\ Matched(p) /\ PlacedWith(p) /\ OwnAfter(p) = pos[p] /\ lost'[p] = "no" =>
       GoodPlaces(view'[p], new)

\* The remainder of a number that is smaller.
LEMMA SmallRemainder ==
  ASSUME NEW a \in Nat, NEW b \in Nat, a < b
  PROVE  a % b = a
  OBVIOUS

\* The size of a list fits into its bits.
LEMMA SizeFits ==
  ASSUME TypeOK, ListsProper, NEW p \in Players
  PROVE  Len(local[p]) % (MaxLocal + 1) = Len(local[p])
  <1>1. Len(local[p]) \in Nat /\ MaxLocal \in Nat /\ Len(local[p]) <= MaxLocal
    BY PlayersAssumption DEF TypeOK, ListsProper
  <1>2. MaxLocal + 1 \in Nat /\ Len(local[p]) < MaxLocal + 1
    BY ONLY <1>1
  <1> QED BY ONLY <1>1, <1>2, SmallRemainder

\* A client that loses its place.
LEMMA LosesPlace ==
  ASSUME TypeOK, NEW p \in Players, NEW why \in Losses, why # "size", Loses(p, why), NEW new
  PROVE  ClientAfter(p, new)
  <1>1. /\ view' = [view EXCEPT ![p] = <<>>]
        /\ lost' = [lost EXCEPT ![p] = IF lost[p] = "no" THEN why ELSE lost[p]]
        /\ shown' = shown /\ own' = own
    BY DEF Loses
  <1>2. view \in [Players -> Seq(Entries)] /\ lost \in [Players -> {"no"} \cup Losses]
        /\ own \in [Players -> Int \X Int]
    BY DEF TypeOK
  <1>3. lost'[p] = IF lost[p] = "no" THEN why ELSE lost[p]
    BY <1>1, <1>2
  <1>4. lost'[p] # "no" /\ (lost[p] # "no" => lost'[p] = lost[p])
        /\ (lost[p] # "size" => lost'[p] # "size") /\ lost'[p] \in {"no"} \cup Losses
    BY <1>2, <1>3 DEF Losses
  <1>5. Matched(p) => lost[p] # "size"
    BY DEF Matched
  <1>6. <<>> \in Seq(Entries)
    OBVIOUS
  <1>7. view' \in [Players -> Seq(Entries)]
    BY <1>1, <1>2, <1>6
  <1>8. lost' \in [Players -> {"no"} \cup Losses]
    BY <1>1, <1>2 DEF Losses
  <1> QED BY <1>1, <1>2, <1>4, <1>5, <1>7, <1>8 DEF ClientAfter

\* A client that has the server's list reads the packet of an update.
LEMMA ReceiveGood ==
  ASSUME TypeOK, ListsProper, Untouched, NEW p \in Players, NEW added \in Seq(Players),
         \A i \in 1 .. Len(added) : added[i] \in Unlisted(p, Kept(p)),
         Receive(p, Movements(p), Additions(p, added))
  PROVE  ClientAfter(p, Kept(p) \o added)
  <1> DEFINE new == Kept(p) \o added
             v == SentView(p, added)
             ended == \E i \in 1 .. Len(Additions(p, added)) :
                        Additions(p, added)[i].slot = EndSlot
  <1>1. /\ view \in [Players -> Seq(Entries)] /\ lost \in [Players -> {"no"} \cup Losses]
        /\ local \in [Players -> Seq(Players)] /\ own \in [Players -> Int \X Int]
    BY DEF TypeOK
  <1>2. CASE lost[p] # "no"
    <2>1. view' = view /\ lost' = lost /\ shown' = shown /\ own' = own
      BY <1>2 DEF Receive, clientVars
    <2> QED BY <1>1, <1>2, <2>1 DEF ClientAfter, Matched
  <1>3. ASSUME Loses(p, "torn") PROVE ClientAfter(p, new)
    <2>1. "torn" \in Losses /\ "torn" # "size"
      BY DEF Losses
    <2> QED BY <1>3, <2>1, LosesPlace
  <1>4. ASSUME lost[p] = "no", Len(local[p]) # Len(view[p]), Loses(p, "size")
        PROVE  ClientAfter(p, new)
    <2>1. ~Matched(p)
      BY <1>4 DEF Matched
    <2>2. /\ view' = [view EXCEPT ![p] = <<>>] /\ lost' = [lost EXCEPT ![p] = "size"]
          /\ shown' = shown /\ own' = own
      BY <1>4 DEF Loses
    <2> QED BY <1>1, <1>4, <2>1, <2>2 DEF ClientAfter, Losses
  <1>5. ASSUME Loses(p, "ended") PROVE ClientAfter(p, new)
    <2>1. "ended" \in Losses /\ "ended" # "size"
      BY DEF Losses
    <2> QED BY <1>5, <2>1, LosesPlace
  <1>6. ASSUME lost[p] = "no", Len(local[p]) = Len(view[p]),
               own' = [own EXCEPT ![p] = OwnAfter(p)],
               view' = [view EXCEPT ![p] = v], lost' = lost,
               shown' = IF "Appearance" \in flags[p] THEN shown \cup {p} ELSE shown
        PROVE  ClientAfter(p, new)
    <2> HIDE DEF ended
    <2>1. /\ v \in Seq(Entries) /\ Len(v) = Len(Kept(p)) + Len(added)
          /\ \A i \in 1 .. Len(Kept(p)) :
               /\ v[i].slot = view[p][KeptPlaces(p)[i]].slot
               /\ v[i].pos = Plus(view[p][KeptPlaces(p)[i]].pos, Told(steps[Kept(p)[i]]))
          /\ \A i \in 1 .. Len(added) :
               /\ v[Len(Kept(p)) + i].slot = index[added[i]]
               /\ OwnAfter(p) = pos[p] => v[Len(Kept(p)) + i].pos = pos[added[i]]
      BY <1>6, SentViewIs
    <2> HIDE DEF v
    <2>2. view'[p] = v /\ view' \in [Players -> Seq(Entries)]
          /\ \A q \in Players : q # p => view'[q] = view[q]
      BY <1>1, <1>6, <2>1
    <2>3. /\ Kept(p) \in Seq(Players)
          /\ \A k \in 1 .. Len(Kept(p)) : /\ KeptPlaces(p)[k] \in 1 .. Len(local[p])
                                          /\ Kept(p)[k] = local[p][KeptPlaces(p)[k]]
      BY <1>1, KeptIs
    <2>4. /\ Len(new) = Len(Kept(p)) + Len(added)
          /\ \A i \in 1 .. Len(Kept(p)) : new[i] = Kept(p)[i]
          /\ \A i \in 1 .. Len(added) : new[Len(Kept(p)) + i] = added[i]
          /\ \A i \in 1 .. Len(new) :
               i \in 1 .. Len(Kept(p)) \/ \E j \in 1 .. Len(added) : i = Len(Kept(p)) + j
      BY <2>3, Joined
    <2> HIDE DEF new
    <2>5. Len(v) = Len(new)
      BY ONLY <2>1, <2>4
    <2>6. ASSUME Matched(p), NEW i \in 1 .. Len(new) PROVE v[i].slot = index[new[i]]
      <3>1. CASE i \in 1 .. Len(Kept(p))
        <4>1. KeptPlaces(p)[i] \in 1 .. Len(local[p]) /\ new[i] = local[p][KeptPlaces(p)[i]]
          BY <2>3, <2>4, <3>1
        <4>2. view[p][KeptPlaces(p)[i]].slot = index[new[i]]
          BY <1>6, <2>6, <4>1 DEF Matched
        <4> QED BY ONLY <2>1, <3>1, <4>2, Zenon
      <3>2. CASE \E j \in 1 .. Len(added) : i = Len(Kept(p)) + j
        <4>1. PICK j \in 1 .. Len(added) : i = Len(Kept(p)) + j
          BY <3>2
        <4>2. new[i] = added[j] /\ v[i].slot = index[added[j]]
          BY ONLY <2>1, <2>4, <4>1
        <4> QED BY <4>2, Zenon
      <3> QED BY <2>4, <3>1, <3>2, Zenon
    <2>7. ASSUME p \in todo, PlacedWith(p), OwnAfter(p) = pos[p], NEW i \in 1 .. Len(new),
                 new[i] \notin slipped
          PROVE  v[i].pos = pos[new[i]]
      <3>1. CASE i \in 1 .. Len(Kept(p))
        <4>1. /\ KeptPlaces(p)[i] \in 1 .. Len(local[p]) /\ new[i] = local[p][KeptPlaces(p)[i]]
              /\ new[i] = Kept(p)[i]
          BY <2>3, <2>4, <3>1
        <4>2. Plus(view[p][KeptPlaces(p)[i]].pos, Told(steps[new[i]])) = pos[new[i]]
          BY <1>6, <2>7, <4>1 DEF PlacedWith, Untold
        <4> QED BY ONLY <2>1, <3>1, <4>1, <4>2, Zenon
      <3>2. CASE \E j \in 1 .. Len(added) : i = Len(Kept(p)) + j
        <4>1. PICK j \in 1 .. Len(added) : i = Len(Kept(p)) + j
          BY <3>2
        <4>2. new[i] = added[j] /\ v[i].pos = pos[added[j]]
          BY ONLY <2>1, <2>4, <2>7, <4>1
        <4> QED BY <4>2, Zenon
      <3> QED BY <2>4, <3>1, <3>2, Zenon
    <2>8. Matched(p) => GoodSlots(v, new)
      BY ONLY <2>5, <2>6 DEF GoodSlots
    <2>9. p \in todo /\ PlacedWith(p) /\ OwnAfter(p) = pos[p] => GoodPlaces(v, new)
      BY ONLY <2>7 DEF GoodPlaces
    <2>10. ("Appearance" \in flags[p] => p \in shown') /\ shown \subseteq shown'
           /\ shown' \subseteq shown \cup {p}
      BY <1>6
    <2>11. /\ own' \in [Players -> Int \X Int] /\ own'[p] = OwnAfter(p)
           /\ \A q \in Players : q # p => own'[q] = own[q]
      BY <1>1, <1>6, OwnAfterIs
    <2>12. lost' \in [Players -> {"no"} \cup Losses] /\ lost'[p] = "no"
           /\ \A q \in Players : q # p => lost'[q] = lost[q]
      BY <1>1, <1>6
    <2>13. ClientAfter(p, new)
      BY ONLY <1>6, <2>2, <2>8, <2>9, <2>10, <2>11, <2>12 DEF ClientAfter
    <2> QED BY <2>13 DEF new
  <1>7. CASE lost[p] = "no"
    <2>1. \/ /\ Len(local[p]) = Len(view[p])
             /\ own' = [own EXCEPT ![p] = OwnAfter(p)]
             /\ view' = [view EXCEPT ![p] = v] /\ lost' = lost
             /\ shown' = IF "Appearance" \in flags[p] THEN shown \cup {p} ELSE shown
          \/ Loses(p, "ended")
          \/ Len(local[p]) # Len(view[p]) /\ Loses(p, "size")
          \/ Loses(p, "torn")
      BY <1>7, SizeFits DEF Receive, SentView
    <2> HIDE DEF v, ended
    <2> QED BY <1>3, <1>4, <1>5, <1>6, <1>7, <2>1 DEF v
  <1> QED BY <1>2, <1>7

\* Every update leaves a good list and does to the clients what it may; a list that is
\* not whole is that of a search a rehash has disturbed.
LEMMA UpdateMade ==
  ASSUME TypeOK, ListsProper, Listed, SlotsApart, Untouched, NEW p \in Players,
         UpdatePlayer(p) \/ UpdatePlayerRehashed(p) \/ UpdatePlayerFull(p)
  PROVE  \E new : /\ local' = [local EXCEPT ![p] = new]
                  /\ GoodList(p, new) /\ ClientAfter(p, new)
                  /\ p \in blinked' \/ WholeList(p, new)
  <1>1. ASSUME NEW S, S \subseteq Unlisted(p, Kept(p)), AddAndSend(p, S)
        PROVE  \E new : /\ local' = [local EXCEPT ![p] = new]
                        /\ GoodList(p, new) /\ ClientAfter(p, new)
                        /\ S = Unlisted(p, Kept(p)) => WholeList(p, new)
    <2>1. Len(Kept(p)) < MaxLocal
      BY <1>1 DEF AddAndSend
    <2>2. PICK found \in SetToSeqs(S) :
            LET added == SubSeq(found, 1, Min({MaxLocal - Len(Kept(p)), Len(found)}))
            IN  /\ local' = [local EXCEPT ![p] = Kept(p) \o added]
                /\ Receive(p, Movements(p), [i \in 1 .. Len(added) |-> AddPlayer(p, added[i])])
      BY <1>1 DEF AddAndSend
    <2> DEFINE added == SubSeq(found, 1, Min({MaxLocal - Len(Kept(p)), Len(found)}))
    <2>3. /\ local' = [local EXCEPT ![p] = Kept(p) \o added]
          /\ Receive(p, Movements(p), Additions(p, added))
      BY <2>2, Zenon DEF Additions
    <2>4. /\ GoodList(p, Kept(p) \o added) /\ added \in Seq(Players)
          /\ S = Unlisted(p, Kept(p)) => WholeList(p, Kept(p) \o added)
          /\ \A i \in 1 .. Len(added) : added[i] \in Unlisted(p, Kept(p))
      BY <1>1, <2>1, ListGrows
    <2> HIDE DEF added
    <2>5. ClientAfter(p, Kept(p) \o added)
      BY <2>3, <2>4, ReceiveGood
    <2> QED BY <2>3, <2>4, <2>5
  <1>2. CASE UpdatePlayer(p)
    <2>1. AddAndSend(p, Unlisted(p, Kept(p)))
      BY <1>2 DEF UpdatePlayer
    <2> QED BY <1>1, <2>1, Zenon
  <1>3. CASE UpdatePlayerRehashed(p)
    <2>1. PICK S \in SUBSET Unlisted(p, Kept(p)) : AddAndSend(p, S)
      BY <1>3 DEF UpdatePlayerRehashed
    <2>2. p \in blinked'
      BY <1>3 DEF UpdatePlayerRehashed
    <2> QED BY <1>1, <2>1, <2>2
  <1>4. CASE UpdatePlayerFull(p)
    <2>1. /\ Len(Kept(p)) >= MaxLocal /\ local' = [local EXCEPT ![p] = Kept(p)]
          /\ Loses(p, "unsent")
      BY <1>4 DEF UpdatePlayerFull
    <2>2. "unsent" \in Losses /\ "unsent" # "size"
      BY DEF Losses
    <2>3. GoodList(p, Kept(p)) /\ WholeList(p, Kept(p)) /\ ClientAfter(p, Kept(p))
      BY <2>1, <2>2, ListFull, LosesPlace
    <2> QED BY <2>1, <2>3
  <1> QED BY <1>2, <1>3, <1>4

----------------------------------------------------------------------------
(* The steps preserve the invariant *)

\* The insertion of RegisterPlayer gives a slot that no player in the world has.
LEMMA SlotGiven ==
  ASSUME TypeOK, NEW p \in Players, Insert(p)
  PROVE  /\ world' = world \cup {p} /\ index[p] = -1
         /\ index' \in [Players -> {-1} \cup Slots]
         /\ index'[p] # -1
         /\ \A q \in world : index'[p] # index[q]
         /\ \A q \in Players : q # p => index'[q] = index[q]
  <1> DEFINE least == CHOOSE i \in FreeSlots : \A j \in FreeSlots : i <= j
  <1>1. /\ world' = world \cup {p} /\ index[p] = -1 /\ FreeSlots # {}
        /\ index' = [index EXCEPT ![p] = least]
    BY DEF Insert
  <1>2. FreeSlots \in SUBSET Nat /\ \A i \in FreeSlots : i \in Slots /\ i # -1
    BY PlayersAssumption DEF FreeSlots, Slots
  <1>3. least \in FreeSlots
    <2>1. \E i \in FreeSlots : \A j \in FreeSlots : i <= j
      BY <1>1, <1>2, LeastMember
    <2> QED BY <2>1, Zenon
  <1> HIDE DEF least
  <1>4. index \in [Players -> {-1} \cup Slots]
    BY DEF TypeOK
  <1>5. least \in Slots /\ least # -1 /\ \A q \in world : least # index[q]
    BY <1>2, <1>3 DEF FreeSlots
  <1>6. index' \in [Players -> {-1} \cup Slots] /\ index'[p] = least
        /\ \A q \in Players : q # p => index'[q] = index[q]
    BY <1>1, <1>4, <1>5
  <1> QED BY <1>1, <1>5, <1>6

\* The registry after a registration: the slots are still apart, the players listed have
\* kept theirs, and who is not registered is not in the world.
LEMMA RegistryGrows ==
  ASSUME TypeOK, SlotsApart, Listed, Untouched, NEW p \in Players, Insert(p)
  PROVE  /\ p \notin world /\ local[p] = <<>> /\ view[p] = <<>> /\ lost[p] = "no"
         /\ p \notin batch
         /\ SlotsApart'
         /\ \A q \in Players : index'[q] = -1 => q # p /\ index[q] = -1 /\ q \notin world'
         /\ \A q \in Players : \A i \in 1 .. Len(local[q]) :
              index'[local[q][i]] = index[local[q][i]] /\ index[local[q][i]] # -1
  <1>1. /\ world' = world \cup {p} /\ index[p] = -1 /\ index'[p] # -1
        /\ \A q \in world : index'[p] # index[q]
        /\ \A q \in Players : q # p => index'[q] = index[q]
    BY SlotGiven
  <1>2. world \subseteq Players /\ local \in [Players -> Seq(Players)]
    BY DEF TypeOK
  <1>3. p \notin world /\ p \notin batch /\ local[p] = <<>> /\ view[p] = <<>> /\ lost[p] = "no"
    BY <1>1 DEF Untouched
  <1>4. SlotsApart'
    BY <1>1, <1>2, <1>3 DEF SlotsApart
  <1>5. \A q \in Players : index'[q] = -1 => q # p /\ index[q] = -1 /\ q \notin world'
    BY <1>1, <1>2 DEF Untouched
  <1>6. ASSUME NEW q \in Players, NEW i \in 1 .. Len(local[q])
        PROVE  index'[local[q][i]] = index[local[q][i]] /\ index[local[q][i]] # -1
    <2>1. local[q][i] \in Players /\ index[local[q][i]] # -1
      BY <1>2 DEF Listed
    <2> QED BY <1>1, <2>1
  <1> QED BY <1>3, <1>4, <1>5, <1>6

\* The insertion of RegisterPlayer
LEMMA InsertStep ==
  ASSUME Inv, NEW p \in Players, Insert(p)
  PROVE  Inv'
  <1> USE DEF Inv
  <1>1. /\ entering = {} /\ entering' = {p} /\ flags' = flags
        /\ pos' = pos /\ steps' = steps /\ local' = local /\ phase' = phase /\ batch' = batch
        /\ again' = again /\ todo' = todo /\ view' = view /\ own' = own /\ lost' = lost
        /\ shown' = shown /\ missed' = missed /\ slipped' = slipped /\ early' = early
        /\ blinked' = blinked
    BY DEF Insert, playerVars, tickVars, clientVars, historyVars
  <1>2. /\ world' = world \cup {p} /\ index' \in [Players -> {-1} \cup Slots]
        /\ \A q \in Players : q # p => index'[q] = index[q]
    BY SlotGiven
  <1>3. /\ p \notin world /\ local[p] = <<>> /\ view[p] = <<>> /\ lost[p] = "no"
        /\ p \notin batch /\ SlotsApart'
        /\ \A q \in Players : index'[q] = -1 => q # p /\ index[q] = -1 /\ q \notin world'
        /\ \A q \in Players : \A i \in 1 .. Len(local[q]) :
             index'[local[q][i]] = index[local[q][i]] /\ index[local[q][i]] # -1
    BY RegistryGrows
  <1>4. TypeOK'
    BY <1>1, <1>2 DEF TypeOK
  <1>5. ListsProper' /\ Still' /\ NoBatch'
    BY <1>1 DEF ListsProper, Still, NoBatch
  <1>6. Untouched' /\ Listed'
    BY <1>1, <1>3 DEF Untouched, Listed
  <1>7. Exceptions'
    BY <1>1, <1>3 DEF Exceptions
  <1>8. ViewMatches'
    BY <1>1, <1>3 DEF ViewMatches, Matched
  <1>9. ViewTracks'
    <2> SUFFICES ASSUME NEW q \in world', q \notin Astray' PROVE (PlacedWith(q) /\ OwnKnown(q))'
      BY DEF ViewTracks
    <2>1. CASE q = p
      <3>1. Len(local'[p]) = 0 /\ p \in entering' /\ p \notin batch'
        BY <1>1, <1>3
      <3> QED BY <2>1, <3>1 DEF PlacedWith, OwnKnown
    <2>2. CASE q # p
      <3>1. q \in world /\ q \notin Astray
        BY <1>1, <1>2, <2>2 DEF Astray
      <3>2. PlacedWith(q) /\ OwnKnown(q)
        BY <3>1 DEF ViewTracks
      <3> QED BY <1>1, <3>2 DEF PlacedWith, OwnKnown, Untold
    <2> QED BY <2>1, <2>2
  <1>10. ViewComplete'
    <2>1. batch \cap world' = batch \cap world
      BY <1>2, <1>3
    <2> QED BY <1>1, <2>1 DEF ViewComplete, Sees
  <1>11. OwnAppearanceSent' /\ AppearanceShown'
    BY <1>1, <1>2, <1>3 DEF OwnAppearanceSent, AppearanceShown
  <1> QED BY <1>3, <1>4, <1>5, <1>6, <1>7, <1>8, <1>9, <1>10, <1>11

\* Player::Login
LEMMA LoginStep ==
  ASSUME Inv, NEW p \in Players, Login(p)
  PROVE  Inv'
  <1> USE DEF Inv
  <1>1. /\ p \in entering /\ flags' = [flags EXCEPT ![p] = Flags] /\ entering' = entering \ {p}
        /\ world' = world /\ index' = index
        /\ pos' = pos /\ steps' = steps /\ local' = local /\ phase' = phase /\ batch' = batch
        /\ again' = again /\ todo' = todo /\ view' = view /\ own' = own /\ lost' = lost
        /\ shown' = shown /\ missed' = missed /\ slipped' = slipped /\ early' = early
        /\ blinked' = blinked
    BY DEF Login, tickVars, clientVars, historyVars
  <1>2. flags'[p] = Flags /\ \A q \in Players : q # p => flags'[q] = flags[q]
    BY <1>1 DEF TypeOK
  <1>3. TypeOK'
    BY <1>1 DEF TypeOK
  <1>4. ListsProper' /\ Listed' /\ SlotsApart' /\ Still' /\ NoBatch'
    BY <1>1 DEF ListsProper, Listed, SlotsApart, Still, NoBatch
  <1>5. Untouched'
    BY <1>1 DEF Untouched
  <1>6. Exceptions'
    BY <1>1 DEF Exceptions
  <1>7. ViewMatches'
    BY <1>1 DEF ViewMatches, Matched
  <1>8. ViewTracks'
    <2> SUFFICES ASSUME NEW q \in world, q \notin Astray PROVE (PlacedWith(q) /\ OwnKnown(q))'
      BY <1>1 DEF ViewTracks, Astray
    <2>1. q \in Players /\ PlacedWith(q) /\ OwnKnown(q)
      BY DEF ViewTracks, TypeOK
    <2>2. PlacedWith(q)'
      BY <1>1, <2>1 DEF PlacedWith, Untold
    <2>3. "NeedsPlacement" \in flags'[p]
      BY <1>2 DEF Flags
    <2>4. OwnKnown(q)'
      BY <1>1, <1>2, <2>1, <2>3 DEF OwnKnown, Untold
    <2> QED BY <2>2, <2>4
  <1>9. ViewComplete'
    BY <1>1 DEF ViewComplete, Sees
  <1>10. OwnAppearanceSent'
    BY <1>1, <1>2 DEF OwnAppearanceSent, Flags, TypeOK
  <1>11. AppearanceShown'
    BY <1>1 DEF AppearanceShown
  <1> QED BY <1>3, <1>4, <1>5, <1>6, <1>7, <1>8, <1>9, <1>10, <1>11

\* Logout
LEMMA LogoutStep ==
  ASSUME Inv, NEW p \in Players, Logout(p)
  PROVE  Inv'
  <1> USE DEF Inv
  <1>1. /\ entering = {} /\ entering' = {} /\ world' = world \ {p} /\ index' = index
        /\ flags' = flags
        /\ pos' = pos /\ steps' = steps /\ local' = local /\ phase' = phase /\ batch' = batch
        /\ again' = again /\ todo' = todo /\ view' = view /\ own' = own /\ lost' = lost
        /\ shown' = shown /\ missed' = missed /\ slipped' = slipped /\ early' = early
        /\ blinked' = blinked
    BY DEF Logout, playerVars, tickVars, clientVars, historyVars
  <1>2. TypeOK'
    BY <1>1 DEF TypeOK
  <1>3. ListsProper' /\ Listed' /\ Still' /\ NoBatch' /\ Exceptions'
    BY <1>1 DEF ListsProper, Listed, Still, NoBatch, Exceptions
  <1>4. Untouched' /\ SlotsApart'
    BY <1>1 DEF Untouched, SlotsApart
  <1>5. ViewMatches'
    BY <1>1 DEF ViewMatches, Matched
  <1>6. ViewTracks'
    BY <1>1 DEF ViewTracks, PlacedWith, OwnKnown, Untold, Astray
  <1>7. ViewComplete'
    BY <1>1 DEF ViewComplete, Sees
  <1>8. OwnAppearanceSent' /\ AppearanceShown'
    BY <1>1 DEF OwnAppearanceSent, AppearanceShown
  <1> QED BY <1>2, <1>3, <1>4, <1>5, <1>6, <1>7, <1>8

\* The loop with MovementHandler::Process, whether or not a rehash disturbs it.
LEMMA ProcessStep ==
  ASSUME Inv, NEW players \in SUBSET world, NEW repeated \in SUBSET players,
         Process(players, repeated)
  PROVE  Inv'
  <1> USE DEF Inv
  <1> DEFINE Two(f, p) == IF p \in repeated THEN f[p] ELSE NoTurn
  <1>1. PICK first \in [players -> Turns], second \in [repeated -> Turns] :
          /\ \A p \in players : Moved(Moved(pos[p], first[p]), Two(second, p)) \in Tiles
          /\ pos' = [p \in Players |-> IF p \in players
                                      THEN Moved(Moved(pos[p], first[p]), Two(second, p))
                                      ELSE pos[p]]
          /\ steps' = [p \in Players |->
               IF p \in players THEN Turned(Turned(steps[p], first[p]), Two(second, p))
               ELSE steps[p]]
          /\ \E leaving \in SUBSET players :
               flags' = [p \in Players |->
                 IF p \in leaving THEN flags[p] \cup {"NeedsPlacement"} ELSE flags[p]]
          /\ slipped' = slipped \cup repeated
               \cup {p \in players : first[p][1] = Stand /\ first[p][2] # Stand}
    <2>1. PICK first \in [players -> Turns], second \in [repeated -> Turns] :
            LET Second(p) == IF p \in repeated THEN second[p] ELSE NoTurn
                Stands(p) == first[p] = NoTurn /\ Second(p) = NoTurn
                Target(p) == Moved(Moved(pos[p], first[p]), Second(p))
            IN  /\ \A p \in players : Target(p) \in Tiles
                /\ \A p \in players \cap entering : Stands(p)
                /\ pos' = [p \in Players |-> IF p \in players THEN Target(p) ELSE pos[p]]
                /\ steps' = [p \in Players |->
                     IF p \in players THEN Turned(Turned(steps[p], first[p]), Second(p)) ELSE steps[p]]
                /\ \E leaving \in SUBSET {p \in players : p \in entering \/ ~Stands(p)} :
                     flags' = [p \in Players |->
                       IF p \in leaving THEN flags[p] \cup {"NeedsPlacement"} ELSE flags[p]]
                /\ slipped' = slipped \cup repeated
                     \cup {p \in players : first[p][1] = Stand /\ first[p][2] # Stand}
      BY DEF Process
    <2>2. \E leaving \in SUBSET players :
            flags' = [p \in Players |->
              IF p \in leaving THEN flags[p] \cup {"NeedsPlacement"} ELSE flags[p]]
      BY <2>1
    <2> QED BY <2>1, <2>2
  <1>2. /\ phase = "process" /\ batch' = players /\ again' = repeated /\ todo' = players
        /\ phase' = "update" /\ missed' = missed \cup (world \ players)
        /\ early' = early \cup (players \cap entering)
        /\ world' = world /\ index' = index /\ entering' = entering /\ local' = local
        /\ view' = view /\ own' = own /\ lost' = lost /\ shown' = shown /\ blinked' = blinked
    BY DEF Process, registryVars, clientVars
  <1>3. batch = {} /\ todo = {} /\ blinked = {} /\ players \subseteq Players
    BY <1>2 DEF NoBatch, TypeOK
  \* The players
  <1>4. ASSUME NEW q \in Players, q \notin slipped'
        PROVE  pos'[q] = Plus(pos[q], Told(steps'[q]))
    <2>1. steps[q] = NoTurn /\ pos[q] \in Int \X Int
      BY <1>3, TilesAssumption DEF Still, TypeOK
    <2>2. CASE q \in players
      <3>1. first[q] \in (Int \X Int) \X (Int \X Int)
        BY <2>2, TurnsAssumption
      <3>2. q \notin repeated /\ (first[q][1] = Stand => first[q][2] = Stand)
        BY <1>1, <1>4, <2>2
      <3>3. /\ pos'[q] = Moved(Moved(pos[q], first[q]), NoTurn)
            /\ steps'[q] = Turned(Turned(NoTurn, first[q]), NoTurn)
        BY <1>1, <2>1, <2>2, <3>2
      <3> QED BY <2>1, <3>1, <3>2, <3>3, TurnTold
    <2>3. CASE q \notin players
      <3>1. pos'[q] = pos[q] /\ steps'[q] = NoTurn
        BY <1>1, <2>1, <2>3
      <3> QED BY <2>1, <3>1, NoneTold, PlusIs
    <2> QED BY <2>2, <2>3
  <1>5. \A p \in Players : p \notin players => steps'[p] = NoTurn
    BY <1>1, <1>3 DEF Still
  <1>6. \A p \in Players : flags[p] \subseteq flags'[p] /\ flags'[p] \subseteq flags[p] \cup {"NeedsPlacement"}
    BY <1>1
  <1>7. TypeOK'
    <2>1. pos' \in [Players -> Tiles]
      BY <1>1 DEF TypeOK
    <2>2. steps' \in [Players -> (Int \X Int) \X (Int \X Int)]
      <3>1. ASSUME NEW q \in players
            PROVE  Turned(Turned(steps[q], first[q]), Two(second, q)) \in (Int \X Int) \X (Int \X Int)
        <4>1. /\ steps[q] \in (Int \X Int) \X (Int \X Int)
              /\ first[q] \in (Int \X Int) \X (Int \X Int)
              /\ Two(second, q) \in (Int \X Int) \X (Int \X Int)
          BY <1>3, TurnsAssumption DEF TypeOK
        <4> HIDE DEF Two
        <4> QED BY <4>1, TurnedIs
      <3> QED BY <1>1, <3>1 DEF TypeOK
    <2>3. flags' \in [Players -> SUBSET Flags]
      BY <1>1 DEF TypeOK, Flags
    <2>4. slipped' \subseteq Players /\ missed' \subseteq Players /\ early' \subseteq Players
      BY <1>1, <1>2, <1>3 DEF TypeOK
    <2> QED BY <1>2, <1>3, <2>1, <2>2, <2>3, <2>4 DEF TypeOK
  <1>8. ListsProper' /\ Listed' /\ SlotsApart' /\ NoBatch'
    BY <1>2 DEF ListsProper, Listed, SlotsApart, NoBatch
  <1>9. Untouched'
    BY <1>2 DEF Untouched
  <1>10. Still'
    BY <1>2, <1>5 DEF Still
  <1>11. Exceptions'
    BY <1>1, <1>2 DEF Exceptions
  <1>12. ViewMatches'
    BY <1>2 DEF ViewMatches, Matched
  <1>13. ViewTracks'
    <2> SUFFICES ASSUME NEW p \in world, p \notin Astray' PROVE (PlacedWith(p) /\ OwnKnown(p))'
      BY <1>2 DEF ViewTracks
    <2>1. /\ p \in Players /\ p \in players /\ p \notin slipped' /\ p \notin Astray
          /\ PlacedWith(p) /\ OwnKnown(p) /\ Matched(p)
      BY <1>1, <1>2 DEF ViewTracks, ViewMatches, Astray, TypeOK
    <2>2. ASSUME lost[p] = "no", NEW i \in 1 .. Len(local[p]), local[p][i] \notin slipped'
          PROVE  Plus(view[p][i].pos, Told(steps'[local[p][i]])) = pos'[local[p][i]]
      <3>1. local[p][i] \in Players /\ local[p][i] \notin slipped
        BY <1>1, <2>1, <2>2, SMTT(30) DEF TypeOK
      <3>2. view[p][i].pos \in Int \X Int
        <4>1. view[p] \in Seq(Entries) /\ i \in 1 .. Len(view[p])
          BY <2>1, <2>2 DEF TypeOK, Matched
        <4>2. view[p][i] \in Entries
          BY <4>1
        <4> QED BY <4>2 DEF Entries
      <3>3. Plus(view[p][i].pos, Stand) = pos[local[p][i]]
        BY <1>3, <2>1, <2>2, <3>1 DEF PlacedWith, Untold
      <3>4. view[p][i].pos = pos[local[p][i]]
        BY <3>2, <3>3, PlusIs
      <3> QED BY <1>4, <2>2, <3>1, <3>4
    <2>3. PlacedWith(p)'
      BY <1>2, <2>1, <2>2 DEF PlacedWith, Untold
    <2>4. OwnKnown(p)'
      <3>1. CASE lost[p] # "no"
        BY <1>2, <3>1 DEF OwnKnown
      <3>2. CASE Plus(own[p], Untold(p, p)) = pos[p]
        <4>1. own[p] \in Int \X Int /\ Plus(own[p], Stand) = pos[p]
          BY <1>3, <2>1, <3>2 DEF TypeOK, Untold
        <4>2. own[p] = pos[p]
          BY <4>1, PlusIs
        <4>3. pos'[p] = Plus(own'[p], Told(steps'[p]))
          BY <1>2, <1>4, <2>1, <4>2
        <4> QED BY <1>2, <2>1, <4>3 DEF OwnKnown, Untold
      <3>3. CASE p \in entering \/ "NeedsPlacement" \in flags[p]
        BY <1>2, <1>6, <2>1, <3>3 DEF OwnKnown
      <3> QED BY <2>1, <3>1, <3>2, <3>3 DEF OwnKnown
    <2> QED BY <2>3, <2>4
  <1>14. ViewComplete' /\ AppearanceShown'
    BY <1>2 DEF ViewComplete, AppearanceShown
  <1>15. OwnAppearanceSent'
    BY <1>2, <1>6 DEF OwnAppearanceSent, TypeOK
  <1> QED BY <1>7, <1>8, <1>9, <1>10, <1>11, <1>12, <1>13, <1>14, <1>15

\* UpdatePlayer, with room in the list or not
LEMMA UpdateStep ==
  ASSUME Inv, NEW p \in Players,
         UpdatePlayer(p) \/ UpdatePlayerRehashed(p) \/ UpdatePlayerFull(p)
  PROVE  Inv'
  <1> USE DEF Inv
  <1>1. NextUpdate(p) /\ blinked \subseteq blinked' /\ blinked' \subseteq blinked \cup {p}
    BY DEF UpdatePlayer, UpdatePlayerRehashed, UpdatePlayerFull, AddAndSend
  <1>2. /\ phase = "update" /\ p \in todo /\ p \in batch
        /\ \/ p \in again /\ again' = again \ {p} /\ todo' = todo
           \/ p \notin again /\ todo' = todo \ {p} /\ again' = again
        /\ world' = world /\ index' = index /\ entering' = entering
        /\ pos' = pos /\ steps' = steps /\ flags' = flags /\ phase' = phase /\ batch' = batch
        /\ missed' = missed /\ slipped' = slipped /\ early' = early
    BY <1>1 DEF NextUpdate, registryVars, TypeOK
  <1>3. PICK new : /\ local' = [local EXCEPT ![p] = new]
                   /\ GoodList(p, new) /\ ClientAfter(p, new)
                   /\ p \in blinked' \/ WholeList(p, new)
    BY UpdateMade
  <1>4. /\ new \in Seq(Players) /\ Len(new) <= MaxLocal /\ Once(new) /\ ~Has(new, p)
        /\ \A i \in 1 .. Len(new) : Sees(p, new[i]) /\ index[new[i]] # -1
    BY <1>3 DEF GoodList, Has
  <1>5. /\ local' \in [Players -> Seq(Players)] /\ local'[p] = new
        /\ \A q \in Players : q # p => local'[q] = local[q]
    BY <1>3, <1>4 DEF TypeOK
  <1>6. /\ \A q \in Players :
             q # p => view'[q] = view[q] /\ lost'[q] = lost[q] /\ own'[q] = own[q]
        /\ view' \in [Players -> Seq(Entries)] /\ lost' \in [Players -> {"no"} \cup Losses]
        /\ own' \in [Players -> Int \X Int]
        /\ shown \subseteq shown' /\ shown' \subseteq shown \cup {p}
    BY <1>3 DEF ClientAfter
  <1>7. /\ lost[p] # "no" => lost'[p] = lost[p]
        /\ lost'[p] = "no" => own'[p] = OwnAfter(p)
        /\ lost'[p] = "no" /\ "Appearance" \in flags[p] => p \in shown'
    BY <1>3 DEF ClientAfter
  <1>8. todo' \subseteq todo /\ again' \subseteq again /\ again' \subseteq todo'
        /\ \A q \in Players : q # p => (q \in todo' <=> q \in todo)
    BY <1>2 DEF TypeOK
  <1>9. TypeOK'
    BY <1>1, <1>2, <1>5, <1>6, <1>8 DEF TypeOK
  <1>10. ListsProper'
    <2> SUFFICES ASSUME NEW q \in Players
                 PROVE  /\ Len(local'[q]) <= MaxLocal /\ q \notin Range(local'[q])
                        /\ Once(local'[q])
      BY DEF ListsProper, Once
    <2>1. CASE q = p
      BY <1>4, <1>5, <2>1, RangeIs
    <2>2. CASE q # p
      BY <1>5, <2>2 DEF ListsProper, Once
    <2> QED BY <2>1, <2>2
  <1>11. Untouched'
    <2>1. index[p] # -1
      BY <1>2 DEF Untouched, TypeOK
    <2> QED BY <1>2, <1>5, <1>6, <2>1 DEF Untouched
  <1>12. SlotsApart' /\ Still' /\ NoBatch' /\ Exceptions'
    BY <1>2, <1>8 DEF SlotsApart, Still, NoBatch, Exceptions
  <1>13. Listed'
    BY <1>2, <1>4, <1>5, ZenonT(60) DEF Listed
  <1>14. ViewMatches'
    <2> SUFFICES ASSUME NEW q \in Players PROVE Matched(q)'
      BY DEF ViewMatches
    <2>1. Matched(q)
      BY DEF ViewMatches
    <2>2. CASE q = p
      <3>1. lost'[p] # "size" /\ (lost'[p] = "no" => GoodSlots(view'[p], new))
        BY <1>3, <2>1, <2>2 DEF ClientAfter
      <3> QED BY <1>2, <1>5, <2>2, <3>1 DEF Matched, GoodSlots
    <2>3. CASE q # p
      BY <1>2, <1>5, <1>6, <2>1, <2>3 DEF Matched
    <2> QED BY <2>2, <2>3
  <1>15. ViewTracks'
    <2> SUFFICES ASSUME NEW q \in world, q \notin Astray PROVE (PlacedWith(q) /\ OwnKnown(q))'
      BY <1>2 DEF ViewTracks, Astray
    <2>1. q \in Players /\ PlacedWith(q) /\ OwnKnown(q) /\ Matched(q)
      BY DEF ViewTracks, ViewMatches, TypeOK
    <2>2. CASE q = p
      <3>1. p \notin again /\ p \notin entering /\ p \notin todo'
        BY <1>2, <2>2 DEF Exceptions, Astray
      <3>2. ASSUME lost'[p] = "no" PROVE OwnAfter(p) = pos[p]
        <4>1. lost[p] = "no"
          BY <1>7, <3>2
        <4>2. CASE "NeedsPlacement" \in flags[p]
          BY <4>2 DEF OwnAfter
        <4>3. CASE "NeedsPlacement" \notin flags[p]
          BY <1>2, <2>1, <2>2, <3>1, <4>1, <4>3 DEF OwnAfter, OwnKnown, Untold
        <4> QED BY <4>2, <4>3
      <3>3. pos[p] \in Int \X Int
        BY TilesAssumption DEF TypeOK
      <3>4. OwnKnown(p)'
        <4>1. CASE lost'[p] = "no"
          <5>1. Plus(own'[p], Stand) = pos'[p]
            BY <1>2, <1>7, <3>2, <3>3, <4>1, PlusIs
          <5> QED BY <3>1, <5>1 DEF OwnKnown, Untold
        <4>2. CASE lost'[p] # "no"
          BY <4>2 DEF OwnKnown
        <4> QED BY <4>1, <4>2
      <3>5. lost'[p] = "no" => GoodPlaces(view'[p], new)
        BY <1>2, <1>3, <2>1, <2>2, <3>2 DEF ClientAfter
      <3>6. ASSUME lost'[p] = "no", NEW i \in 1 .. Len(new), new[i] \notin slipped
            PROVE  Plus(view'[p][i].pos, Stand) = pos'[new[i]]
        <4>1. view'[p][i].pos = pos[new[i]]
          BY <3>5, <3>6 DEF GoodPlaces
        <4>2. pos[new[i]] \in Int \X Int
          <5>1. new[i] \in Players
            BY <1>4
          <5>2. pos[new[i]] \in Tiles
            BY <5>1 DEF TypeOK
          <5> QED BY <5>2, TilesAssumption
        <4> QED BY <1>2, <4>1, <4>2, PlusIs
      <3>7. PlacedWith(p)'
        BY <1>2, <1>5, <3>1, <3>6 DEF PlacedWith, Untold
      <3> QED BY <2>2, <3>4, <3>7
    <2>3. CASE q # p
      <3>1. q \in todo' <=> q \in todo
        BY <1>8, <2>1, <2>3
      <3> QED BY <1>2, <1>5, <1>6, <2>1, <2>3, <3>1 DEF PlacedWith, OwnKnown, Untold
    <2> QED BY <2>2, <2>3
  <1>16. ViewComplete'
    <2> SUFFICES ASSUME NEW q \in batch, q \notin todo'
                 PROVE  /\ \A r \in Range(local'[q]) : Sees(q, r)
                        /\ Len(local'[q]) < MaxLocal /\ q \notin blinked' =>
                             \A r \in (batch \cap world) \ {q} : Sees(q, r) => r \in Range(local'[q])
      BY <1>2 DEF ViewComplete, Sees
    <2>1. q \in Players
      BY DEF TypeOK
    <2>2. CASE q = p
      <3>1. \A r : r \in Range(new) <=> Has(new, r)
        BY <1>4, RangeIs
      <3> QED BY <1>3, <1>4, <1>5, <2>2, <3>1 DEF WholeList, Has
    <2>3. CASE q # p
      <3>1. q \notin todo /\ (q \notin blinked' => q \notin blinked) /\ local'[q] = local[q]
        BY <1>1, <1>5, <1>8, <2>1, <2>3
      <3> QED BY <1>2, <3>1 DEF ViewComplete
    <2> QED BY <2>2, <2>3
  <1>17. OwnAppearanceSent'
    BY <1>2, <1>6, <1>7 DEF OwnAppearanceSent, TypeOK
  <1>18. AppearanceShown'
    <2> SUFFICES ASSUME NEW q \in batch, q \notin todo', q \in world, q \notin early
                 PROVE  q \in shown' \/ lost'[q] # "no"
      BY <1>2 DEF AppearanceShown
    <2>1. CASE q = p
      <3>1. p \notin entering
        BY <2>1 DEF Exceptions
      <3> QED BY <1>2, <1>6, <1>7, <2>1, <3>1 DEF OwnAppearanceSent
    <2>2. CASE q # p
      BY <1>2, <1>6, <1>8, <2>2 DEF AppearanceShown, TypeOK
    <2> QED BY <2>1, <2>2
  <1> QED BY <1>9, <1>10, <1>11, <1>12, <1>13, <1>14, <1>15, <1>16, <1>17, <1>18

\* Player::Reset
LEMMA ResetStep ==
  ASSUME Inv, ResetAll
  PROVE  Inv'
  <1> USE DEF Inv
  <1>1. /\ phase = "update" /\ todo = {} /\ batch' = {} /\ blinked' = {} /\ phase' = "process"
        /\ steps' = [p \in Players |-> IF p \in batch THEN NoTurn ELSE steps[p]]
        /\ flags' = [p \in Players |-> IF p \in batch THEN {} ELSE flags[p]]
        /\ world' = world /\ index' = index /\ entering' = entering
        /\ pos' = pos /\ local' = local /\ again' = again /\ todo' = todo
        /\ view' = view /\ own' = own /\ lost' = lost /\ shown' = shown
        /\ missed' = missed /\ slipped' = slipped /\ early' = early
    BY DEF ResetAll, registryVars, clientVars
  <1>2. TypeOK'
    <2>1. steps' \in [Players -> (Int \X Int) \X (Int \X Int)]
      BY <1>1 DEF TypeOK, NoTurn, Stand
    <2>2. flags' \in [Players -> SUBSET Flags]
      BY <1>1 DEF TypeOK
    <2>3. again = {}
      BY <1>1 DEF TypeOK
    <2> QED BY <1>1, <2>1, <2>2, <2>3 DEF TypeOK
  <1>3. ListsProper' /\ Listed' /\ SlotsApart'
    BY <1>1 DEF ListsProper, Listed, SlotsApart
  <1>4. Untouched'
    BY <1>1 DEF Untouched
  <1>5. Still' /\ NoBatch' /\ Exceptions'
    BY <1>1 DEF Still, NoBatch, Exceptions
  <1>6. ViewMatches' /\ ViewComplete' /\ AppearanceShown'
    BY <1>1 DEF ViewMatches, Matched, ViewComplete, AppearanceShown
  <1>7. ViewTracks'
    <2> SUFFICES ASSUME NEW p \in world, p \notin Astray PROVE (PlacedWith(p) /\ OwnKnown(p))'
      BY <1>1 DEF ViewTracks, Astray
    <2>1. p \in Players /\ PlacedWith(p) /\ OwnKnown(p)
      BY DEF ViewTracks, TypeOK
    <2>2. PlacedWith(p)'
      BY <1>1, <2>1 DEF PlacedWith, Untold
    <2>3. p \notin batch => flags'[p] = flags[p]
      BY <1>1, <2>1 DEF TypeOK
    <2>4. OwnKnown(p)'
      BY <1>1, <2>1, <2>3 DEF OwnKnown, Untold
    <2> QED BY <2>2, <2>4
  <1>8. OwnAppearanceSent'
    <2> SUFFICES ASSUME NEW p \in world, p \notin entering, p \notin early,
                        "Appearance" \notin flags'[p]
                 PROVE  p \in shown \/ lost[p] # "no"
      BY <1>1 DEF OwnAppearanceSent
    <2>1. CASE p \in batch
      BY <1>1, <2>1 DEF AppearanceShown
    <2>2. CASE p \notin batch
      <3>1. "Appearance" \notin flags[p]
        BY <1>1, <2>2 DEF TypeOK
      <3> QED BY <3>1 DEF OwnAppearanceSent
    <2> QED BY <2>1, <2>2
  <1> QED BY <1>2, <1>3, <1>4, <1>5, <1>6, <1>7, <1>8

----------------------------------------------------------------------------
(* The theorems *)

\* The inductive invariant holds initially ...
LEMMA InvInit == Init => Inv
  <1> SUFFICES ASSUME Init PROVE Inv
    OBVIOUS
  <1>1. /\ world = {} /\ entering = {} /\ batch = {} /\ again = {} /\ todo = {}
        /\ phase = "process" /\ shown = {} /\ missed = {} /\ slipped = {} /\ early = {}
        /\ blinked = {}
        /\ index = [p \in Players |-> -1] /\ pos = [p \in Players |-> Start]
        /\ steps = [p \in Players |-> NoTurn] /\ flags = [p \in Players |-> {}]
        /\ local = [p \in Players |-> <<>>] /\ view = [p \in Players |-> <<>>]
        /\ own = [p \in Players |-> Elsewhere] /\ lost = [p \in Players |-> "no"]
    BY DEF Init
  <1>2. TypeOK
    <2>1. /\ <<>> \in Seq(Players) /\ <<>> \in Seq(Entries)
          /\ NoTurn \in (Int \X Int) \X (Int \X Int)
      BY DEF NoTurn, Stand
    <2> QED BY <1>1, <2>1, TilesAssumption DEF TypeOK
  <1>3. ListsProper
    BY <1>1, PlayersAssumption DEF ListsProper, Range
  <1>4. Untouched /\ SlotsApart /\ Listed /\ Still /\ NoBatch /\ Exceptions
    BY <1>1 DEF Untouched, SlotsApart, Listed, Still, NoBatch, Exceptions
  <1>5. ViewMatches
    BY <1>1 DEF ViewMatches, Matched
  <1>6. ViewTracks /\ ViewComplete /\ OwnAppearanceSent /\ AppearanceShown
    BY <1>1 DEF ViewTracks, ViewComplete, OwnAppearanceSent, AppearanceShown
  <1> QED BY <1>2, <1>3, <1>4, <1>5, <1>6 DEF Inv

\* ... and every step keeps it.
LEMMA InvNext == Inv /\ [Next]_vars => Inv'
  <1> SUFFICES ASSUME Inv, [Next]_vars PROVE Inv'
    OBVIOUS
  <1>1. ASSUME NEW p \in Players, Insert(p) PROVE Inv'
    BY <1>1, InsertStep
  <1>2. ASSUME NEW p \in Players, Login(p) PROVE Inv'
    BY <1>2, LoginStep
  <1>3. ASSUME NEW p \in Players, Logout(p) PROVE Inv'
    BY <1>3, LogoutStep
  <1>4. ASSUME ProcessAll PROVE Inv'
    <2>1. Process(world, {}) /\ world \in SUBSET world /\ {} \in SUBSET world
      BY <1>4 DEF ProcessAll
    <2> QED BY <2>1, ProcessStep
  <1>5. ASSUME ProcessRehashed PROVE Inv'
    <2>1. PICK players \in SUBSET world :
            \E repeated \in SUBSET players : Process(players, repeated)
      BY <1>5 DEF ProcessRehashed
    <2>2. PICK repeated \in SUBSET players : Process(players, repeated)
      BY <2>1
    <2> QED BY <2>2, ProcessStep
  <1>6. ASSUME NEW p \in Players,
               UpdatePlayer(p) \/ UpdatePlayerRehashed(p) \/ UpdatePlayerFull(p)
        PROVE  Inv'
    BY <1>6, UpdateStep
  <1>7. ASSUME ResetAll PROVE Inv'
    BY <1>7, ResetStep
  <1>8. ASSUME UNCHANGED vars PROVE Inv'
    <2>1. /\ world' = world /\ index' = index /\ entering' = entering
          /\ pos' = pos /\ steps' = steps /\ flags' = flags /\ local' = local
          /\ phase' = phase /\ batch' = batch /\ again' = again /\ todo' = todo
          /\ view' = view /\ own' = own /\ lost' = lost /\ shown' = shown
          /\ missed' = missed /\ slipped' = slipped /\ early' = early /\ blinked' = blinked
      BY <1>8 DEF vars
    <2>2. TypeOK' /\ ListsProper' /\ Untouched' /\ SlotsApart' /\ Listed' /\ Still' /\ NoBatch'
      BY <2>1 DEF Inv, TypeOK, ListsProper, Untouched, SlotsApart, Listed, Still, NoBatch
    <2>3. Exceptions' /\ ViewMatches' /\ OwnAppearanceSent' /\ AppearanceShown'
      BY <2>1 DEF Inv, Exceptions, ViewMatches, Matched, OwnAppearanceSent, AppearanceShown
    <2>4. ViewTracks'
      BY <2>1 DEF Inv, ViewTracks, PlacedWith, OwnKnown, Untold, Astray
    <2>5. ViewComplete'
      BY <2>1 DEF Inv, ViewComplete, Sees
    <2> QED BY <2>2, <2>3, <2>4, <2>5 DEF Inv
  <1> QED BY <1>1, <1>2, <1>3, <1>4, <1>5, <1>6, <1>7, <1>8 DEF Next, Tick, Registry

\* The inductive invariant holds in every state.
THEOREM Invariance == Spec => []Inv
  BY InvInit, InvNext, PTL DEF Spec

\* The types; every index GetFreeIndex gives is a slot.
THEOREM TypeCorrect == Spec => []TypeOK
  <1>1. Inv => TypeOK
    BY DEF Inv
  <1> QED BY <1>1, Invariance, PTL

\* A local list never holds a player twice, nor its own player, nor more than the limit,
\* however many players enter, leave, walk and are placed, and however often a rehash
\* makes the tick come to a player again.
THEOREM ListsAlwaysProper == Spec => []ListsProper
  <1>1. Inv => ListsProper
    BY DEF Inv
  <1> QED BY <1>1, Invariance, PTL

\* In every interleaving of ticks with registrations and removals, a client that reads its
\* packets has the server's list with the slots of its players; and if its own player is
\* not astray it shows every player that has not slipped where that player is: the
\* movements, the placements and the truncated relative positions of UpdatePlayer's
\* packets add up, for any turns within the limits of sight.
THEOREM ViewsInStep == Spec => []ViewInStep
  <1>1. Inv => ViewInStep
    <2> SUFFICES ASSUME Inv, NEW p \in Players
                 PROVE  /\ lost[p] # "size"
                        /\ lost[p] = "no" =>
                             /\ Len(view[p]) = Len(local[p])
                             /\ \A i \in 1 .. Len(local[p]) :
                                  /\ view[p][i].slot = index[local[p][i]]
                                  /\ p \in (Updated \cap world) \ Astray /\ local[p][i] \notin slipped =>
                                       view[p][i].pos = pos[local[p][i]]
      BY DEF ViewInStep
    <2>1. TypeOK /\ Matched(p)
      BY DEF Inv, ViewMatches
    <2>2. ASSUME lost[p] = "no", NEW i \in 1 .. Len(local[p]),
                 p \in (Updated \cap world) \ Astray, local[p][i] \notin slipped
          PROVE  view[p][i].pos = pos[local[p][i]]
      <3>1. p \notin todo
        BY <2>2 DEF Updated, Inv, NoBatch, TypeOK
      <3>2. PlacedWith(p)
        BY <2>2 DEF Inv, ViewTracks
      <3>3. Plus(view[p][i].pos, Stand) = pos[local[p][i]]
        BY <2>2, <3>1, <3>2 DEF PlacedWith, Untold
      <3>4. view[p] \in Seq(Entries) /\ i \in 1 .. Len(view[p])
        BY <2>1, <2>2 DEF TypeOK, Matched
      <3>5. view[p][i] \in Entries
        BY <3>4
      <3>6. view[p][i].pos \in Int \X Int
        BY <3>5 DEF Entries
      <3> QED BY <3>3, <3>6, PlusIs
    <2> QED BY <2>1, <2>2 DEF Matched
  <1> QED BY <1>1, Invariance, PTL

\* After its update a player sees nobody out of sight and, unless the list is full or a
\* rehash has disturbed the search, every player of the tick within sight who is still
\* online, whichever players log in and out between the updates.
THEOREM ViewsComplete == Spec => []ViewComplete
  <1>1. Inv => ViewComplete
    BY DEF Inv
  <1> QED BY <1>1, Invariance, PTL

\* The appearance flag of a player whose Login has ended, and that no tick has processed
\* before that, is gone only when the player's own client has been sent the appearance,
\* or cannot read packets any more.
THEOREM AppearancesSent == Spec => []OwnAppearanceSent
  <1>1. Inv => OwnAppearanceSent
    BY DEF Inv
  <1> QED BY <1>1, Invariance, PTL
=============================================================================
