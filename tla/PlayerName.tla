----------------------------- MODULE PlayerName -----------------------------
(***************************************************************************)
(* PlayerNameToInt64, the number that stands for a player's name, and its  *)
(* inverse, with which a client (external) shows the name.                 *)
(*                                                                         *)
(* The code counts in base 37: one for every letter, whatever its case,    *)
(* one for every digit, zero for anything else.  A name is the sequence of *)
(* its character codes, a uint64_t the sequence of its eight bytes, the    *)
(* most significant first.                                                 *)
(***************************************************************************)
EXTENDS Integers, Sequences, SequencesExt

Base == 37
MaxLength == 12

Zero == [i \in 1 .. 8 |-> 0]

CharacterValue(c) ==
  CASE c \in 65 .. 90 -> (1 + c) - 65
    [] c \in 97 .. 122 -> (1 + c) - 97
    [] c \in 48 .. 57 -> (27 + c) - 48
    [] OTHER -> 0

\* l * 37 + v in 64 bits, from the lowest byte: the carry out of the highest one is lost.
TimesPlus(l, v) ==
  LET times[k \in 0 .. 8] ==
        IF k = 0 THEN [carry |-> v, bytes |-> <<>>]
        ELSE LET before == times[k - 1]
                 n == l[9 - k] * Base + before.carry
             IN  [carry |-> n \div 256, bytes |-> <<n % 256>> \o before.bytes]
  IN  times[8].bytes

\* l / 37 and l % 37, from the highest byte.
Divided(l) ==
  LET divided[k \in 0 .. 8] ==
        IF k = 0 THEN [rest |-> 0, bytes |-> <<>>]
        ELSE LET before == divided[k - 1]
                 n == l[k] + 256 * before.rest
             IN  [rest |-> n % Base, bytes |-> Append(before.bytes, n \div Base)]
  IN  divided[8]

\* The characters that count.
Counted(name) == SubSeq(name, 1, Min({Len(name), MaxLength}))

\* Mutant: nothing is stripped.
StripsNever(l) == FALSE

\* The condition of the while loop.
Strips(l) == Divided(l).rest = 0 /\ l # Zero

\* The while loop: a number other than zero that stands for at most twelve characters is
\* divisible by 37 less than twelve times, so the loop ends within as many turns.
Stripped(l) ==
  LET turn[k \in 0 .. MaxLength] ==
        IF k = 0 THEN l
        ELSE LET n == turn[k - 1] IN IF Strips(n) THEN Divided(n).bytes ELSE n
  IN  turn[MaxLength]

PlayerNameToInt64(name) ==
  LET number[k \in 0 .. Len(Counted(name))] ==
        IF k = 0 THEN Zero ELSE TimesPlus(number[k - 1], CharacterValue(name[k]))
  IN  Stripped(number[Len(Counted(name))])

\* The client takes the number apart, the last character first, until nothing is left;
\* a number of 64 bits has at most thirteen digits in base 37.
NameOf(l) ==
  LET turn[k \in 0 .. MaxLength + 1] ==
        IF k = 0 THEN [left |-> l, name |-> <<>>]
        ELSE LET n == turn[k - 1]
             IN  IF n.left = Zero THEN n
                 ELSE [left |-> Divided(n.left).bytes, name |-> <<Divided(n.left).rest>> \o n.name]
  IN  turn[MaxLength + 1].name

\* What there is to see of a name: the values of the characters that count,
\* without the zeros around them.
Visible(name) ==
  LET values == [k \in 1 .. Len(Counted(name)) |-> CharacterValue(name[k])]
      places == {k \in DOMAIN values : values[k] # 0}
  IN  IF places = {} THEN <<>> ELSE SubSeq(values, Min(places), Max(places))
=============================================================================
