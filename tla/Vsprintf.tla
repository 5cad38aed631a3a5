------------------------------ MODULE Vsprintf ------------------------------
(***************************************************************************)
(* kl_vsprintf (kl_lib/kl_sprintf.c): the loop over a format string that   *)
(* puts characters into the transmit ring and counts them, up to MaxLength *)
(* of them.  A format is a sequence of pieces; of a piece only the number  *)
(* of characters it asks for is kept.  MaxLength and the counter are       *)
(* unsigned: their width is Word, a power of two (2^32 in the code).       *)
(***************************************************************************)
EXTENDS Integers, Sequences

CONSTANTS Word, Pieces

Kinds == {"plain", "c", "S", "u"}    \* a literal, %c and %%, %S, %u and %X

\* n: the characters asked for; width: the field of %u.
ASSUME WordAssumption == Word \in Nat \ {0}
ASSUME PiecesAssumption ==
    /\ Pieces \subseteq [kind : Kinds, n : Nat, width : Nat]
    /\ \A p \in Pieces : p.kind # "S" => p.n >= 1

Least(a, b) == IF a <= b THEN a ELSE b
Greatest(a, b) == IF a >= b THEN a ELSE b
Length(p) == CASE p.kind = "u" -> Greatest(p.n, p.width)
               [] p.kind = "S" -> p.n
               [] OTHER -> 1

\* The loop's state: characters put, CharCnt, and whether it has reached End.
Begun == [put |-> 0, count |-> 0, ended |-> FALSE]
Step(r, n, counted, ends) ==
    [put |-> r.put + n, count |-> (r.count + counted) % Word, ended |-> ends]

\* A slip: the loop ends one character before the limit.
PlainEarly(r, max) == Step(r, 1, 1, r.count + 2 >= max)

\* if(c != '%'): the limit is looked at after the character.
Plain(r, max) == Step(r, 1, 1, r.count + 1 >= max)

\* %S: CharCnt++ is done once more when the string is cut.
String(r, n, max) ==
    LET fits == IF r.count >= max THEN 0 ELSE Least(n, max - r.count)
    IN Step(r, fits, IF fits < n THEN fits + 1 ELSE fits, FALSE)

\* IPutUint: the padding may use up the limit; the digits get what is left.
Uint(r, digits, width, max) ==
    LET pad == IF width > digits THEN width - digits ELSE 0
        room == Greatest(1, max - r.count)
        left == (max - (r.count + pad)) % Word
    IN IF pad >= room THEN Step(r, room, room, FALSE)
       ELSE Step(r, pad + Least(digits, left), pad + Least(digits, left), FALSE)

\* One turn of the loop.
Turn(r, p, max) ==
    IF r.ended THEN r
    ELSE CASE p.kind = "plain" -> Plain(r, max)
           [] p.kind = "c" -> Step(r, 1, 1, FALSE)
           [] p.kind = "S" -> String(r, p.n, max)
           [] p.kind = "u" -> Uint(r, p.n, p.width, max)

\* The whole call: what is put and what is returned.
kl_vsprintf(max, fmt) ==
    LET run[i \in 0 .. Len(fmt)] == IF i = 0 THEN Begun ELSE Turn(run[i - 1], fmt[i], max)
    IN run[Len(fmt)]

\* What a format asks for.
LengthOf(fmt) ==
    LET sum[i \in 0 .. Len(fmt)] == IF i = 0 THEN 0 ELSE sum[i - 1] + Length(fmt[i])
    IN sum[Len(fmt)]
=============================================================================
