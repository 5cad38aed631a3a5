------------------------------ MODULE MCUartTx ------------------------------
(***************************************************************************)
(* A ring of a few characters and messages that are shorter than it and as *)
(* long as it: literals, strings and padded numbers.                       *)
(***************************************************************************)
EXTENDS UartTx

Literal(n) == [i \in 1 .. n |-> [kind |-> "plain", n |-> 1, width |-> 0]]
Str(n) == [kind |-> "S", n |-> n, width |-> 0]
Char == [kind |-> "c", n |-> 1, width |-> 0]
Number(d, w) == [kind |-> "u", n |-> d, width |-> w]

MCPieces ==
    [kind : {"plain", "c"}, n : {1}, width : {0}] \cup [kind : {"S"}, n : 0 .. 4, width : {0}]
    \cup [kind : {"u"}, n : 1 .. 3, width : 0 .. 3]
MCFormats == {Literal(1), Literal(2) \o <<Str(3)>>, <<Number(1, 3), Char>> \o Literal(1)}
MCFormatsC == {Literal(1), Literal(3)}
=============================================================================
