-------------------------------- MODULE Bits --------------------------------
(***************************************************************************)
(* Go's <<, | and ^ on non-negative integers, bit by bit from the lowest,  *)
(* as recursive functions (those of the community's Bitwise are recursive  *)
(* operators, which no proof can use).                                     *)
(***************************************************************************)
EXTENDS Integers

ShiftLeft(x, n) ==
    LET shifted[i \in 0 .. n] == IF i = 0 THEN x ELSE 2 * shifted[i - 1]
    IN  shifted[n]

Or(x, y) ==
    LET or[a \in 0 .. x] ==
            [b \in 0 .. y |-> IF a = 0 \/ b = 0 THEN a + b
                              ELSE 2 * or[a \div 2][b \div 2] + (IF (a % 2) + (b % 2) > 0 THEN 1 ELSE 0)]
    IN  or[x][y]

Xor(x, y) ==
    LET xor[a \in 0 .. x] ==
            [b \in 0 .. y |-> IF a = 0 \/ b = 0 THEN a + b
                              ELSE 2 * xor[a \div 2][b \div 2] + ((a + b) % 2)]
    IN  xor[x][y]
=============================================================================
