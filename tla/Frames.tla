------------------------------- MODULE Frames -------------------------------
(***************************************************************************)
(* The byte layout of the TCP transport's frames, as functions on          *)
(* sequences of bytes.  Base is the number of values of a byte (256 in the *)
(* code); the other constants of the code keep their place relative to it. *)
(***************************************************************************)
EXTENDS Integers, Sequences

CONSTANTS
    Base,       \* values of a byte
    MaxFrame    \* maxTCPFrameSize

ASSUME BaseAssumption == Base \in Nat /\ Base >= 4 /\ Base % 2 = 0
ASSUME MaxFrameAssumption == MaxFrame \in Nat

Byte == 0 .. Base - 1
HighBit == Base \div 2              \* 0x80
PongPrefix == 0
ExtendedPrefix == HighBit - 1       \* 0x7f
RawPrefix == Base - 1               \* 0xff
RawCodeFin == Base - 1              \* 0xff

----------------------------------------------------------------------------
(* Numbers.                                                                *)

\* binary.BigEndian on a field of any width.
BigEndian(b) ==
    LET value[i \in 0 .. Len(b)] == IF i = 0 THEN 0 ELSE value[i - 1] * Base + b[i]
    IN  value[Len(b)]

\* The low 16 bits of n, big endian.
Uint16(n) == <<(n \div Base) % Base, n % Base>>

Little3(n) == <<n % Base, (n \div Base) % Base, (n \div (Base * Base)) % Base>>

----------------------------------------------------------------------------
(* Abridged frames.                                                        *)

Padding(n) == (4 - (n % 4)) % 4
PaddedQuads(n) == (n + Padding(n)) \div 4

Zeros(n) == [i \in 1 .. n |-> 0]

\* The boundary off by one.
AbridgedHeaderLate(q) ==
    IF q <= ExtendedPrefix THEN <<q>> ELSE <<ExtendedPrefix, Little3(q)[1], Little3(q)[2], Little3(q)[3]>>

\* The header for q groups of four bytes; q is cut to 24 bits.
AbridgedHeader(q) ==
    IF q < ExtendedPrefix THEN <<q>> ELSE <<ExtendedPrefix, Little3(q)[1], Little3(q)[2], Little3(q)[3]>>

EncodeAbridged(payload) ==
    AbridgedHeader(PaddedQuads(Len(payload))) \o payload \o Zeros(Padding(Len(payload)))

\* readAbridgedLength: the header's size, and the groups of four it announces.
AbridgedHeaderSize(prefix) == IF prefix = ExtendedPrefix THEN 4 ELSE 1
AbridgedQuads(b) ==
    IF b[1] = ExtendedPrefix
    THEN b[2] + b[3] * Base + b[4] * Base * Base
    ELSE b[1]

\* The trailing zero bytes of b, three at most.
TrailingZeros(b) ==
    CHOOSE k \in 0 .. 3 :
        /\ k <= Len(b) /\ \A i \in 1 .. k : b[Len(b) - i + 1] = 0
        /\ k < 3 /\ k < Len(b) => b[Len(b) - k] # 0

\* How the gateway drops the padding (trimAbridgedPadding).
TrimAbridgedPadding(b) == SubSeq(b, 1, Len(b) - TrailingZeros(b))
=============================================================================
