------------------------------- MODULE Utf16 --------------------------------
(***************************************************************************)
(* The offsets of a message (utf16.go): lengths, positions and mention     *)
(* spans in UTF-16 code units of a text that Go keeps as runes.            *)
(***************************************************************************)
EXTENDS Integers, Sequences

CONSTANTS
    Plane,      \* 16^4: runes from here on need two code units
    High,       \* 16^3 * 13 + 16^2 * 8: the first high surrogate
    Half        \* 4 * 16^2: the high surrogates; as many low ones follow

\* What []rune(s) yields: the surrogates are not runes.
Rune == (0 .. Plane + Half * Half - 1) \ (High .. High + 2 * Half - 1)

\* unicode/utf16 (external): one code unit, or a high and a low surrogate.
Units(r) ==
    IF r < Plane THEN <<r>>
    ELSE <<High + (r - Plane) \div Half, High + Half + ((r - Plane) % Half)>>

UnitCount(r) == IF r >= Plane THEN 2 ELSE 1

UTF16Len(s) ==
    LET n[i \in 0 .. Len(s)] == IF i = 0 THEN 0 ELSE n[i - 1] + UnitCount(s[i])
    IN  n[Len(s)]

UTF16Encode(s) ==
    LET units[i \in 0 .. Len(s)] == IF i = 0 THEN <<>> ELSE units[i - 1] \o Units(s[i])
    IN  units[Len(s)]

\* The loop stops at the index, or at the end of the text.
RuneIndexToUTF16(s, i) == UTF16Len(SubSeq(s, 1, IF i > Len(s) THEN Len(s) ELSE i))

\* Where sub is found in s, counted from 0.
Matches(s, sub) ==
    {i \in 0 .. Len(s) - Len(sub) : \A j \in DOMAIN sub : s[i + j] = sub[j]}
First(S) == CHOOSE i \in S : \A j \in S : i <= j

\* A sub at the very end of the text is not found.
SearchShort(s, sub) == Matches(s, sub) \ {Len(s) - Len(sub)}
Search(s, sub) == Matches(s, sub)

\* The span of the first occurrence, the end excluded, as the only element; {}: not ok.
MentionSpan(text, sub) ==
    LET units == UTF16Encode(text)
        subUnits == UTF16Encode(sub)
        found == Search(units, subUnits)
    IN  IF subUnits = <<>> \/ found = {} THEN {}
        ELSE {<<First(found), First(found) + Len(subUnits)>>}

----------------------------------------------------------------------------
\* A length or a position computed from runes is the one in the encoded text,
\* before, in and behind it.
PositionsAgree(text) ==
    /\ UTF16Len(text) = Len(UTF16Encode(text))
    /\ \A i \in -1 .. Len(text) + 1 :
          LET upto == IF i > Len(text) THEN Len(text) ELSE i
          IN  RuneIndexToUTF16(text, i) = Len(UTF16Encode(SubSeq(text, 1, upto)))

\* The search in code units finds the first occurrence of the runes and nothing
\* else: it never starts or ends between the surrogates of a pair.
SpanAligned(text, sub) ==
    LET runes == Matches(text, sub)
    IN  MentionSpan(text, sub) =
            IF sub = <<>> \/ runes = {} THEN {}
            ELSE LET start == RuneIndexToUTF16(text, First(runes))
                 IN  {<<start, start + UTF16Len(sub)>>}

\* "the value JS would report for that position": lengths, positions and mention
\* spans are those of the encoded text, also behind and between surrogate pairs.
OffsetsAgree(text, sub) == PositionsAgree(text) /\ SpanAligned(text, sub)
=============================================================================
