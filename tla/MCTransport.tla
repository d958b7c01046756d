---------------------------- MODULE MCTransport -----------------------------
(***************************************************************************)
(* The encodings: Transport with bytes of sixteen values, and Utf16 and    *)
(* Snowflake, each a part that the behaviour is one of.                    *)
(***************************************************************************)
EXTENDS Transport

CONSTANTS Plane, High, Half, MaxText, MaxSub, SeqBits, FieldBits, MaxClock, MaxIds

\* Neither a plain character nor a pair of the alphabet is a surrogate.
ASSUME TextAssumption ==
    /\ Plane \in Nat /\ High \in Nat /\ Half \in Nat
    /\ High > 1 /\ Half > 1 /\ High + 2 * Half <= Plane

\* Go's fields are 12 and 5 bits wide.
ASSUME IdsAssumption == SeqBits \in Nat /\ FieldBits \in Nat /\ FieldBits >= 1

VARIABLES
    part,
    text, sub,
    clock, last, seq, ids, count, repeated, back, full

textVars == <<text, sub>>
idVars == <<clock, last, seq, ids, count, repeated, back, full>>

T == INSTANCE Utf16
S == INSTANCE Snowflake

\* n bytes that encode an envelope: fields of at most fifteen bytes, the last of
\* which ends in zeros.
Field(n, zeros) == <<2, n - 2>> \o [i \in 1 .. n - 2 |-> IF i > n - 2 - zeros THEN 0 ELSE 5]

Small == {<<1, 5>>, <<2, 0>>, <<1, 5, 2, 0>>, <<2, 3, 0, 0, 0>>}

\* Around the extended header: 24 bytes are the last with a short one.
Medium == {Field(12, 0) \o Field(12, 0), Field(12, 0) \o Field(13, 2), Field(12, 0) \o Field(17, 1)}

\* The WebSocket length of eight bytes, at the frame limit and above it.
Large ==
    LET sixteen == FoldLeft(LAMBDA s, i : s \o Field(16, 0), <<>>, [i \in 1 .. 16 |-> i])
    IN  {sixteen \o <<1, 5, 1, 0>>, sixteen \o <<1, 5, 1, 5, 1, 0>>}

MCEnvelopes == Small \cup Medium \cup Large
MCTokens == {<<5, 5, 5>>, Field(12, 0) \o Field(17, 0)}
MCBodies == {<<>>, <<15, 5, 0>>}

\* Texts of plain characters and pairs that share a high or a low surrogate.
Alphabet == {0, 1, Plane, Plane + 1, Plane + Half}
Texts(n) == UNION {[1 .. k -> Alphabet] : k \in 0 .. n}

\* A wire on which nothing happens.
Quiet == Init /\ kind = "websocket" /\ written[1].token = CHOOSE t \in Tokens : TRUE

MCInit ==
    /\ S!Init
    /\ \/ part = "wire" /\ Init /\ text = <<>> /\ sub = <<>>
       \/ part = "ids" /\ Quiet /\ text = <<>> /\ sub = <<>>
       \/ part = "text" /\ Quiet /\ text \in Texts(MaxText) /\ sub \in Texts(MaxSub)

MCNext ==
    \/ part = "wire" /\ Next /\ UNCHANGED <<part, textVars, idVars>>
    \/ part = "ids" /\ S!Next /\ UNCHANGED <<part, textVars, vars>>

MCSpec == MCInit /\ [][MCNext]_<<part, textVars, idVars, vars>>

----------------------------------------------------------------------------
\* Utf16.OffsetsAgree: lengths, positions and spans are those of the encoded text.
OffsetsAgree == part = "text" => T!OffsetsAgree(text, sub)
\* Snowflake.UniqueIds: no id twice while the clock and the sequence allow it.
UniqueIds == part = "ids" => S!UniqueIds
=============================================================================
