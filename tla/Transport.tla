----------------------------- MODULE Transport ------------------------------
(***************************************************************************)
(* The wire between DefaultSocket and the gateway (transport.go): what     *)
(* dialTCP, writeEnvelope and writePing put on it, what readFrame takes    *)
(* off it, and unmarshalEnvelope, which finds out by trial how much of an  *)
(* abridged payload is padding.  The TCP stream mixes four layouts, told   *)
(* apart by their first byte; a reader that loses its place never finds    *)
(* it again.  The gateway is external: it writes the layouts the tests'    *)
(* fake server writes, and strips padding as trimAbridgedPadding does.     *)
(***************************************************************************)
EXTENDS Frames, Bits, SequencesExt

CONSTANTS
    OpMod,              \* the opcodes of a WebSocket frame are below it (16)
    OpClose,            \* wsOpClose; wsOpText and wsOpBinary are 1 and 2
    HandshakePrefix,    \* tcpHandshakePrefix
    Tokens,             \* session tokens
    Envelopes,          \* encoded envelopes
    Bodies,             \* bodies of API chunks
    Ops,                \* opcodes the gateway uses
    Cids,               \* cids of pings and API requests
    Codes,              \* response codes
    MaxFrames,          \* bound: frames written in a behaviour
    MaxLost             \* bound: bytes in flight lost by a cut

OpText == 1
OpBinary == 2
MaskKey == <<1, 2, 3, 4>>

ASSUME BytesAssumption ==
    Base >= 6 /\ MaxFrame % 4 = 0 /\ MaxFrame < Base * Base * Base * Base

ASSUME OpsAssumption ==
    /\ OpMod \in Nat \ {0} /\ HighBit % OpMod = 0
    /\ \A op \in Ops : op \in 0 .. OpMod - 1 /\ HighBit + op < RawPrefix
    /\ OpClose \notin {OpText, OpBinary}

ASSUME BoundsAssumption == MaxFrames \in Nat /\ MaxLost \in Nat

VARIABLES
    kind,       \* the transport: "tcp" or "websocket"
    up,         \* written by the SDK, not read by the gateway
    down,       \* written by the gateway, not read by readLoop
    cut,        \* the connection is lost
    reading,    \* readLoop runs
    written,    \* what the SDK sent
    received,   \* what the gateway made of it
    sent,       \* what the gateway sent
    got         \* what readLoop made of it

vars == <<kind, up, down, cut, reading, written, received, sent, got>>

----------------------------------------------------------------------------
(* Protocol buffers, as far as padding matters (external): a field starts  *)
(* with a tag, which is never zero, and says how long it is.               *)

\* Tag 1: a varint of one byte; tag 2: a length and as many bytes; tag 3: the
\* first byte of a two-byte tag of an unknown varint field.
FieldSize(b, i) ==
    CASE b[i] = 1 -> 2
      [] b[i] = 2 /\ i < Len(b) -> 2 + b[i + 1]
      [] b[i] = 3 -> 3
      [] OTHER -> Len(b) + 1

FieldEnd(b, i) == i + FieldSize(b, i)
KnownField(b, i) == IF b[i] = 3 THEN <<>> ELSE <<SubSeq(b, i, FieldEnd(b, i) - 1)>>

\* The known fields of b, as the only element of the set; {} if b is malformed.
Unmarshal(b) ==
    LET from[i \in 1 .. Len(b) + 1] ==
            IF i > Len(b) THEN {<<>>}
            ELSE IF FieldEnd(b, i) > Len(b) + 1 THEN {}
            ELSE {KnownField(b, i) \o rest : rest \in from[FieldEnd(b, i)]}
    IN  from[1]

\* The payload as it is, then with one, two and three trailing zeros less.
UnmarshalEnvelope(b, padded) ==
    LET trials == IF padded THEN 0 .. TrailingZeros(b) ELSE {0}
        ok == {k \in trials : Unmarshal(SubSeq(b, 1, Len(b) - k)) # {}}
    IN  IF ok = {} THEN {} ELSE Unmarshal(SubSeq(b, 1, Len(b) - Min(ok)))

\* What the code leaves unchecked: an envelope is valid and not empty, a token does
\* not end in zero, and each fits the 24 bits of the extended length.
Fits(n) == n + 6 < 4 * (Base * Base * Base)

ASSUME PayloadAssumption ==
    /\ \A d \in Envelopes : d \in Seq(Byte) /\ d # <<>> /\ Unmarshal(d) # {} /\ Fits(Len(d))
    /\ \A t \in Tokens : t \in Seq(Byte) /\ t # <<>> /\ Last(t) # 0 /\ Fits(Len(t))

ASSUME ChunkAssumption ==
    /\ \A b \in Bodies : b \in Seq(Byte) /\ Len(b) <= MaxFrame
    /\ Codes \subseteq 0 .. Base * Base - 1 /\ Cids \subseteq Nat

----------------------------------------------------------------------------
(* Reading a frame (tcpConn.readFrameOnce).  s is the stream from the      *)
(* frame's first byte on.                                                  *)

IsWs(s) == s[1] >= HighBit /\ s[1] # RawPrefix
Opcode(s) == s[1] % OpMod
WsLengthSize(s) ==
    CASE s[2] % HighBit = HighBit - 2 -> 2
      [] s[2] % HighBit = HighBit - 1 -> 8
      [] OTHER -> 0
Masked(s) == s[2] >= HighBit

HeaderSize(s) ==
    CASE s[1] = PongPrefix -> 3
      [] s[1] = RawPrefix -> 11
      [] IsWs(s) /\ Len(s) = 1 -> 2
      [] IsWs(s) /\ Len(s) > 1 -> 2 + WsLengthSize(s) + (IF Masked(s) THEN 4 ELSE 0)
      [] OTHER -> AbridgedHeaderSize(s[1])

PayloadSize(s) ==
    CASE s[1] = PongPrefix -> 0
      [] s[1] = RawPrefix -> BigEndian(SubSeq(s, 8, 11))
      [] IsWs(s) -> IF WsLengthSize(s) = 0 THEN s[2] % HighBit
                    ELSE BigEndian(SubSeq(s, 3, 2 + WsLengthSize(s)))
      [] OTHER -> 4 * AbridgedQuads(s)

HasHeader(s) == Len(s) > 0 /\ Len(s) >= HeaderSize(s)
Oversize(s) == HasHeader(s) /\ PayloadSize(s) > MaxFrame
HasFrame(s) == HasHeader(s) /\ ~Oversize(s) /\ Len(s) >= HeaderSize(s) + PayloadSize(s)
Payload(s) == SubSeq(s, HeaderSize(s) + 1, HeaderSize(s) + PayloadSize(s))
Rest(s) == SubSeq(s, HeaderSize(s) + PayloadSize(s) + 1, Len(s))

Unmask(s) ==
    IF Masked(s) THEN [i \in 1 .. PayloadSize(s) |->
                          Xor(Payload(s)[i], s[HeaderSize(s) - 3 + ((i - 1) % 4)])]
    ELSE Payload(s)

\* An API chunk: cid, code and fin flag in 16 bits each.
Chunk(s, header) ==
    [kind |-> "chunk", cid |-> BigEndian(SubSeq(s, 2, 3)), code |-> BigEndian(SubSeq(s, 4, 5)),
     fin |-> BigEndian(SubSeq(s, 6, 7)) = RawCodeFin, body |-> SubSeq(s, header + 1, Len(s))]

\* What the frame at the head of s becomes: nothing for a control frame, and for
\* an envelope that cannot be decoded.
Frame(s) ==
    LET envelope(b, padded) == {[kind |-> "envelope", fields |-> f] : f \in UnmarshalEnvelope(b, padded)}
    IN  CASE s[1] = PongPrefix -> {[kind |-> "pong", cid |-> BigEndian(SubSeq(s, 2, 3))]}
          [] s[1] = RawPrefix -> {Chunk(SubSeq(s, 1, 11 + PayloadSize(s)), 11)}
          [] IsWs(s) -> IF Opcode(s) \in {OpText, OpBinary} THEN envelope(Unmask(s), FALSE) ELSE {}
          [] OTHER -> envelope(Payload(s), TRUE)

\* readFrameOnce; a close frame ends the stream, another control frame is consumed.
ReadFrame ==
    /\ kind = "tcp" /\ reading /\ HasFrame(down)
    /\ got' = got \o SetToSeq(Frame(down))
    /\ down' = Rest(down)
    /\ reading' = ~(IsWs(down) /\ Opcode(down) = OpClose)
    /\ UNCHANGED <<kind, up, cut, written, received, sent>>

\* The frame is announced as too long, or the stream ends inside it.
ReadFails ==
    /\ reading
    /\ IF kind = "tcp" THEN Oversize(down) \/ (cut /\ ~HasFrame(down)) ELSE cut /\ down = <<>>
    /\ reading' = FALSE
    /\ UNCHANGED <<kind, up, down, cut, written, received, sent, got>>

\* wsConn.readFrame: a message is a chunk without a length, or an envelope.
WsReadFrame ==
    /\ kind = "websocket" /\ reading /\ down # <<>>
    /\ LET m == Head(down)
       IN  got' = got \o
               (IF Len(m) > 0 /\ m[1] = RawPrefix
                THEN IF Len(m) < 7 THEN <<>> ELSE <<Chunk(m, 7)>>
                ELSE SetToSeq({[kind |-> "envelope", fields |-> f] : f \in UnmarshalEnvelope(m, FALSE)}))
    /\ down' = Tail(down)
    /\ UNCHANGED <<kind, up, cut, reading, written, received, sent>>

----------------------------------------------------------------------------
(* Writing.                                                                *)

\* dialTCP starts with the session's token; the WebSocket has it in its URL.
Init ==
    /\ kind \in {"tcp", "websocket"}
    /\ \E token \in Tokens :
        /\ up = IF kind = "tcp" THEN <<HandshakePrefix>> \o EncodeAbridged(token) ELSE <<>>
        /\ written = <<[kind |-> "token", token |-> token]>>
        /\ received = IF kind = "tcp" THEN <<>> ELSE <<[kind |-> "token", token |-> token]>>
    /\ down = <<>> /\ cut = FALSE /\ reading = TRUE
    /\ sent = <<>> /\ got = <<>>

May == ~cut /\ Len(sent) + Len(written) < MaxFrames

\* Without the guard against trimming.
GuardedNot(data) == data

\* A payload that ends in zero gets an unknown field of three bytes appended.
Guarded(data) == IF Len(data) > 0 /\ Last(data) = 0 THEN data \o <<3, 1, 1>> ELSE data

WriteEnvelope(data) ==
    /\ May
    /\ up' = IF kind = "tcp" THEN up \o EncodeAbridged(Guarded(data)) ELSE Append(up, data)
    /\ \E f \in Unmarshal(data) : written' = Append(written, [kind |-> "envelope", fields |-> f])
    /\ UNCHANGED <<kind, down, cut, reading, received, sent, got>>

\* Heartbeats have a frame of their own on TCP only.
WritePing(cid) ==
    /\ May
    /\ kind = "tcp"
    /\ up' = up \o (<<PongPrefix>> \o Uint16(cid))
    /\ written' = Append(written, [kind |-> "ping", cid |-> cid])
    /\ UNCHANGED <<kind, down, cut, reading, received, sent, got>>

----------------------------------------------------------------------------
(* The gateway (external).                                                 *)

Uint32(n) == Uint16(n \div (Base * Base)) \o Uint16(n)

ChunkHeader(x) ==
    <<RawPrefix>> \o Uint16(x.cid) \o Uint16(x.code) \o Uint16(IF x.fin THEN RawCodeFin ELSE 0)

GatewayChunk(x) ==
    /\ May
    /\ down' = IF kind = "tcp" THEN down \o (ChunkHeader(x) \o Uint32(Len(x.body)) \o x.body)
               ELSE Append(down, ChunkHeader(x) \o x.body)
    /\ sent' = Append(sent, x)
    /\ UNCHANGED <<kind, up, cut, reading, written, received, got>>

\* A frame that carries data, for the history: nothing over the limit is delivered.
Sent(what, data) ==
    \E f \in Unmarshal(data) :
        sent' = Append(sent, [kind |-> IF kind = "tcp" /\ Len(data) > MaxFrame THEN "long" ELSE what,
                              fields |-> f])

\* An envelope with a cid, abridged on TCP.
GatewayReply(data) ==
    /\ May
    /\ down' = IF kind = "tcp" THEN down \o EncodeAbridged(data) ELSE Append(down, data)
    /\ Sent("envelope", data)
    /\ UNCHANGED <<kind, up, cut, reading, written, received, got>>

\* A WebSocket frame on the TCP stream.
WsLength(n, bit) ==
    CASE n < HighBit - 2 -> <<bit + n>>
      [] n >= HighBit - 2 /\ n < Base * Base -> <<bit + HighBit - 2>> \o Uint16(n)
      [] OTHER -> <<bit + HighBit - 1>> \o Zeros(4) \o Uint32(n)

Mask(b, key) == [i \in 1 .. Len(b) |-> Xor(b[i], key[((i - 1) % 4) + 1])]

EncodeWs(op, data, masked) ==
    <<HighBit + op>> \o
        (IF masked THEN WsLength(Len(data), HighBit) \o MaskKey \o Mask(data, MaskKey)
         ELSE WsLength(Len(data), 0) \o data)

\* A pushed envelope, or a control frame.
GatewayPush(op, data, masked) ==
    /\ May
    /\ kind = "tcp"
    /\ down' = down \o EncodeWs(op, data, masked)
    /\ Sent(CASE op \in {OpText, OpBinary} -> "envelope" [] op = OpClose -> "close" [] OTHER -> "ping",
            data)
    /\ UNCHANGED <<kind, up, cut, reading, written, received, got>>

\* The token is read first; a ping is answered, an envelope trimmed and decoded.
GatewayReads ==
    LET s == IF received = <<>> THEN Tail(up) ELSE up
        payload == TrimAbridgedPadding(Payload(s))
    IN  /\ kind = "tcp" /\ up # <<>> /\ HasFrame(s)
        /\ up' = Rest(s)
        /\ CASE received = <<>> ->
                    /\ received' = <<[kind |-> "token", token |-> payload]>>
                    /\ UNCHANGED <<down, sent>>
             [] received # <<>> /\ s[1] = PongPrefix ->
                    /\ received' = Append(received, [kind |-> "ping", cid |-> BigEndian(SubSeq(s, 2, 3))])
                    /\ down' = IF cut THEN down ELSE down \o SubSeq(s, 1, 3)
                    /\ sent' = IF cut THEN sent
                               ELSE Append(sent, [kind |-> "pong", cid |-> BigEndian(SubSeq(s, 2, 3))])
             [] OTHER ->
                    /\ received' = received \o SetToSeq({[kind |-> "envelope", fields |-> f] :
                                                            f \in Unmarshal(payload)})
                    /\ UNCHANGED <<down, sent>>
        /\ UNCHANGED <<kind, cut, reading, written, got>>

GatewayReadsMessage ==
    /\ kind = "websocket" /\ up # <<>>
    /\ up' = Tail(up)
    /\ received' = received \o SetToSeq({[kind |-> "envelope", fields |-> f] : f \in Unmarshal(Head(up))})
    /\ UNCHANGED <<kind, down, cut, reading, written, sent, got>>

\* The connection is lost, and with it the end of what was in flight.
Cut ==
    /\ ~cut
    /\ cut' = TRUE
    /\ \E lost \in 0 .. MaxLost :
        /\ lost <= Len(down)
        /\ down' = SubSeq(down, 1, Len(down) - lost)
    /\ UNCHANGED <<kind, up, reading, written, received, sent, got>>

----------------------------------------------------------------------------
Chunks == [kind : {"chunk"}, cid : {c % (Base * Base) : c \in Cids}, code : Codes, fin : BOOLEAN, body : Bodies]

Next ==
    \/ ReadFrame \/ ReadFails \/ WsReadFrame
    \/ \E data \in Envelopes : WriteEnvelope(data)
    \/ \E cid \in Cids : WritePing(cid)
    \/ \E x \in Chunks : GatewayChunk(x)
    \/ \E data \in Envelopes : GatewayReply(data)
    \/ \E op \in Ops, data \in Envelopes, masked \in BOOLEAN : GatewayPush(op, data, masked)
    \/ GatewayReads \/ GatewayReadsMessage
    \/ Cut

Spec == Init /\ [][Next]_vars

----------------------------------------------------------------------------
(* Properties.                                                             *)

\* What readLoop must make of what the gateway sent: control frames disappear.
IsDeliverable(x) == x.kind \in {"chunk", "envelope", "pong"}
DeliverableOf(s) ==
    LET some[i \in 0 .. Len(s)] ==
            IF i = 0 THEN <<>>
            ELSE IF IsDeliverable(s[i]) THEN Append(some[i - 1], s[i]) ELSE some[i - 1]
    IN  some[Len(s)]
Deliverable == DeliverableOf(sent)

\* The reader never loses its place: once it has read everything there is, it has
\* delivered everything that was sent, and it stops only at a lost connection, a
\* close frame or a frame announced as too long.
InStep ==
    /\ kind = "tcp" /\ reading /\ ~cut /\ ~HasFrame(down) =>
           IF Oversize(down) THEN \E i \in DOMAIN sent : sent[i].kind = "long"
           ELSE down = <<>> /\ got = Deliverable
    /\ ~reading => cut \/ \E i \in DOMAIN sent : sent[i].kind \in {"close", "long"}

\* readLoop gets the frames the gateway sent, whole, unchanged, in order, none
\* invented and none left out, whatever mix of layouts, paddings and trailing zeros
\* they have, and whichever byte the connection is lost at.
FramesIntact == IsPrefix(got, Deliverable) /\ InStep

\* A ping's cid reaches the gateway as its low 16 bits.
Cropped(x) == IF x.kind = "ping" THEN [x EXCEPT !.cid = @ % (Base * Base)] ELSE x

\* The gateway gets the token and every envelope and ping the SDK wrote, in order
\* and with the same known fields, although it cannot tell padding from trailing
\* zeros of the payload; nothing is left over.
GatewayIntact ==
    /\ IsPrefix(received, [i \in DOMAIN written |-> Cropped(written[i])])
    /\ up = <<>> => Len(received) = Len(written)
=============================================================================
