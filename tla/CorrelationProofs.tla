------------------------- MODULE CorrelationProofs -------------------------
(***************************************************************************)
(* Correlation for every set of calls, every raw range and every bound:    *)
(* type correctness, a sound map of pending calls, every reply with the    *)
(* call it answers and to the call that waits for it, and every body       *)
(* reassembled from chunks whole.                                          *)
(***************************************************************************)
EXTENDS Correlation, SequenceTheorems, TLAPS

USE RawModAssumption, MaxConnsAssumption, MaxChunksAssumption, KindsAssumption

(***************************************************************************)
(* Arithmetic of the truncated cid.                                        *)
(***************************************************************************)

\* A raw cid is one of the keys a stream can have.
LEMMA LowRange ==
    ASSUME NEW n \in Nat
    PROVE  Low16(n) \in RawCids
BY DEF Low16, RawCids

\* Cids that have not passed the raw range are told apart by their truncation.
LEMMA LowInjective ==
    ASSUME NEW x \in 1 .. RawMod, NEW y \in 1 .. RawMod, Low16(x) = Low16(y)
    PROVE  x = y
BY DEF Low16

\* takeRawCid's exact lookup finds the right cid below the raw range.
LEMMA LowExact ==
    ASSUME NEW x \in 1 .. RawMod, NEW y \in 1 .. RawMod, x = Low16(y)
    PROVE  x = y
BY DEF Low16

(***************************************************************************)
(* The inductive invariant.                                                *)
(***************************************************************************)

\* Cids are handed out once, in order, before anything else happens to a call.
CidInv ==
    /\ \A c \in Calls : cid[c] < nextCid
    /\ \A c \in Calls : pc[c] = "idle" => cid[c] = 0 /\ on[c] = 0 /\ ch[c] = {} /\ c \notin cids
    /\ \A c \in Calls : pc[c] \in InProgress \/ c \in cids \/ on[c] # 0 => cid[c] # 0
    /\ \A c, d \in Calls : cid[c] # 0 /\ cid[c] = cid[d] => c = d

\* A frame carries the cid of the call it answers, whole or truncated.
GoodFrame(f) ==
    /\ cid[f.of] # 0
    /\ f.cid = IF f.type = "envelope" THEN cid[f.of] ELSE Low16(cid[f.of])
WireInv == \A k \in Conns : \A i \in 1 .. Len(wire[k]) : GoodFrame(wire[k][i])

Inv == TypeOK /\ CidInv /\ WireInv

(***************************************************************************)
(* What a step may do to the parts the invariant relates.                  *)
(***************************************************************************)

\* The head of a connection's wire is a well-formed frame, the rest still is.
LEMMA HeadGood ==
    ASSUME TypeOK, WireInv, NEW k \in Conns, Reading(k)
    PROVE  /\ Head(wire[k]) \in Frame
           /\ GoodFrame(Head(wire[k]))
           /\ Tail(wire[k]) \in Seq(Frame)
           /\ \A i \in 1 .. Len(Tail(wire[k])) : GoodFrame(Tail(wire[k])[i])
<1>1. wire[k] \in Seq(Frame) /\ wire[k] # << >>
  BY DEF TypeOK, Reading
<1>2. Head(wire[k]) = wire[k][1] /\ 1 \in 1 .. Len(wire[k])
  BY <1>1
<1>3. \A i \in 1 .. Len(Tail(wire[k])) :
        Tail(wire[k])[i] = wire[k][i + 1] /\ i + 1 \in 1 .. Len(wire[k])
  BY <1>1
<1>4. QED
  BY <1>1, <1>2, <1>3 DEF WireInv

\* Delivering a well-formed reply keeps the map and the channels in their types.
LEMMA DeliverType ==
    ASSUME TypeOK, NEW targets, targets \subseteq cids, NEW reply \in Reply,
           Deliver(targets, reply)
    PROVE  cids' \subseteq Calls /\ ch' \in [Calls -> SUBSET Reply]
<1>1. CASE targets = {}
  BY <1>1 DEF TypeOK, Deliver
<1>2. CASE targets # {}
  <2>1. PICK t \in targets : ch' = [ch EXCEPT ![t] = {reply}] /\ cids' = cids \ {t}
    BY <1>2 DEF Deliver
  <2>2. {reply} \in SUBSET Reply
    OBVIOUS
  <2>3. ch' \in [Calls -> SUBSET Reply]
    BY <2>1, <2>2 DEF TypeOK
  <2>4. QED
    BY <2>1, <2>3 DEF TypeOK
<1>3. QED
  BY <1>1, <1>2

\* Only calls in the map are candidates for a reply.
LEMMA TakeTargets ==
    ASSUME NEW n
    PROVE  TakeCid(n) \subseteq cids /\ TakeRawCid(n) \subseteq cids
BY DEF TakeCid, TakeRawCid

\* A step of the server appends one well-formed frame for a call that wrote.
LEMMA PushGood ==
    ASSUME Inv, NEW c \in Calls, Open(c), NEW f \in Frame, Push(c, f),
           f.of = c, f.cid = IF f.type = "envelope" THEN cid[c] ELSE Low16(cid[c]),
           UNCHANGED cid
    PROVE  wire' \in [Conns -> Seq(Frame)] /\ WireInv'
<1>1. on[c] \in Conns /\ cid[c] # 0
  BY DEF Inv, TypeOK, CidInv, Open, Written, Conns
<1>2. GoodFrame(f)
  BY <1>1 DEF GoodFrame
<1>3. wire' = [wire EXCEPT ![on[c]] = Append(wire[on[c]], f)]
  BY DEF Push
<1>4. ASSUME NEW k \in Conns
      PROVE  /\ wire'[k] \in Seq(Frame)
             /\ \A i \in 1 .. Len(wire'[k]) : GoodFrame(wire'[k][i])
  <2>1. wire[k] \in Seq(Frame) /\ \A i \in 1 .. Len(wire[k]) : GoodFrame(wire[k][i])
    BY <1>4 DEF Inv, TypeOK, WireInv
  <2>2. CASE k = on[c]
    <3>1. wire'[k] = Append(wire[k], f)
      BY <1>3, <1>4, <2>2 DEF Inv, TypeOK
    <3>2. \A i \in 1 .. Len(wire'[k]) : i \in 1 .. Len(wire[k]) \/ wire'[k][i] = f
      BY <2>1, <3>1
    <3>3. \A i \in 1 .. Len(wire[k]) : wire'[k][i] = wire[k][i]
      BY <2>1, <3>1
    <3>4. QED
      BY <1>2, <2>1, <3>1, <3>2, <3>3
  <2>3. CASE k # on[c]
    <3>1. wire'[k] = wire[k]
      BY <1>3, <1>4, <2>3 DEF Inv, TypeOK
    <3>2. QED
      BY <2>1, <3>1
  <2>4. QED
    BY <2>2, <2>3
<1>5. wire' \in [Conns -> Seq(Frame)]
  BY <1>3, <1>4 DEF Inv, TypeOK
<1>6. \A g : GoodFrame(g) => GoodFrame(g)'
  BY DEF GoodFrame, Low16
<1>7. QED
  BY <1>4, <1>5, <1>6 DEF WireInv, GoodFrame, Low16

(***************************************************************************)
(* Type correctness with the cid and wire invariants.                      *)
(***************************************************************************)

\* The empty wire and the empty stream.
LEMMA EmptySeqs == << >> \in Seq(Part) /\ << >> \in Seq(Frame)
<1>1. ASSUME NEW S PROVE << >> \in Seq(S)
  OBVIOUS
<1>2. QED
  BY <1>1

\* A socket on which nothing has been sent.
LEMMA InvInit == Init => Inv
<1>1. SUFFICES ASSUME Init PROVE Inv
  OBVIOUS
<1>2. TypeOK
  <2>1. /\ wire \in [Conns -> Seq(Frame)]
        /\ streams \in [Conns -> [RawCids -> Seq(Part)]]
        /\ ch \in [Calls -> SUBSET Reply]
    BY <1>1, EmptySeqs DEF Init
  <2>2. /\ pc \in [Calls -> {"idle"} \cup InProgress \cup Results]
        /\ kind \in [Calls -> Kinds \cup {"none"}]
        /\ cid \in [Calls -> Nat]
        /\ on \in [Calls -> 0 .. MaxConns]
        /\ sent \in [Calls -> Nat]
    BY <1>1 DEF Init
  <2>3. conn \in 0 .. MaxConns /\ nextCid \in Nat \ {0}
    BY <1>1 DEF Init
  <2>4. connected \in BOOLEAN
    BY <1>1, Zenon DEF Init
  <2>5. QED
    BY <1>1, <2>1, <2>2, <2>3, <2>4 DEF Init, TypeOK
<1>3. CidInv
  BY <1>1 DEF Init, CidInv, InProgress
<1>4. WireInv
  <2>1. \A k \in Conns : wire[k] = << >>
    BY <1>1 DEF Init
  <2>2. QED
    BY <2>1 DEF WireInv
<1>5. QED
  BY <1>2, <1>3, <1>4 DEF Inv

\* Steps that leave cid and wire alone leave the frames well formed.
LEMMA WireKept ==
    ASSUME WireInv, UNCHANGED <<cid, wire>>
    PROVE  WireInv'
BY DEF WireInv, GoodFrame, Low16

\* Connections come and go without touching cids or frames.
LEMMA ConnStep ==
    ASSUME Inv, Connect \/ ClearConnected \/ \E k \in Conns : CloseDone(k)
    PROVE  Inv'
<1>1. TypeOK'
  <2> USE DEF callVars, serverVars
  <2>1. CASE Connect
    BY <2>1 DEF Inv, TypeOK, Connect
  <2>2. CASE ClearConnected
    BY <2>2 DEF Inv, TypeOK, ClearConnected
  <2>3. CASE \E k \in Conns : CloseDone(k)
    BY <2>3 DEF Inv, TypeOK, CloseDone
  <2>4. QED
    BY <2>1, <2>2, <2>3
<1>2. CidInv'
  BY DEF Inv, CidInv, Connect, ClearConnected, CloseDone, callVars
<1>3. WireInv'
  BY WireKept DEF Inv, Connect, ClearConnected, CloseDone, callVars, serverVars
<1>4. QED
  BY <1>1, <1>2, <1>3 DEF Inv

\* sendResponse: a call takes its cid once; nothing else moves a cid.
LEMMA CallerStep ==
    ASSUME Inv, NEW c \in Calls, Caller(c)
    PROVE  Inv'
<1> USE DEF InProgress, Results
<1>1. CASE \E k \in Kinds : Register(c, k)
  <2>1. PICK k \in Kinds : Register(c, k)
    BY <1>1
  <2>2. TypeOK'
    BY <2>1 DEF Inv, TypeOK, Register, socketVars, serverVars
  <2>3. CidInv'
    BY <2>1 DEF Inv, TypeOK, CidInv, Register
  <2>4. WireInv'
    <3>1. \A n \in Conns : \A i \in 1 .. Len(wire[n]) : wire[n][i].of # c
      BY <2>1 DEF Inv, CidInv, WireInv, GoodFrame, Register
    <3>2. \A n \in Conns : \A i \in 1 .. Len(wire[n]) : wire[n][i].of \in Calls
      <4>1. \A n \in Conns : \A i \in 1 .. Len(wire[n]) : wire[n][i] \in Frame
        BY DEF Inv, TypeOK
      <4>2. QED
        BY <4>1 DEF Frame
    <3>3. \A d \in Calls : d # c => cid'[d] = cid[d]
      BY <2>1 DEF Inv, TypeOK, Register
    <3>4. wire' = wire
      BY <2>1 DEF Register, serverVars
    <3>5. QED
      BY <3>1, <3>2, <3>3, <3>4 DEF Inv, WireInv, GoodFrame, Low16
  <2>5. QED
    BY <2>2, <2>3, <2>4 DEF Inv
<1>2. CASE Write(c)
  <2>1. TypeOK'
    BY <1>2 DEF Inv, TypeOK, Write, socketVars, serverVars
  <2>2. CidInv'
    BY <1>2 DEF Inv, TypeOK, CidInv, Write
  <2>3. WireInv'
    BY <1>2, WireKept DEF Inv, Write, serverVars
  <2>4. QED
    BY <2>1, <2>2, <2>3 DEF Inv
<1>3. CASE RefuseClosed(c) \/ Fail(c) \/ Receive(c) \/ Timeout(c) \/ SeeDone(c)
  <2> USE DEF RefuseClosed, Fail, Receive, Timeout, SeeDone, Return, ClearCid
  <2>1. TypeOK'
    BY <1>3 DEF Inv, TypeOK, socketVars, serverVars
  <2>2. CidInv'
    BY <1>3 DEF Inv, TypeOK, CidInv
  <2>3. WireInv'
    BY <1>3, WireKept DEF Inv, serverVars
  <2>4. QED
    BY <2>1, <2>2, <2>3 DEF Inv
<1>4. QED
  BY <1>1, <1>2, <1>3 DEF Caller

\* A frame's payload is one numbered part of a call's response.
LEMMA OnePart ==
    ASSUME NEW c \in Calls, NEW n \in Nat
    PROVE  << [of |-> c, nr |-> n + 1] >> \in Seq(Part)
<1>1. [of |-> c, nr |-> n + 1] \in Part
  BY DEF Part
<1>2. ASSUME NEW S, NEW e \in S PROVE << e >> \in Seq(S)
  OBVIOUS
<1>3. QED
  BY <1>1, <1>2

\* The server's frames carry the cid of the call they answer.
LEMMA ServerStep ==
    ASSUME Inv, NEW c \in Calls, Server(c)
    PROVE  Inv'
<1> USE DEF callVars, socketVars
<1>0. cid[c] \in Nat /\ Low16(cid[c]) \in Nat /\ sent[c] \in Nat
  BY LowRange DEF Inv, TypeOK, RawCids
<1>1. CASE ServeEnvelope(c)
  <2> DEFINE f == [type |-> "envelope", cid |-> cid[c], of |-> c, payload |-> << >>]
  <2>0. f \in Frame
    BY <1>0, EmptySeqs DEF Frame
  <2>1. wire' \in [Conns -> Seq(Frame)] /\ WireInv'
    BY <1>1, <2>0, PushGood DEF ServeEnvelope
  <2>2. QED
    BY <1>1, <2>1 DEF Inv, TypeOK, CidInv, ServeEnvelope
<1>2. CASE ServePong(c)
  <2> DEFINE f == [type |-> "pong", cid |-> Low16(cid[c]), of |-> c, payload |-> << >>]
  <2>0. f \in Frame
    BY <1>0, EmptySeqs DEF Frame
  <2>1. wire' \in [Conns -> Seq(Frame)] /\ WireInv'
    BY <1>2, <2>0, PushGood DEF ServePong
  <2>2. QED
    BY <1>2, <2>1 DEF Inv, TypeOK, CidInv, ServePong
<1>3. CASE ServeChunk(c)
  <2>1. << [of |-> c, nr |-> sent[c] + 1] >> \in Seq(Part)
    BY <1>0, OnePart
  <2>2. wire' \in [Conns -> Seq(Frame)] /\ WireInv'
    BY <1>0, <1>3, <2>1, PushGood DEF ServeChunk, Frame
  <2>3. sent' \in [Calls -> Nat]
    BY <1>0, <1>3 DEF Inv, TypeOK, ServeChunk
  <2>4. TypeOK'
    BY <1>3, <2>2, <2>3 DEF Inv, TypeOK, ServeChunk
  <2>5. CidInv'
    BY <1>3 DEF Inv, CidInv, ServeChunk
  <2>6. QED
    BY <2>2, <2>4, <2>5 DEF Inv
<1>4. CASE \E carries \in BOOLEAN : ServeFin(c, carries)
  <2>1. PICK carries \in BOOLEAN : ServeFin(c, carries)
    BY <1>4
  <2>2. (IF carries THEN << [of |-> c, nr |-> sent[c] + 1] >> ELSE << >>) \in Seq(Part)
    BY <1>0, OnePart, EmptySeqs
  <2>3. wire' \in [Conns -> Seq(Frame)] /\ WireInv'
    BY <1>0, <2>1, <2>2, PushGood DEF ServeFin, Frame
  <2>4. sent' \in [Calls -> Nat]
    BY <1>0, <2>1 DEF Inv, TypeOK, ServeFin
  <2>5. QED
    BY <2>1, <2>3, <2>4 DEF Inv, TypeOK, CidInv, ServeFin
<1>5. QED
  BY <1>1, <1>2, <1>3, <1>4 DEF Server

\* Reading one frame leaves the rest of the wire well formed.
LEMMA PullGood ==
    ASSUME Inv, NEW k \in Conns, Reading(k), Pull(k), UNCHANGED cid
    PROVE  wire' \in [Conns -> Seq(Frame)] /\ WireInv'
<1>1. /\ Tail(wire[k]) \in Seq(Frame)
      /\ \A i \in 1 .. Len(Tail(wire[k])) : GoodFrame(Tail(wire[k])[i])
  BY HeadGood DEF Inv
<1>2. /\ wire'[k] = Tail(wire[k])
      /\ \A n \in Conns : n # k => wire'[n] = wire[n]
      /\ wire' \in [Conns -> Seq(Frame)]
  BY <1>1 DEF Inv, TypeOK, Pull
<1>3. \A n \in Conns : \A i \in 1 .. Len(wire'[n]) : GoodFrame(wire'[n][i])
  BY <1>1, <1>2 DEF Inv, WireInv
<1>4. QED
  BY <1>2, <1>3 DEF WireInv, GoodFrame, Low16

\* Sending a reply disturbs nothing CidInv says of a call.
LEMMA DeliverCid ==
    ASSUME Inv, NEW targets, targets \subseteq cids, NEW reply,
           Deliver(targets, reply), UNCHANGED callVars
    PROVE  CidInv'
<1>1. CASE targets = {}
  BY <1>1 DEF Inv, CidInv, Deliver, callVars
<1>2. CASE targets # {}
  <2>1. PICK t \in targets : ch' = [ch EXCEPT ![t] = {reply}] /\ cids' = cids \ {t}
    BY <1>2 DEF Deliver
  <2>2. t \in cids /\ pc[t] # "idle"
    BY <2>1 DEF Inv, TypeOK, CidInv
  <2>3. QED
    BY <2>1, <2>2 DEF Inv, TypeOK, CidInv, callVars
<1>3. QED
  BY <1>1, <1>2

\* readLoop: each kind of frame, delivered or dropped.
LEMMA ReaderStep ==
    ASSUME Inv, NEW k \in Conns, Reader(k)
    PROVE  Inv'
<1> USE DEF callVars, socketVars
<1> DEFINE f == Head(wire[k])
<1>0. Reading(k) /\ Pull(k) /\ UNCHANGED cid
  BY DEF Reader, ReadEnvelope, SkipUndecodable, ReadPong, ReadChunk, ReadFin
<1>1. wire' \in [Conns -> Seq(Frame)] /\ WireInv'
  BY <1>0, PullGood
<1>2. f \in Frame /\ GoodFrame(f) /\ f.of \in Calls /\ f.payload \in Seq(Part)
  BY <1>0, HeadGood DEF Inv, Frame
<1>3. f.type # "envelope" => f.cid \in RawCids
  BY <1>2, LowRange DEF Inv, TypeOK, GoodFrame
<1> HIDE DEF f
<1>4. CASE ReadEnvelope(k)
  <2>1. Deliver(TakeCid(f.cid), [of |-> f.of, raw |-> FALSE, body |-> << >>])
    BY <1>4 DEF ReadEnvelope, f
  <2>2. [of |-> f.of, raw |-> FALSE, body |-> << >>] \in Reply
    BY <1>2 DEF Reply
  <2>3. cids' \subseteq Calls /\ ch' \in [Calls -> SUBSET Reply]
    BY <2>1, <2>2, DeliverType, TakeTargets DEF Inv
  <2>4. CidInv'
    BY <1>4, <2>1, DeliverCid, TakeTargets DEF ReadEnvelope
  <2>5. QED
    BY <1>1, <1>4, <2>3, <2>4 DEF Inv, TypeOK, ReadEnvelope
<1>5. CASE SkipUndecodable(k)
  BY <1>1, <1>5 DEF Inv, TypeOK, CidInv, SkipUndecodable
<1>6. CASE ReadPong(k)
  <2>1. Deliver(TakeRawCid(f.cid), [of |-> f.of, raw |-> TRUE, body |-> << >>])
    BY <1>6 DEF ReadPong, f
  <2>2. [of |-> f.of, raw |-> TRUE, body |-> << >>] \in Reply
    BY <1>2 DEF Reply
  <2>3. cids' \subseteq Calls /\ ch' \in [Calls -> SUBSET Reply]
    BY <2>1, <2>2, DeliverType, TakeTargets DEF Inv
  <2>4. CidInv'
    BY <1>6, <2>1, DeliverCid, TakeTargets DEF ReadPong
  <2>5. QED
    BY <1>1, <1>6, <2>3, <2>4 DEF Inv, TypeOK, ReadPong
<1>7. CASE ReadChunk(k)
  <2>1. f.cid \in RawCids /\ streams' = [streams EXCEPT ![k][f.cid] = @ \o f.payload]
    BY <1>3, <1>7 DEF ReadChunk, f
  <2>2. streams[k][f.cid] \o f.payload \in Seq(Part)
    BY <1>2, <2>1 DEF Inv, TypeOK
  <2>3. streams' \in [Conns -> [RawCids -> Seq(Part)]]
    BY <2>1, <2>2 DEF Inv, TypeOK
  <2>4. QED
    BY <1>1, <1>7, <2>3 DEF Inv, TypeOK, CidInv, ReadChunk
<1>8. CASE ReadFin(k)
  <2>0. f.cid \in RawCids
    BY <1>3, <1>8 DEF ReadFin, f
  <2>1. Deliver(TakeRawCid(f.cid), [of |-> f.of, raw |-> TRUE, body |-> Body(k, f)])
    BY <1>8 DEF ReadFin, f
  <2>2. Body(k, f) \in Seq(Part)
    BY <1>2, <2>0 DEF Inv, TypeOK, Body
  <2>3. [of |-> f.of, raw |-> TRUE, body |-> Body(k, f)] \in Reply
    BY <1>2, <2>2 DEF Reply
  <2>4. cids' \subseteq Calls /\ ch' \in [Calls -> SUBSET Reply]
    BY <2>1, <2>3, DeliverType, TakeTargets DEF Inv
  <2>5. CidInv'
    BY <1>8, <2>1, DeliverCid, TakeTargets DEF ReadFin
  <2>6. streams' \in [Conns -> [RawCids -> Seq(Part)]]
    <3>1. streams' = [streams EXCEPT ![k][f.cid] = << >>]
      BY <1>8 DEF ReadFin, AfterFin, f
    <3>2. QED
      BY <2>0, <3>1 DEF Inv, TypeOK
  <2>7. QED
    BY <1>1, <1>8, <2>4, <2>5, <2>6 DEF Inv, TypeOK, ReadFin
<1>9. QED
  BY <1>4, <1>5, <1>6, <1>7, <1>8 DEF Reader

\* Every step keeps types, cids and frames.
LEMMA InvNext == Inv /\ [Next]_vars => Inv'
<1>1. SUFFICES ASSUME Inv, [Next]_vars PROVE Inv'
  OBVIOUS
<1>2. CASE UNCHANGED vars
  <2>1. WireInv'
    BY <1>1, <1>2, WireKept DEF Inv, vars
  <2>2. QED
    BY <1>1, <1>2, <2>1 DEF Inv, TypeOK, CidInv, vars
<1>3. CASE Next
  BY <1>1, <1>3, ConnStep, CallerStep, ServerStep, ReaderStep DEF Next
<1>4. QED
  BY <1>1, <1>2, <1>3

\* Type correctness of every reachable state.
THEOREM TypeCorrect == Spec => []TypeOK
<1>1. Init => Inv
  BY InvInit
<1>2. Inv /\ [Next]_vars => Inv'
  BY InvNext
<1>3. Inv => TypeOK
  BY DEF Inv
<1>4. QED
  BY <1>1, <1>2, <1>3, PTL DEF Spec

(***************************************************************************)
(* The map and the channels.                                               *)
(***************************************************************************)

\* A delivery moves one call from the map to its channel.
LEMMA DeliverMap ==
    ASSUME Inv, MapSound, NEW targets, targets \subseteq cids, NEW reply,
           Deliver(targets, reply), UNCHANGED pc
    PROVE  MapSound'
<1>1. CASE targets = {}
  BY <1>1 DEF MapSound, NoLostCaller, ReaderNeverBlocks, LeaksOnlyOnClose, Deliver
<1>2. CASE targets # {}
  <2>1. PICK t \in targets : ch' = [ch EXCEPT ![t] = {reply}] /\ cids' = cids \ {t}
    BY <1>2 DEF Deliver
  <2>2. ch'[t] # {} /\ \A c \in Calls : c # t => ch'[c] = ch[c]
    BY <2>1 DEF Inv, TypeOK
  <2>3. cids \subseteq Calls
    BY DEF Inv, TypeOK
  <2>4. QED
    BY <2>1, <2>2, <2>3 DEF MapSound, NoLostCaller, ReaderNeverBlocks, LeaksOnlyOnClose
<1>3. QED
  BY <1>1, <1>2

\* Every step keeps what the map of pending calls promises.
LEMMA MapNext == Inv /\ MapSound /\ [Next]_vars => MapSound'
<1> USE DEF callVars, socketVars, serverVars
<1>1. SUFFICES ASSUME Inv, MapSound, [Next]_vars PROVE MapSound'
  OBVIOUS
<1>2. CASE UNCHANGED <<cids, ch, pc>>
  BY <1>1, <1>2 DEF MapSound, NoLostCaller, ReaderNeverBlocks, LeaksOnlyOnClose
<1>3. ASSUME NEW c \in Calls, Caller(c) PROVE MapSound'
  <2> USE DEF MapSound, NoLostCaller, ReaderNeverBlocks, LeaksOnlyOnClose, Inv, TypeOK,
              InProgress, Results
  <2>1. CASE \E k \in Kinds : Register(c, k)
    BY <1>1, <2>1 DEF Register, CidInv
  <2>2. CASE RefuseClosed(c)
    BY <1>1, <2>2 DEF RefuseClosed, Return, CidInv
  <2>3. CASE Fail(c) \/ Timeout(c)
    BY <1>1, <2>3 DEF Fail, Timeout, Return, ClearCid
  <2>4. CASE Write(c)
    BY <1>1, <2>4 DEF Write
  <2>5. CASE Receive(c) \/ SeeDone(c)
    BY <1>1, <2>5 DEF Receive, SeeDone, Return
  <2>6. QED
    BY <1>3, <2>1, <2>2, <2>3, <2>4, <2>5 DEF Caller
<1>4. ASSUME NEW c \in Calls, Server(c) PROVE MapSound'
  BY <1>2, <1>4 DEF Server, ServeEnvelope, ServePong, ServeChunk, ServeFin
<1>5. ASSUME NEW k \in Conns, Reader(k) PROVE MapSound'
  <2>1. CASE SkipUndecodable(k) \/ ReadChunk(k)
    BY <1>2, <2>1 DEF SkipUndecodable, ReadChunk
  <2>2. CASE ReadEnvelope(k)
    BY <1>1, <2>2, DeliverMap, TakeTargets DEF ReadEnvelope
  <2>3. CASE ReadPong(k)
    BY <1>1, <2>3, DeliverMap, TakeTargets DEF ReadPong
  <2>4. CASE ReadFin(k)
    BY <1>1, <2>4, DeliverMap, TakeTargets DEF ReadFin
  <2>5. QED
    BY <1>5, <2>1, <2>2, <2>3, <2>4 DEF Reader
<1>6. CASE Connect \/ ClearConnected \/ \E k \in Conns : CloseDone(k)
  BY <1>2, <1>6 DEF Connect, ClearConnected, CloseDone
<1>7. CASE UNCHANGED vars
  BY <1>2, <1>7 DEF vars
<1>8. QED
  BY <1>1, <1>3, <1>4, <1>5, <1>6, <1>7 DEF Next

\* No caller is lost, no reader ever blocks on a reply channel, and an entry
\* outlives its call only when the connection closed under it: for any number
\* of callers, connections, timeouts and late or misdirected replies.
THEOREM MapCorrect == Spec => []MapSound
<1>1. Init => Inv /\ MapSound
  BY InvInit DEF Init, MapSound, NoLostCaller, ReaderNeverBlocks, LeaksOnlyOnClose, InProgress
<1>2. Inv /\ MapSound /\ [Next]_vars => (Inv /\ MapSound)'
  BY InvNext, MapNext
<1>3. QED
  BY <1>1, <1>2, PTL DEF Spec

(***************************************************************************)
(* Replies reach the call they answer.                                     *)
(***************************************************************************)

\* Two live cids are in the raw range while the counter is.
LEMMA InRange ==
    ASSUME Inv, nextCid <= RawMod + 1, NEW c \in Calls, cid[c] # 0
    PROVE  cid[c] \in 1 .. RawMod
BY DEF Inv, TypeOK, CidInv

\* takeCid finds the call an envelope answers or nothing.
LEMMA TakeOwn ==
    ASSUME Inv, NEW f \in Frame, GoodFrame(f), f.type = "envelope",
           NEW t \in TakeCid(f.cid)
    PROVE  t = f.of
BY DEF Inv, TypeOK, CidInv, GoodFrame, TakeCid, Frame

\* takeRawCid finds the call a raw frame answers or nothing, below the raw range.
LEMMA TakeRawOwn ==
    ASSUME Inv, NEW f \in Frame, GoodFrame(f), f.type # "envelope",
           nextCid <= RawMod + 1, NEW t \in TakeRawCid(f.cid)
    PROVE  t = f.of
<1>1. t \in Calls /\ f.of \in Calls
  BY TakeTargets DEF Inv, TypeOK, Frame
<1>2. cid[t] # 0 /\ cid[f.of] # 0
  BY <1>1, TakeTargets DEF Inv, CidInv, GoodFrame
<1>3. cid[t] \in 1 .. RawMod /\ cid[f.of] \in 1 .. RawMod
  BY <1>1, <1>2, InRange
<1>4. cid[t] = Low16(cid[f.of]) \/ Low16(cid[t]) = Low16(cid[f.of])
  BY DEF TakeRawCid, TakeCid, GoodFrame
<1>5. cid[t] = cid[f.of]
  BY <1>3, <1>4, LowExact, LowInjective
<1>6. QED
  BY <1>1, <1>2, <1>5 DEF Inv, CidInv

\* A reply joins a channel only if it answers the channel's call.
LEMMA DeliverOwn ==
    ASSUME Inv, AnswerMatches, NEW targets, targets \subseteq cids, NEW reply \in Reply,
           Deliver(targets, reply), UNCHANGED nextCid,
           \A t \in targets : (~reply.raw \/ nextCid <= RawMod + 1) => reply.of = t
    PROVE  AnswerMatches'
<1>1. CASE targets = {}
  BY <1>1 DEF AnswerMatches, Deliver
<1>2. CASE targets # {}
  <2>1. PICK t \in targets : ch' = [ch EXCEPT ![t] = {reply}]
    BY <1>2 DEF Deliver
  <2>2. QED
    BY <2>1 DEF Inv, TypeOK, AnswerMatches
<1>3. QED
  BY <1>1, <1>2

\* Only the reader fills a channel, and with the right reply.
LEMMA AnswerNext == Inv /\ AnswerMatches /\ [Next]_vars => AnswerMatches'
<1> USE DEF callVars, socketVars, serverVars
<1>1. SUFFICES ASSUME Inv, AnswerMatches, [Next]_vars PROVE AnswerMatches'
  OBVIOUS
<1>2. CASE UNCHANGED <<ch, nextCid>>
  BY <1>1, <1>2 DEF AnswerMatches
<1>3. ASSUME NEW c \in Calls, Caller(c) PROVE AnswerMatches'
  <2>1. UNCHANGED ch /\ nextCid' \in {nextCid, nextCid + 1}
    BY <1>3 DEF Caller, Register, RefuseClosed, Fail, Write, Receive, Timeout, SeeDone
  <2>2. QED
    BY <1>1, <2>1 DEF AnswerMatches, Inv, TypeOK
<1>4. ASSUME NEW c \in Calls, Server(c) PROVE AnswerMatches'
  BY <1>2, <1>4 DEF Server, ServeEnvelope, ServePong, ServeChunk, ServeFin
<1>5. ASSUME NEW k \in Conns, Reader(k) PROVE AnswerMatches'
  <2> DEFINE f == Head(wire[k])
  <2>1. f \in Frame /\ GoodFrame(f) /\ f.of \in Calls
    BY <1>1, <1>5, HeadGood
       DEF Inv, Frame, Reader, ReadEnvelope, SkipUndecodable, ReadPong, ReadChunk, ReadFin
  <2> HIDE DEF f
  <2>2. CASE SkipUndecodable(k) \/ ReadChunk(k)
    BY <1>2, <2>2 DEF SkipUndecodable, ReadChunk
  <2>3. CASE ReadEnvelope(k)
    <3> DEFINE r == [of |-> f.of, raw |-> FALSE, body |-> << >>]
    <3>1. r \in Reply
      BY <2>1, EmptySeqs DEF Reply
    <3>2. f.type = "envelope" /\ Deliver(TakeCid(f.cid), r) /\ UNCHANGED nextCid
      BY <2>3 DEF ReadEnvelope, f
    <3>3. \A t \in TakeCid(f.cid) : r.of = t
      BY <1>1, <2>1, <3>2, TakeOwn
    <3> HIDE DEF r
    <3>4. QED
      BY <1>1, <3>1, <3>2, <3>3, DeliverOwn, TakeTargets
  <2>4. CASE ReadPong(k)
    <3> DEFINE r == [of |-> f.of, raw |-> TRUE, body |-> << >>]
    <3>1. r \in Reply /\ r.raw
      BY <2>1, EmptySeqs DEF Reply
    <3>2. f.type = "pong" /\ Deliver(TakeRawCid(f.cid), r) /\ UNCHANGED nextCid
      BY <2>4 DEF ReadPong, f
    <3>3. \A t \in TakeRawCid(f.cid) : nextCid <= RawMod + 1 => r.of = t
      BY <1>1, <2>1, <3>2, TakeRawOwn
    <3> HIDE DEF r
    <3>4. QED
      BY <1>1, <3>1, <3>2, <3>3, DeliverOwn, TakeTargets
  <2>5. CASE ReadFin(k)
    <3> DEFINE r == [of |-> f.of, raw |-> TRUE, body |-> Body(k, f)]
    <3>0. f.type = "fin" /\ Deliver(TakeRawCid(f.cid), r) /\ UNCHANGED nextCid
      BY <2>5 DEF ReadFin, f
    <3>1. r \in Reply /\ r.raw
      <4>1. f.cid \in RawCids /\ f.payload \in Seq(Part)
        BY <1>1, <2>1, <3>0, LowRange DEF Inv, TypeOK, GoodFrame, Frame
      <4>2. Body(k, f) \in Seq(Part)
        BY <1>1, <4>1 DEF Inv, TypeOK, Body
      <4>3. QED
        BY <2>1, <4>2 DEF Reply
    <3>3. \A t \in TakeRawCid(f.cid) : nextCid <= RawMod + 1 => r.of = t
      BY <1>1, <2>1, <3>0, TakeRawOwn
    <3> HIDE DEF r
    <3>4. QED
      BY <1>1, <3>0, <3>1, <3>3, DeliverOwn, TakeTargets
  <2>6. QED
    BY <1>5, <2>2, <2>3, <2>4, <2>5 DEF Reader
<1>6. CASE Connect \/ ClearConnected \/ \E k \in Conns : CloseDone(k)
  BY <1>2, <1>6 DEF Connect, ClearConnected, CloseDone
<1>7. CASE UNCHANGED vars
  BY <1>2, <1>7 DEF vars
<1>8. QED
  BY <1>1, <1>3, <1>4, <1>5, <1>6, <1>7 DEF Next

\* A caller only ever gets the reply to its own request, as long as the counter
\* is within the raw range; for envelope replies without any limit.
THEOREM AnswersCorrect == Spec => []AnswerMatches
<1>1. Init => Inv /\ AnswerMatches
  BY InvInit DEF Init, AnswerMatches
<1>2. Inv /\ AnswerMatches /\ [Next]_vars => (Inv /\ AnswerMatches)'
  BY InvNext, AnswerNext
<1>3. QED
  BY <1>1, <1>2, PTL DEF Spec

(***************************************************************************)
(* A complete reply reaches the caller that waits for it.                  *)
(***************************************************************************)

\* The lookup finds a call in the map that the frame answers, and no other.
LEMMA TakeExactly ==
    ASSUME Inv, NEW f \in Frame, GoodFrame(f), f.of \in cids,
           f.type = "envelope" \/ nextCid <= RawMod + 1
    PROVE  /\ f.type = "envelope" => TakeCid(f.cid) = {f.of}
           /\ f.type # "envelope" => TakeRawCid(f.cid) = {f.of}
<1>1. CASE f.type = "envelope"
  <2>1. f.of \in TakeCid(f.cid)
    BY <1>1 DEF TakeCid, GoodFrame
  <2>2. QED
    BY <1>1, <2>1, TakeOwn
<1>2. CASE f.type # "envelope"
  <2>1. TakeRawCid(f.cid) # {}
    BY <1>2 DEF TakeRawCid, GoodFrame
  <2>2. QED
    BY <1>2, <2>1, TakeRawOwn
<1>3. QED
  BY <1>1, <1>2

\* A delivery to one call fills its channel.
LEMMA DeliverFills ==
    ASSUME Inv, NEW c \in cids, NEW reply, Deliver({c}, reply)
    PROVE  ch'[c] # {}
<1>1. c \in Calls /\ ch' = [ch EXCEPT ![c] = {reply}]
  BY DEF Inv, TypeOK, Deliver
<1>2. QED
  BY <1>1 DEF Inv, TypeOK

\* One read of a complete reply.
LEMMA ReadReaches ==
    ASSUME Inv, MapSound, NEW k \in Conns, ReadEnvelope(k) \/ ReadPong(k) \/ ReadFin(k),
           pc[Head(wire[k]).of] = "waiting", ch[Head(wire[k]).of] = {},
           Head(wire[k]).type = "envelope" \/ nextCid <= RawMod + 1
    PROVE  ch'[Head(wire[k]).of] # {}
<1> DEFINE f == Head(wire[k])
<1>1. f \in Frame /\ GoodFrame(f)
  BY HeadGood DEF Inv, ReadEnvelope, ReadPong, ReadFin
<1>2. f.of \in cids
  BY <1>1 DEF MapSound, NoLostCaller, InProgress, Frame
<1>3. /\ f.type = "envelope" => TakeCid(f.cid) = {f.of}
      /\ f.type # "envelope" => TakeRawCid(f.cid) = {f.of}
  BY <1>1, <1>2, TakeExactly
<1>4. \E reply : Deliver({f.of}, reply)
  <2>1. CASE ReadEnvelope(k)
    BY <1>3, <2>1 DEF ReadEnvelope
  <2>2. CASE ReadPong(k)
    BY <1>3, <2>2 DEF ReadPong
  <2>3. CASE ReadFin(k)
    BY <1>3, <2>3 DEF ReadFin
  <2>4. QED
    BY <2>1, <2>2, <2>3
<1>5. QED
  BY <1>2, <1>4, DeliverFills

\* A reply read while its caller waits reaches it, however many calls, connections
\* and late replies there are: raw replies within the raw range, envelopes always.
THEOREM RepliesReach == Spec => ReplyReaches
<1>1. Init => Inv /\ MapSound
  BY InvInit DEF Init, MapSound, NoLostCaller, ReaderNeverBlocks, LeaksOnlyOnClose, InProgress
<1>2. Inv /\ MapSound /\ [Next]_vars => (Inv /\ MapSound)'
  BY InvNext, MapNext
<1>3. ASSUME Inv, MapSound
      PROVE  \A k \in Conns :
                (ReadEnvelope(k) \/ ReadPong(k) \/ ReadFin(k)) =>
                    LET f == Head(wire[k])
                    IN  /\ pc[f.of] = "waiting"
                        /\ ch[f.of] = {}
                        /\ f.type = "envelope" \/ nextCid <= RawMod + 1
                        => ch'[f.of] # {}
  BY <1>3, ReadReaches
<1>4. QED
  BY <1>1, <1>2, <1>3, PTL DEF Spec, ReplyReaches

(***************************************************************************)
(* Bodies are whole.  A response is spread over the parts buffered for it  *)
(* and the frames on its connection's wire.                                *)
(***************************************************************************)

\* Frame f is part n of the response to c; it is silent when it is no part at all.
Carries(c, f, n) ==
    f.of = c /\ f.type \in {"chunk", "fin"} /\ f.payload = << [of |-> c, nr |-> n] >>
Silent(c, f) == \A n \in Nat : ~Carries(c, f, n)

\* b is the beginning of the response to c, of which s parts were sent, and the
\* parts on the wire w are later ones, in order.
Stream(c, w, b, s) ==
    /\ Len(b) <= s
    /\ \A i \in 1 .. Len(b) : b[i] = [of |-> c, nr |-> i]
    /\ \A i \in 1 .. Len(w) : \A n \in Nat : Carries(c, w[i], n) => Len(b) < n /\ n <= s
    /\ \A i, j \in 1 .. Len(w) : i < j =>
          \A m, n \in Nat : Carries(c, w[i], m) /\ Carries(c, w[j], n) => m < n

\* Every part that is not buffered is on the wire.
Complete(c, w, b, s) ==
    \A n \in Nat : Len(b) < n /\ n <= s => \E i \in 1 .. Len(w) : Carries(c, w[i], n)

\* A wire after one more frame.
LEMMA Appended ==
    ASSUME NEW w \in Seq(Frame), NEW f \in Frame
    PROVE  /\ Append(w, f) \in Seq(Frame) /\ Len(Append(w, f)) = Len(w) + 1
           /\ \A i \in 1 .. Len(w) : Append(w, f)[i] = w[i]
           /\ Append(w, f)[Len(w) + 1] = f
  OBVIOUS

\* A wire without its first frame.
LEMMA Pulled ==
    ASSUME NEW w \in Seq(Frame), w # << >>
    PROVE  /\ Tail(w) \in Seq(Frame) /\ Len(Tail(w)) = Len(w) - 1 /\ Len(w) \in Nat \ {0}
           /\ \A i \in 1 .. Len(w) - 1 : Tail(w)[i] = w[i + 1]
           /\ Head(w) = w[1]
  OBVIOUS

\* A part has one number.
LEMMA OneNumber ==
    ASSUME NEW c, NEW f, NEW m \in Nat, NEW n \in Nat, Carries(c, f, m), Carries(c, f, n)
    PROVE  m = n
<1>1. << [of |-> c, nr |-> m] >> = << [of |-> c, nr |-> n] >>
  BY DEF Carries
<1>2. << [of |-> c, nr |-> m] >>[1] = << [of |-> c, nr |-> n] >>[1]
  BY <1>1
<1>3. QED
  BY <1>2

\* Frames that are no part of the response leave it where it is.
LEMMA PushSilent ==
    ASSUME NEW c, NEW w \in Seq(Frame), NEW f \in Frame, Silent(c, f), NEW b, NEW s
    PROVE  /\ Stream(c, w, b, s) => Stream(c, Append(w, f), b, s)
           /\ Complete(c, w, b, s) => Complete(c, Append(w, f), b, s)
<1>1. \A i \in 1 .. Len(Append(w, f)) : \A n \in Nat : Carries(c, Append(w, f)[i], n) =>
          i \in 1 .. Len(w) /\ Append(w, f)[i] = w[i]
  BY Appended DEF Silent
<1>2. \A i \in 1 .. Len(w) : i \in 1 .. Len(Append(w, f)) /\ Append(w, f)[i] = w[i]
  BY Appended
<1>3. QED
  BY <1>1, <1>2 DEF Stream, Complete

\* The next part is sent.
LEMMA PushPart ==
    ASSUME NEW c, NEW w \in Seq(Frame), NEW f \in Frame, NEW b \in Seq(Part), NEW s \in Nat,
           Carries(c, f, s + 1), Stream(c, w, b, s)
    PROVE  /\ Stream(c, Append(w, f), b, s + 1)
           /\ Complete(c, w, b, s) => Complete(c, Append(w, f), b, s + 1)
<1> DEFINE v == Append(w, f)
<1>1. /\ Len(v) = Len(w) + 1 /\ Len(w) \in Nat /\ Len(b) \in Nat /\ Len(b) <= s
      /\ \A i \in 1 .. Len(w) : v[i] = w[i]
      /\ v[Len(v)] = f
  BY Appended DEF Stream
<1> HIDE DEF v
<1>2. \A n \in Nat : Carries(c, f, n) => n = s + 1
  BY OneNumber
<1>3. ASSUME NEW i \in 1 .. Len(v), NEW n \in Nat, Carries(c, v[i], n)
      PROVE  /\ Len(b) < n /\ n <= s + 1
             /\ i = Len(v) => n = s + 1
             /\ i # Len(v) => n <= s
  <2>1. CASE i = Len(v)
    BY <1>1, <1>2, <1>3, <2>1
  <2>2. CASE i # Len(v)
    <3>1. i \in 1 .. Len(w) /\ v[i] = w[i]
      BY <1>1, <2>2
    <3>2. QED
      BY <1>1, <1>3, <2>2, <3>1 DEF Stream
  <2>3. QED
    BY <2>1, <2>2
<1>4. ASSUME NEW i \in 1 .. Len(v), NEW j \in 1 .. Len(v), i < j,
             NEW m \in Nat, NEW n \in Nat, Carries(c, v[i], m), Carries(c, v[j], n)
      PROVE  m < n
  <2>1. i \in 1 .. Len(w) /\ v[i] = w[i] /\ m <= s
    BY <1>1, <1>3, <1>4
  <2>2. CASE j = Len(v)
    BY <1>3, <1>4, <2>1, <2>2
  <2>3. CASE j # Len(v)
    <3>1. j \in 1 .. Len(w) /\ v[j] = w[j]
      BY <1>1, <2>3
    <3>2. QED
      BY <1>4, <2>1, <3>1 DEF Stream
  <2>4. QED
    BY <2>2, <2>3
<1>5. Stream(c, v, b, s + 1)
  <2>1. Len(b) <= s + 1
    BY <1>1
  <2>2. \A i \in 1 .. Len(b) : b[i] = [of |-> c, nr |-> i]
    BY DEF Stream
  <2>3. QED
    BY <1>3, <1>4, <2>1, <2>2 DEF Stream
<1>6. ASSUME Complete(c, w, b, s), NEW n \in Nat, Len(b) < n, n <= s + 1
      PROVE  \E i \in 1 .. Len(v) : Carries(c, v[i], n)
  <2>1. CASE n = s + 1
    BY <1>1, <2>1
  <2>2. CASE n # s + 1
    <3>1. PICK i \in 1 .. Len(w) : Carries(c, w[i], n)
      BY <1>6, <2>2 DEF Complete
    <3>2. QED
      BY <1>1, <3>1
  <2>3. QED
    BY <2>1, <2>2
<1>7. QED
  BY <1>5, <1>6 DEF Complete, v

\* A frame that is no part of the response is read.
LEMMA PullSilent ==
    ASSUME NEW c, NEW w \in Seq(Frame), w # << >>, Silent(c, Head(w)), NEW b, NEW s
    PROVE  /\ Stream(c, w, b, s) => Stream(c, Tail(w), b, s)
           /\ Complete(c, w, b, s) => Complete(c, Tail(w), b, s)
<1>1. \A i \in 1 .. Len(Tail(w)) : i + 1 \in 1 .. Len(w) /\ Tail(w)[i] = w[i + 1]
  BY Pulled
<1>2. \A i \in 1 .. Len(w) : \A n \in Nat : Carries(c, w[i], n) =>
          i - 1 \in 1 .. Len(Tail(w)) /\ Tail(w)[i - 1] = w[i]
  <2>1. \A i \in 1 .. Len(w) : i = 1 \/ (i - 1 \in 1 .. Len(w) - 1 /\ (i - 1) + 1 = i)
    BY Pulled
  <2>2. QED
    BY <2>1, Pulled DEF Silent
<1>3. Stream(c, w, b, s) => Stream(c, Tail(w), b, s)
  <2>1. \A i, j \in 1 .. Len(Tail(w)) : i < j => i + 1 < j + 1
    BY Pulled
  <2>2. QED
    BY <1>1, <2>1 DEF Stream
<1>4. Complete(c, w, b, s) => Complete(c, Tail(w), b, s)
  BY <1>2 DEF Complete
<1>5. QED
  BY <1>3, <1>4

\* The first part on the wire is the one that follows the buffer.
LEMMA NextPart ==
    ASSUME NEW c, NEW w \in Seq(Frame), w # << >>, NEW b \in Seq(Part), NEW s \in Nat,
           NEW n \in Nat, Carries(c, Head(w), n), Stream(c, w, b, s), Complete(c, w, b, s)
    PROVE  n = Len(b) + 1 /\ n <= s
<1>1. Len(b) \in Nat /\ 1 \in 1 .. Len(w) /\ Carries(c, w[1], n)
  BY Pulled
<1>2. Len(b) < n /\ n <= s
  BY <1>1 DEF Stream
<1>3. PICK i \in 1 .. Len(w) : Carries(c, w[i], Len(b) + 1)
  BY <1>1, <1>2 DEF Complete
<1>4. CASE i = 1
  BY <1>1, <1>2, <1>3, <1>4, OneNumber
<1>5. CASE i # 1
  <2>1. n < Len(b) + 1
    BY <1>1, <1>3, <1>5 DEF Stream
  <2>2. QED
    BY <1>1, <1>2, <2>1
<1>6. QED
  BY <1>2, <1>4, <1>5

\* A part is read and joins the buffer.
LEMMA PullPart ==
    ASSUME NEW c \in Calls, NEW w \in Seq(Frame), w # << >>, NEW b \in Seq(Part), NEW s \in Nat,
           NEW n \in Nat, Carries(c, Head(w), n), Stream(c, w, b, s), Complete(c, w, b, s)
    PROVE  /\ Stream(c, Tail(w), b \o Head(w).payload, s)
           /\ Complete(c, Tail(w), b \o Head(w).payload, s)
<1> DEFINE p == Head(w).payload
           d == b \o p
           v == Tail(w)
<1>1. n = Len(b) + 1 /\ n <= s /\ Len(b) \in Nat
  BY NextPart
<1>2. p = << [of |-> c, nr |-> n] >> /\ p \in Seq(Part) /\ Len(p) = 1 /\ p[1] = [of |-> c, nr |-> n]
  <2>1. p = << [of |-> c, nr |-> n] >>
    BY DEF Carries
  <2>2. << [of |-> c, nr |-> Len(b) + 1] >> \in Seq(Part)
    BY <1>1, OnePart
  <2>3. p \in Seq(Part)
    BY <1>1, <2>1, <2>2
  <2> HIDE DEF p
  <2>4. Len(p) = 1 /\ p[1] = [of |-> c, nr |-> n]
    BY <2>1
  <2>5. QED
    BY <2>1, <2>3, <2>4
<1>3. /\ Len(d) = n
      /\ \A i \in 1 .. n : d[i] = [of |-> c, nr |-> i]
  <2> HIDE DEF p
  <2>1. /\ Len(d) = Len(b) + 1
        /\ \A i \in 1 .. Len(b) + 1 : d[i] = IF i <= Len(b) THEN b[i] ELSE p[i - Len(b)]
    BY <1>1, <1>2
  <2>2. \A i \in 1 .. n : i \in 1 .. Len(b) \/ (i = n /\ i - Len(b) = 1)
    BY <1>1
  <2>3. \A i \in 1 .. Len(b) : b[i] = [of |-> c, nr |-> i]
    BY DEF Stream
  <2> HIDE DEF d
  <2>4. ASSUME NEW i \in 1 .. n PROVE d[i] = [of |-> c, nr |-> i]
    <3>1. CASE i \in 1 .. Len(b)
      <4>1. i \in 1 .. Len(b) + 1 /\ i <= Len(b)
        BY <1>1, <3>1
      <4>2. d[i] = b[i]
        BY <2>1, <4>1
      <4>3. QED
        BY <2>3, <3>1, <4>2
    <3>2. CASE i = n
      <4>1. d[n] = p[1]
        BY <1>1, <2>1
      <4>2. QED
        BY <1>2, <3>2, <4>1
    <3>3. QED
      BY <2>2, <3>1, <3>2
  <2>5. QED
    BY <1>1, <2>1, <2>4
<1>4. /\ \A i \in 1 .. Len(v) : i + 1 \in 1 .. Len(w) /\ v[i] = w[i + 1] /\ 1 < i + 1
      /\ \A i \in 1 .. Len(w) : i # 1 => i - 1 \in 1 .. Len(v) /\ v[i - 1] = w[i]
      /\ 1 \in 1 .. Len(w) /\ Carries(c, w[1], n)
  <2>1. \A i \in 1 .. Len(w) : i = 1 \/ (i - 1 \in 1 .. Len(w) - 1 /\ (i - 1) + 1 = i)
    BY Pulled
  <2>2. QED
    BY <2>1, Pulled
<1> HIDE DEF p, d, v
<1>5. ASSUME NEW i \in 1 .. Len(v), NEW m \in Nat, Carries(c, v[i], m)
      PROVE  Len(d) < m /\ m <= s
  BY <1>1, <1>3, <1>4, <1>5 DEF Stream
<1>6. ASSUME NEW i \in 1 .. Len(v), NEW j \in 1 .. Len(v), i < j,
             NEW m \in Nat, NEW o \in Nat, Carries(c, v[i], m), Carries(c, v[j], o)
      PROVE  m < o
  <2>1. i + 1 < j + 1
    BY <1>6, Pulled DEF v
  <2>2. QED
    BY <1>4, <1>6, <2>1 DEF Stream
<1>7. Stream(c, v, d, s)
  BY <1>1, <1>3, <1>5, <1>6 DEF Stream
<1>8. ASSUME NEW m \in Nat, Len(d) < m, m <= s
      PROVE  \E i \in 1 .. Len(v) : Carries(c, v[i], m)
  <2>1. PICK i \in 1 .. Len(w) : Carries(c, w[i], m)
    BY <1>1, <1>3, <1>8 DEF Complete
  <2>2. i # 1
    BY <1>3, <1>4, <1>8, <2>1, OneNumber
  <2>3. QED
    BY <1>4, <2>1, <2>2
<1>9. QED
  BY <1>7, <1>8 DEF Complete, d, v, p

\* The last part on the wire is read: the buffer and it are the response.
LEMMA PullLast ==
    ASSUME NEW c \in Calls, NEW w \in Seq(Frame), w # << >>, NEW b \in Seq(Part), NEW s \in Nat,
           Head(w).of = c, Head(w).type = "fin",
           Head(w).payload = << >> \/ \E n \in Nat : Carries(c, Head(w), n),
           \A i \in 1 .. Len(Tail(w)) : Tail(w)[i].of # c,
           Stream(c, w, b, s), Complete(c, w, b, s)
    PROVE  /\ b \o Head(w).payload = [i \in 1 .. s |-> [of |-> c, nr |-> i]]
           /\ Stream(c, Tail(w), << >>, s)
<1> DEFINE d == b \o Head(w).payload
<1>1. /\ d \in Seq(Part) /\ Len(d) <= s
      /\ \A i \in 1 .. Len(d) : d[i] = [of |-> c, nr |-> i]
      /\ Complete(c, Tail(w), d, s)
  <2>1. CASE Head(w).payload = << >>
    <3>1. \A n \in Nat : << [of |-> c, nr |-> n] >> # << >>
      OBVIOUS
    <3>2. Silent(c, Head(w))
      BY <2>1, <3>1 DEF Silent, Carries
    <3>3. d = b
      BY <2>1, ConcatEmptySeq
    <3>4. Complete(c, Tail(w), b, s)
      BY <3>2, PullSilent
    <3>5. Len(b) <= s /\ \A i \in 1 .. Len(b) : b[i] = [of |-> c, nr |-> i]
      BY DEF Stream
    <3> HIDE DEF d
    <3>6. QED
      BY <3>3, <3>4, <3>5
  <2>2. CASE \E n \in Nat : Carries(c, Head(w), n)
    <3>1. PICK n \in Nat : Carries(c, Head(w), n)
      BY <2>2
    <3>2. Stream(c, Tail(w), d, s) /\ Complete(c, Tail(w), d, s)
      BY <3>1, PullPart
    <3>3. n = Len(b) + 1 /\ Len(b) \in Nat
      BY <3>1, NextPart
    <3>4. Head(w).payload \in Seq(Part)
      BY <3>1, <3>3, OnePart DEF Carries
    <3>5. d \in Seq(Part)
      BY <3>4, ConcatProperties
    <3>6. QED
      BY <3>2, <3>5 DEF Stream
  <2>3. QED
    BY <2>1, <2>2
<1> HIDE DEF d
<1>2. Len(d) = s
  <2>1. Len(d) \in Nat
    BY <1>1
  <2>2. SUFFICES ASSUME Len(d) < s PROVE FALSE
    BY <1>1, <2>1
  <2>3. \E i \in 1 .. Len(Tail(w)) : Carries(c, Tail(w)[i], s)
    BY <1>1, <2>2 DEF Complete
  <2>4. QED
    BY <2>3 DEF Carries
<1>3. d = [i \in 1 .. s |-> [of |-> c, nr |-> i]]
  <2>1. d = [i \in 1 .. Len(d) |-> d[i]]
    BY <1>1, LenProperties
  <2>2. QED
    BY <1>1, <1>2, <2>1
<1>4. Stream(c, Tail(w), << >>, s)
  <2>1. \A i \in 1 .. Len(Tail(w)) : \A n \in Nat : ~Carries(c, Tail(w)[i], n)
    BY DEF Carries
  <2>2. Len(<< >>) = 0 /\ 0 <= s /\ 1 .. 0 = {}
    OBVIOUS
  <2>3. QED
    BY <2>1, <2>2 DEF Stream
<1>5. QED
  BY <1>3, <1>4 DEF d

(***************************************************************************)
(* The buffer of a call and the wire of its connection.                    *)
(***************************************************************************)

\* No part that a call still needs is missing, as long as it is not answered or
\* something of its answer is still to be read.
Flow(c, w, b, s, done) ==
    /\ Stream(c, w, b, s)
    /\ (~done \/ \E i \in 1 .. Len(w) : w[i].of = c) => Complete(c, w, b, s)

\* Frames of other calls do not matter, written or read.
LEMMA FlowOther ==
    ASSUME NEW c, NEW w \in Seq(Frame), NEW b, NEW s, NEW done, Flow(c, w, b, s, done)
    PROVE  /\ \A f \in Frame : f.of # c => Flow(c, Append(w, f), b, s, done)
           /\ w # << >> /\ Head(w).of # c => Flow(c, Tail(w), b, s, done)
<1>1. ASSUME NEW f \in Frame, f.of # c
      PROVE  Flow(c, Append(w, f), b, s, done)
  <2>1. Silent(c, f)
    BY <1>1 DEF Silent, Carries
  <2>2. (\E i \in 1 .. Len(Append(w, f)) : Append(w, f)[i].of = c) =>
            \E i \in 1 .. Len(w) : w[i].of = c
    BY <1>1, Appended
  <2>3. QED
    BY <2>1, <2>2, PushSilent DEF Flow
<1>2. ASSUME w # << >>, Head(w).of # c
      PROVE  Flow(c, Tail(w), b, s, done)
  <2>1. Silent(c, Head(w))
    BY <1>2 DEF Silent, Carries
  <2>2. \A i \in 1 .. Len(Tail(w)) : i + 1 \in 1 .. Len(w) /\ Tail(w)[i] = w[i + 1]
    BY <1>2, Pulled
  <2>3. QED
    BY <1>2, <2>1, <2>2, PullSilent DEF Flow
<1>3. QED
  BY <1>1, <1>2

\* What a frame is, and what is known of the call it answers.
Fits(k, f) ==
    /\ on[f.of] = k
    /\ f.type = "pong" => kind[f.of] = "ping"
    /\ f.type \in {"chunk", "fin"} => kind[f.of] = "api"
    /\ f.type # "chunk" => f.of \in answered
    /\ f.type = "chunk" => \E n \in Nat : Carries(f.of, f, n)
    /\ f.type = "fin" => f.payload = << >> \/ \E n \in Nat : Carries(f.of, f, n)

\* A call that has not written has no answer, frames fit their calls, and the
\* frame that ends an answer is the last one of it.
FrameInv ==
    /\ \A c \in Calls : pc[c] \in {"idle", "registered"} => on[c] = 0
    /\ \A c \in Calls : on[c] = 0 => sent[c] = 0 /\ c \notin answered
    /\ \A k \in Conns : \A i \in 1 .. Len(wire[k]) : Fits(k, wire[k][i])
    /\ \A k \in Conns : \A i, j \in 1 .. Len(wire[k]) :
          i < j /\ wire[k][i].type # "chunk" => wire[k][j].of # wire[k][i].of

Buffer(c) == streams[on[c]][Low16(cid[c])]

\* A buffer that is not empty belongs to a call, and every call's answer flows.
Owned ==
    \A k \in Conns : \A r \in RawCids : streams[k][r] # << >> =>
        \E c \in Calls : on[c] = k /\ Low16(cid[c]) = r
Flows ==
    \A c \in Calls : on[c] # 0 =>
        Flow(c, wire[on[c]], Buffer(c), sent[c], c \in answered)
StreamInv == nextCid <= RawMod + 1 => Owned /\ Flows

\* What was delivered is the whole answer.
BodyInv ==
    \A c \in Calls : \A r \in ch[c] :
        (r.raw /\ kind[c] = "api" /\ nextCid <= RawMod + 1) =>
            c \in answered /\ r.body = [i \in 1 .. sent[c] |-> [of |-> c, nr |-> i]]

\* What a call has done stays as it is, and frames go on fitting.
LEMMA FitsKept ==
    ASSUME FrameInv, NEW k \in Conns, NEW f \in Frame, Fits(k, f),
           \A c \in Calls : on[c] # 0 => on'[c] = on[c] /\ kind'[c] = kind[c],
           answered \subseteq answered'
    PROVE  Fits(k, f)'
<1>1. f.of \in Calls /\ k # 0
  BY DEF Frame, Conns
<1>2. QED
  BY <1>1 DEF Fits, Carries

\* Frames on the wires, after what a step may do to them.
Sound(k, w) ==
    /\ \A i \in 1 .. Len(w) : Fits(k, w[i])
    /\ \A i, j \in 1 .. Len(w) : i < j /\ w[i].type # "chunk" => w[j].of # w[i].of

\* A frame of an unanswered call joins the wire.
LEMMA SoundPush ==
    ASSUME NEW k, NEW w \in Seq(Frame), NEW f \in Frame, Sound(k, w),
           f.of \notin answered
    PROVE  Sound(k, w) /\ \A i, j \in 1 .. Len(Append(w, f)) :
               i < j /\ Append(w, f)[i].type # "chunk" => Append(w, f)[j].of # Append(w, f)[i].of
<1> DEFINE v == Append(w, f)
<1>1. /\ Len(v) = Len(w) + 1 /\ Len(w) \in Nat
      /\ \A i \in 1 .. Len(w) : v[i] = w[i]
      /\ v[Len(v)] = f
  BY Appended
<1> HIDE DEF v
<1>2. ASSUME NEW i \in 1 .. Len(v), NEW j \in 1 .. Len(v), i < j, v[i].type # "chunk"
      PROVE  v[j].of # v[i].of
  <2>1. i \in 1 .. Len(w) /\ v[i] = w[i]
    BY <1>1, <1>2
  <2>2. CASE j = Len(v)
    BY <1>1, <1>2, <2>1, <2>2 DEF Sound, Fits
  <2>3. CASE j # Len(v)
    <3>1. j \in 1 .. Len(w) /\ v[j] = w[j]
      BY <1>1, <2>3
    <3>2. QED
      BY <1>2, <2>1, <3>1 DEF Sound
  <2>4. QED
    BY <2>2, <2>3
<1>3. QED
  BY <1>2 DEF v

\* The first frame leaves the wire.
LEMMA SoundPull ==
    ASSUME NEW k, NEW w \in Seq(Frame), w # << >>, Sound(k, w)
    PROVE  /\ Fits(k, Head(w)) /\ Sound(k, Tail(w))
           /\ Head(w).type # "chunk" => \A i \in 1 .. Len(Tail(w)) : Tail(w)[i].of # Head(w).of
<1>1. /\ \A i \in 1 .. Len(Tail(w)) : i + 1 \in 1 .. Len(w) /\ Tail(w)[i] = w[i + 1] /\ 1 < i + 1
      /\ \A i, j \in 1 .. Len(Tail(w)) : i < j => i + 1 < j + 1
      /\ 1 \in 1 .. Len(w) /\ Head(w) = w[1]
  BY Pulled
<1>2. QED
  BY <1>1 DEF Sound

\* Every frame a step leaves on a wire fits, if the ones it adds do.
LEMMA FramesFit ==
    ASSUME Inv, FrameInv, NEW k \in Conns, NEW w \in Seq(Frame), Sound(k, w),
           \A c \in Calls : on[c] # 0 => on'[c] = on[c] /\ kind'[c] = kind[c],
           answered \subseteq answered'
    PROVE  \A i \in 1 .. Len(w) : Fits(k, w[i])'
<1>1. \A i \in 1 .. Len(w) : w[i] \in Frame
  OBVIOUS
<1>2. QED
  BY <1>1, FitsKept DEF Sound

\* FrameInv, put together from the wires.
LEMMA FrameJoin ==
    ASSUME Inv, FrameInv, NEW k \in Conns
    PROVE  wire[k] \in Seq(Frame) /\ Sound(k, wire[k])
BY DEF Inv, TypeOK, FrameInv, Sound

\* A step that leaves the wires alone.
LEMMA FrameIdle ==
    ASSUME Inv, FrameInv, UNCHANGED <<wire, sent, answered>>,
           \A c \in Calls : on[c] # 0 => on'[c] = on[c] /\ kind'[c] = kind[c],
           \A c \in Calls : pc'[c] \in {"idle", "registered"} => on'[c] = 0,
           \A c \in Calls : on'[c] = 0 => on[c] = 0
    PROVE  FrameInv'
<1>1. \A k \in Conns : wire'[k] = wire[k] /\ Sound(k, wire[k])
  BY FrameJoin
<1>2. \A k \in Conns : \A i \in 1 .. Len(wire[k]) : Fits(k, wire[k][i])'
  BY FrameJoin, FramesFit
<1>3. QED
  BY <1>1, <1>2 DEF FrameInv, Sound, Fits

\* The server adds a frame of a call that is not answered yet.
LEMMA FramePush ==
    ASSUME Inv, FrameInv, NEW c \in Calls, NEW f \in Frame, Open(c), Push(c, f), f.of = c,
           UNCHANGED <<pc, on, kind>>, answered' \in {answered, answered \cup {c}},
           \A d \in Calls : d # c => sent'[d] = sent[d],
           \A k : k = on[c] => Fits(k, f)'
    PROVE  FrameInv'
<1>0. on[c] \in Conns /\ on[c] # 0 /\ c \notin answered
  BY DEF Inv, TypeOK, Open, Written, Conns
<1>1. /\ \A k \in Conns : k # on[c] => wire'[k] = wire[k]
      /\ wire'[on[c]] = Append(wire[on[c]], f)
  BY <1>0 DEF Inv, TypeOK, Push
<1>2. /\ \A d \in Calls : on[d] # 0 => on'[d] = on[d] /\ kind'[d] = kind[d]
      /\ answered \subseteq answered'
  OBVIOUS
<1>3. ASSUME NEW k \in Conns, NEW w, w = wire[k], NEW v, v = wire'[k]
      PROVE  /\ \A i \in 1 .. Len(v) : Fits(k, v[i])'
             /\ \A i, j \in 1 .. Len(v) : i < j /\ v[i].type # "chunk" => v[j].of # v[i].of
  <2>1. w \in Seq(Frame) /\ Sound(k, w)
    BY <1>3, FrameJoin
  <2>2. \A i \in 1 .. Len(w) : Fits(k, w[i])'
    BY <1>2, <2>1, FramesFit
  <2>3. CASE k = on[c]
    <3>1. v = Append(w, f)
      BY <1>1, <1>3, <2>3
    <3>2. \A i \in 1 .. Len(v) : (i \in 1 .. Len(w) /\ v[i] = w[i]) \/ v[i] = f
      BY <2>1, <3>1, Appended
    <3>3. \A i \in 1 .. Len(v) : Fits(k, v[i])'
      BY <2>2, <2>3, <3>2
    <3>4. QED
      BY <1>0, <2>1, <3>1, <3>3, SoundPush
  <2>4. CASE k # on[c]
    <3>1. v = w
      BY <1>1, <1>3, <2>4
    <3>2. QED
      BY <2>1, <2>2, <3>1 DEF Sound
  <2>5. QED
    BY <2>3, <2>4
<1>4. ASSUME NEW d \in Calls
      PROVE  /\ pc'[d] \in {"idle", "registered"} => on'[d] = 0
             /\ on'[d] = 0 => sent'[d] = 0 /\ d \notin answered'
  BY <1>0 DEF FrameInv
<1>5. QED
  BY <1>3, <1>4 DEF FrameInv, Fits

\* The reader takes a frame off.
LEMMA FramePull ==
    ASSUME Inv, FrameInv, NEW k \in Conns, Reading(k), Pull(k),
           UNCHANGED <<pc, on, kind, sent, answered>>
    PROVE  FrameInv'
<1>1. /\ \A n \in Conns : n # k => wire'[n] = wire[n]
      /\ wire'[k] = Tail(wire[k]) /\ wire[k] # << >>
  BY DEF Inv, TypeOK, Pull, Reading
<1>2. \A n \in Conns : wire[n] \in Seq(Frame) /\ Sound(n, wire[n])
  BY FrameJoin
<1>3. \A n \in Conns : Sound(n, wire'[n])
  BY <1>1, <1>2, SoundPull
<1>4. \A n, g : Fits(n, g)' <=> Fits(n, g)
  BY DEF Fits
<1>5. QED
  BY <1>3, <1>4 DEF FrameInv, Sound, Fits

\* The server's frames are frames of the call they answer, and they fit it.
LEMMA FrameServer ==
    ASSUME Inv, FrameInv, NEW c \in Calls, Server(c)
    PROVE  /\ FrameInv'
           /\ Open(c) /\ UNCHANGED <<cids, ch, streams, nextCid, pc, kind, cid, on>>
           /\ \A d \in Calls : d # c => sent'[d] = sent[d] /\ (d \in answered' <=> d \in answered)
           /\ \E f \in Frame : /\ Push(c, f) /\ f.of = c
                               /\ \/ Silent(c, f) /\ sent'[c] = sent[c]
                                  \/ Carries(c, f, sent[c] + 1) /\ sent'[c] = sent[c] + 1
<1> USE DEF callVars, socketVars
<1>0. /\ cid[c] \in Nat /\ Low16(cid[c]) \in Nat /\ sent[c] \in Nat /\ sent[c] + 1 \in Nat
      /\ \A n \in Nat : << [of |-> c, nr |-> n] >> # << >>
  <2>1. ASSUME NEW e PROVE << e >> # << >>
    OBVIOUS
  <2>2. cid[c] \in Nat /\ Low16(cid[c]) \in Nat /\ sent[c] \in Nat
    BY LowRange DEF Inv, TypeOK, RawCids
  <2>3. QED
    BY <2>1, <2>2
<1>1. CASE ServeEnvelope(c)
  <2>0. [type |-> "envelope", cid |-> cid[c], of |-> c, payload |-> << >>] \in Frame
    BY <1>0, EmptySeqs DEF Frame
  <2>1. PICK f \in Frame :
            f = [type |-> "envelope", cid |-> cid[c], of |-> c, payload |-> << >>]
    BY <2>0
  <2>2. Open(c) /\ Push(c, f) /\ answered' = answered \cup {c}
    BY <1>1, <2>1 DEF ServeEnvelope
  <2>3. Silent(c, f)
    BY <2>1 DEF Silent, Carries
  <2>4. \A k : k = on[c] => Fits(k, f)'
    BY <1>1, <2>1, <2>2 DEF Fits, ServeEnvelope
  <2>5. FrameInv'
    BY <1>1, <2>1, <2>2, <2>4, FramePush DEF ServeEnvelope
  <2>6. QED
    BY <1>1, <2>1, <2>2, <2>3, <2>5 DEF ServeEnvelope
<1>2. CASE ServePong(c)
  <2>0. [type |-> "pong", cid |-> Low16(cid[c]), of |-> c, payload |-> << >>] \in Frame
    BY <1>0, EmptySeqs DEF Frame
  <2>1. PICK f \in Frame :
            f = [type |-> "pong", cid |-> Low16(cid[c]), of |-> c, payload |-> << >>]
    BY <2>0
  <2>2. Open(c) /\ Push(c, f) /\ answered' = answered \cup {c} /\ kind[c] = "ping"
    BY <1>2, <2>1 DEF ServePong
  <2>3. Silent(c, f)
    BY <2>1 DEF Silent, Carries
  <2>4. \A k : k = on[c] => Fits(k, f)'
    BY <1>2, <2>1, <2>2 DEF Fits, ServePong
  <2>5. FrameInv'
    BY <1>2, <2>1, <2>2, <2>4, FramePush DEF ServePong
  <2>6. QED
    BY <1>2, <2>1, <2>2, <2>3, <2>5 DEF ServePong
<1>3. CASE ServeChunk(c)
  <2>0. [type |-> "chunk", cid |-> Low16(cid[c]), of |-> c,
         payload |-> << [of |-> c, nr |-> sent[c] + 1] >>] \in Frame
    BY <1>0, OnePart DEF Frame
  <2>1. PICK f \in Frame : f = [type |-> "chunk", cid |-> Low16(cid[c]), of |-> c,
                                payload |-> << [of |-> c, nr |-> sent[c] + 1] >>]
    BY <2>0
  <2>2. Open(c) /\ Push(c, f) /\ kind[c] = "api"
    BY <1>3, <2>1 DEF ServeChunk
  <2>3. Carries(c, f, sent[c] + 1) /\ f.type = "chunk" /\ f.of = c
    BY <2>1 DEF Carries
  <2>4. \A k : k = on[c] => Fits(k, f)'
    <3>1. \E n \in Nat : Carries(c, f, n)
      BY <1>0, <2>3
    <3>2. QED
      BY <1>3, <2>2, <2>3, <3>1 DEF Fits, ServeChunk
  <2>5. sent' = [sent EXCEPT ![c] = sent[c] + 1]
    BY <1>3 DEF ServeChunk
  <2>6. FrameInv'
    BY <1>3, <2>1, <2>2, <2>4, <2>5, FramePush DEF ServeChunk, Inv, TypeOK
  <2>7. QED
    BY <1>3, <2>1, <2>2, <2>3, <2>5, <2>6 DEF ServeChunk, Inv, TypeOK
<1>4. CASE \E carries \in BOOLEAN : ServeFin(c, carries)
  <2>0. PICK carries \in BOOLEAN : ServeFin(c, carries)
    BY <1>4
  <2> DEFINE p == IF carries THEN << [of |-> c, nr |-> sent[c] + 1] >> ELSE << >>
  <2>0a. [type |-> "fin", cid |-> Low16(cid[c]), of |-> c, payload |-> p] \in Frame
    BY <1>0, OnePart, EmptySeqs DEF Frame
  <2>0b. PICK f \in Frame :
             f = [type |-> "fin", cid |-> Low16(cid[c]), of |-> c, payload |-> p]
    BY <2>0a
  <2>1. f \in Frame /\ f.of = c /\ f.type = "fin" /\ f.payload = p
    BY <2>0b
  <2>2. Open(c) /\ Push(c, f) /\ kind[c] = "api" /\ answered' = answered \cup {c}
    BY <2>0, <2>0b DEF ServeFin
  <2>3. sent' = [sent EXCEPT ![c] = IF carries THEN sent[c] + 1 ELSE sent[c]]
    BY <2>0 DEF ServeFin
  <2>4. \/ Silent(c, f) /\ sent'[c] = sent[c] /\ f.payload = << >>
        \/ Carries(c, f, sent[c] + 1) /\ sent'[c] = sent[c] + 1
    <3>1. CASE carries
      BY <2>1, <2>3, <3>1 DEF Inv, TypeOK, Carries
    <3>2. CASE ~carries
      BY <1>0, <2>1, <2>3, <3>2 DEF Inv, TypeOK, Silent, Carries
    <3>3. QED
      BY <3>1, <3>2
  <2> HIDE DEF p
  <2>5. \A k : k = on[c] => Fits(k, f)'
    <3>1. f.payload = << >> \/ \E n \in Nat : Carries(c, f, n)
      BY <1>0, <2>4
    <3>2. QED
      BY <2>0, <2>1, <2>2, <3>1 DEF Fits, ServeFin
  <2>6. \A d \in Calls : d # c => sent'[d] = sent[d]
    BY <2>3 DEF Inv, TypeOK
  <2>7. FrameInv'
    BY <2>0, <2>1, <2>2, <2>5, <2>6, FramePush DEF ServeFin
  <2>8. QED
    BY <2>0, <2>1, <2>2, <2>4, <2>6, <2>7 DEF ServeFin
<1>5. QED
  BY <1>1, <1>2, <1>3, <1>4 DEF Server

\* Every step leaves frames that fit their calls.
LEMMA FrameNext ==
    ASSUME Inv, FrameInv, Next
    PROVE  FrameInv'
<1> USE DEF callVars, socketVars, serverVars
<1>1. CASE Connect \/ ClearConnected \/ \E k \in Conns : CloseDone(k)
  <2>1. UNCHANGED <<wire, sent, answered, on, kind, pc>>
    BY <1>1 DEF Connect, ClearConnected, CloseDone
  <2>2. QED
    BY <2>1, FrameIdle DEF FrameInv
<1>2. ASSUME NEW c \in Calls, Caller(c) PROVE FrameInv'
  <2>1. /\ UNCHANGED <<wire, sent, answered>>
        /\ \A d \in Calls : on[d] # 0 => on'[d] = on[d] /\ kind'[d] = kind[d]
        /\ \A d \in Calls : pc'[d] \in {"idle", "registered"} => on'[d] = 0
        /\ \A d \in Calls : on'[d] = 0 => on[d] = 0
    <3>1. CASE \E k \in Kinds : Register(c, k)
      BY <3>1 DEF Register, Inv, TypeOK, FrameInv
    <3>2. CASE Write(c)
      BY <3>2 DEF Write, Inv, TypeOK, FrameInv
    <3>3. CASE RefuseClosed(c) \/ Fail(c) \/ Receive(c) \/ Timeout(c) \/ SeeDone(c)
      BY <3>3 DEF RefuseClosed, Fail, Receive, Timeout, SeeDone, Return, Inv, TypeOK, FrameInv
    <3>4. QED
      BY <1>2, <3>1, <3>2, <3>3 DEF Caller
  <2>2. QED
    BY <2>1, FrameIdle
<1>3. ASSUME NEW c \in Calls, Server(c) PROVE FrameInv'
  BY <1>3, FrameServer
<1>4. ASSUME NEW k \in Conns, Reader(k) PROVE FrameInv'
  BY <1>4, FramePull DEF Reader, ReadEnvelope, SkipUndecodable, ReadPong, ReadChunk, ReadFin
<1>5. QED
  BY <1>1, <1>2, <1>3, <1>4 DEF Next

(***************************************************************************)
(* The buffers.                                                            *)
(***************************************************************************)

\* Calls that wrote and are told apart by their raw cids.
LEMMA Apart ==
    ASSUME Inv, nextCid <= RawMod + 1, NEW c \in Calls, NEW d \in Calls,
           cid[c] # 0, cid[d] # 0, Low16(cid[c]) = Low16(cid[d])
    PROVE  c = d
<1>1. cid[c] \in 1 .. RawMod /\ cid[d] \in 1 .. RawMod
  BY InRange
<1>2. cid[c] = cid[d]
  BY <1>1, LowInjective
<1>3. QED
  BY <1>2 DEF Inv, CidInv

\* What is known of a call that wrote.
LEMMA Writer ==
    ASSUME Inv, NEW c \in Calls, on[c] # 0
    PROVE  /\ on[c] \in Conns /\ cid[c] # 0 /\ cid[c] \in Nat /\ Low16(cid[c]) \in RawCids
           /\ wire[on[c]] \in Seq(Frame) /\ Buffer(c) \in Seq(Part) /\ sent[c] \in Nat
<1>1. on[c] \in Conns /\ cid[c] # 0 /\ cid[c] \in Nat /\ sent[c] \in Nat
  BY DEF Inv, TypeOK, CidInv, Conns
<1>2. Low16(cid[c]) \in RawCids
  BY <1>1, LowRange
<1>3. QED
  BY <1>1, <1>2 DEF Inv, TypeOK, Buffer

\* Steps that touch neither wires, buffers, nor what calls have done.
LEMMA StreamIdle ==
    ASSUME StreamInv, UNCHANGED <<wire, streams, sent, answered, on, cid, nextCid>>
    PROVE  StreamInv'
BY DEF StreamInv, Owned, Flows, Buffer, Low16, Conns, RawCids

\* A call takes its cid: it has no buffer and no frames yet.
LEMMA StreamRegister ==
    ASSUME Inv, FrameInv, StreamInv, NEW c \in Calls, NEW k \in Kinds, Register(c, k)
    PROVE  StreamInv'
<1> USE DEF serverVars, socketVars
<1>1. SUFFICES ASSUME nextCid' <= RawMod + 1 PROVE Owned' /\ Flows'
  BY DEF StreamInv
<1>2. Owned /\ Flows
  <2>1. nextCid <= RawMod + 1
    BY <1>1 DEF Register, Inv, TypeOK
  <2>2. QED
    BY <2>1 DEF StreamInv
<1>3. /\ on[c] = 0 /\ UNCHANGED <<streams, wire, on, sent, answered>>
      /\ \A d \in Calls : d # c => cid'[d] = cid[d]
  BY DEF Register, Inv, TypeOK, CidInv
<1>4. Owned'
  <2>1. ASSUME NEW n \in Conns, NEW r \in RawCids, streams[n][r] # << >>
        PROVE  \E d \in Calls : on[d] = n /\ Low16(cid'[d]) = r
    <3>1. PICK d \in Calls : on[d] = n /\ Low16(cid[d]) = r
      BY <1>2, <2>1 DEF Owned
    <3>2. d # c
      BY <1>3, <3>1 DEF Conns
    <3>3. QED
      BY <1>3, <3>1, <3>2
  <2>2. QED
    BY <1>3, <2>1 DEF Owned, Low16
<1>5. Flows'
  <2>1. ASSUME NEW d \in Calls, on[d] # 0
        PROVE  Flow(d, wire[on[d]], streams[on[d]][Low16(cid'[d])], sent[d], d \in answered)
    BY <1>2, <1>3, <2>1 DEF Flows, Buffer
  <2>2. QED
    BY <1>3, <2>1 DEF Flows, Buffer
<1>6. QED
  BY <1>4, <1>5

\* A call writes: nothing of it is buffered or on the wire of its connection.
LEMMA StreamWrite ==
    ASSUME Inv, FrameInv, StreamInv, NEW c \in Calls, Write(c)
    PROVE  StreamInv'
<1> USE DEF serverVars, socketVars
<1>1. SUFFICES ASSUME nextCid <= RawMod + 1 PROVE Owned' /\ Flows'
  BY DEF StreamInv, Write
<1>2. Owned /\ Flows
  BY <1>1 DEF StreamInv
<1>3. /\ on[c] = 0 /\ sent[c] = 0 /\ cid[c] # 0 /\ cid[c] \in Nat
      /\ UNCHANGED <<streams, wire, cid, sent, answered>>
      /\ on'[c] = conn /\ conn \in 0 .. MaxConns
      /\ \A d \in Calls : d # c => on'[d] = on[d]
  BY DEF Write, Inv, TypeOK, CidInv, FrameInv, InProgress
<1>4. Owned'
  <2>1. ASSUME NEW n \in Conns, NEW r \in RawCids, streams[n][r] # << >>
        PROVE  \E d \in Calls : on'[d] = n /\ Low16(cid[d]) = r
    <3>1. PICK d \in Calls : on[d] = n /\ Low16(cid[d]) = r
      BY <1>2, <2>1 DEF Owned
    <3>2. d # c
      BY <1>3, <3>1 DEF Conns
    <3>3. QED
      BY <1>3, <3>1, <3>2
  <2>2. QED
    BY <1>3, <2>1 DEF Owned, Low16
<1>5. ASSUME conn # 0
      PROVE  Flow(c, wire[conn], streams[conn][Low16(cid[c])], sent[c], c \in answered)
  <2>1. conn \in Conns /\ Low16(cid[c]) \in RawCids
    BY <1>3, <1>5, LowRange DEF Conns
  <2>2. streams[conn][Low16(cid[c])] = << >>
    <3>1. SUFFICES ASSUME NEW d \in Calls, on[d] = conn, Low16(cid[d]) = Low16(cid[c])
                   PROVE  FALSE
      BY <1>2, <2>1 DEF Owned
    <3>2. cid[d] # 0
      BY <1>5, <3>1, Writer
    <3>3. d = c
      BY <1>1, <1>3, <3>1, <3>2, Apart
    <3>4. QED
      BY <1>3, <1>5, <3>1, <3>3
  <2>3. \A i \in 1 .. Len(wire[conn]) : wire[conn][i].of # c
    BY <1>3, <1>5, <2>1 DEF FrameInv, Fits
  <2>4. QED
    BY <1>3, <2>2, <2>3 DEF Flow, Stream, Complete, Carries
<1>6. ASSUME NEW d \in Calls, on'[d] # 0
      PROVE  Flow(d, wire[on'[d]], streams[on'[d]][Low16(cid[d])], sent[d], d \in answered)
  <2>1. CASE d = c
    BY <1>3, <1>5, <1>6, <2>1
  <2>2. CASE d # c
    BY <1>2, <1>3, <1>6, <2>2 DEF Flows, Buffer
  <2>3. QED
    BY <2>1, <2>2
<1>7. Flows'
  BY <1>3, <1>6 DEF Flows, Buffer
<1>8. QED
  BY <1>4, <1>7

\* The server sends: its own call's answer goes on, the others do not notice.
LEMMA StreamServer ==
    ASSUME Inv, FrameInv, StreamInv, NEW c \in Calls, Server(c)
    PROVE  StreamInv'
<1>1. /\ Open(c) /\ UNCHANGED <<streams, nextCid, cid, on>>
      /\ \A d \in Calls : d # c => sent'[d] = sent[d] /\ (d \in answered' <=> d \in answered)
  BY FrameServer
<1>2. PICK f \in Frame : /\ Push(c, f) /\ f.of = c
                         /\ \/ Silent(c, f) /\ sent'[c] = sent[c]
                            \/ Carries(c, f, sent[c] + 1) /\ sent'[c] = sent[c] + 1
  BY FrameServer
<1>3. SUFFICES ASSUME nextCid <= RawMod + 1 PROVE Owned' /\ Flows'
  BY <1>1 DEF StreamInv
<1>4. Owned /\ Flows
  BY <1>3 DEF StreamInv
<1>5. Owned'
  BY <1>1, <1>4 DEF Owned
<1>6. /\ on[c] \in Conns /\ on[c] # 0 /\ c \notin answered
      /\ \A k \in Conns : k # on[c] => wire'[k] = wire[k]
      /\ wire'[on[c]] = Append(wire[on[c]], f)
  BY <1>1, <1>2 DEF Open, Written, Conns, Inv, TypeOK, Push
<1>7. ASSUME NEW d \in Calls, on[d] # 0
      PROVE  Flow(d, wire'[on[d]], Buffer(d), sent'[d], d \in answered')
  <2>1. /\ on[d] \in Conns /\ wire[on[d]] \in Seq(Frame) /\ Buffer(d) \in Seq(Part)
        /\ sent[d] \in Nat
    BY <1>7, Writer
  <2>2. Flow(d, wire[on[d]], Buffer(d), sent[d], d \in answered)
    BY <1>4, <1>7 DEF Flows
  <2>3. CASE d = c
    <3>1. Flow(c, wire[on[c]], Buffer(c), sent[c], FALSE)
      BY <1>6, <2>2, <2>3 DEF Flow
    <3>2. Stream(c, wire[on[c]], Buffer(c), sent[c]) /\ Complete(c, wire[on[c]], Buffer(c), sent[c])
      BY <3>1 DEF Flow
    <3>3. CASE Silent(c, f) /\ sent'[c] = sent[c]
      <4>1. /\ Stream(c, Append(wire[on[c]], f), Buffer(c), sent[c])
            /\ Complete(c, Append(wire[on[c]], f), Buffer(c), sent[c])
        BY <2>1, <2>3, <3>2, <3>3, PushSilent
      <4>2. Flow(c, Append(wire[on[c]], f), Buffer(c), sent[c], c \in answered')
        BY <4>1 DEF Flow
      <4>3. QED
        BY <1>6, <2>3, <3>3, <4>2
    <3>4. CASE Carries(c, f, sent[c] + 1) /\ sent'[c] = sent[c] + 1
      <4>1. /\ Stream(c, Append(wire[on[c]], f), Buffer(c), sent[c] + 1)
            /\ Complete(c, Append(wire[on[c]], f), Buffer(c), sent[c] + 1)
        BY <2>1, <2>3, <3>2, <3>4, PushPart
      <4>2. Flow(c, Append(wire[on[c]], f), Buffer(c), sent[c] + 1, c \in answered')
        BY <4>1 DEF Flow
      <4>3. QED
        BY <1>6, <2>3, <3>4, <4>2
    <3>5. QED
      BY <1>2, <3>3, <3>4
  <2>4. CASE d # c
    <3>1. sent'[d] = sent[d] /\ (d \in answered' <=> d \in answered)
      BY <1>1, <2>4
    <3>2. Flow(d, wire[on[d]], Buffer(d), sent'[d], d \in answered')
      BY <2>2, <3>1 DEF Flow
    <3>3. CASE on[d] = on[c]
      BY <1>2, <1>6, <2>1, <2>4, <3>2, <3>3, FlowOther
    <3>4. CASE on[d] # on[c]
      BY <1>6, <2>1, <3>2, <3>4
    <3>5. QED
      BY <3>3, <3>4
  <2>5. QED
    BY <2>3, <2>4
<1>8. Flows'
  BY <1>1, <1>7 DEF Flows, Buffer
<1>9. QED
  BY <1>5, <1>8

\* What a frame on a wire answers, and where its parts go.
LEMMA HeadFits ==
    ASSUME Inv, FrameInv, NEW k \in Conns, Reading(k), NEW f, f = Head(wire[k])
    PROVE  /\ f \in Frame /\ f.of \in Calls /\ on[f.of] = k /\ Fits(k, f)
           /\ f.type # "envelope" => f.cid = Low16(cid[f.of])
           /\ f.type # "chunk" => \A i \in 1 .. Len(Tail(wire[k])) : Tail(wire[k])[i].of # f.of
<1>1. wire[k] \in Seq(Frame) /\ Sound(k, wire[k]) /\ wire[k] # << >>
  BY FrameJoin DEF Reading
<1>2. f \in Frame /\ GoodFrame(f)
  BY HeadGood DEF Inv
<1>3. /\ Fits(k, f)
      /\ f.type # "chunk" => \A i \in 1 .. Len(Tail(wire[k])) : Tail(wire[k])[i].of # f.of
  BY <1>1, SoundPull
<1>4. QED
  BY <1>2, <1>3 DEF Frame, Fits, GoodFrame

\* The buffer a reader leaves for the call of the frame it read.
After(f, b) ==
    IF f.type = "chunk" THEN b \o f.payload ELSE IF f.type = "fin" THEN << >> ELSE b

\* Reading a frame of the call.
LEMMA FlowPull ==
    ASSUME NEW c \in Calls, NEW k, NEW w \in Seq(Frame), w # << >>, NEW b \in Seq(Part),
           NEW s \in Nat, Head(w).of = c, Fits(k, Head(w)),
           Head(w).type # "chunk" => \A i \in 1 .. Len(Tail(w)) : Tail(w)[i].of # c,
           Flow(c, w, b, s, c \in answered)
    PROVE  Flow(c, Tail(w), After(Head(w), b), s, c \in answered)
<1> DEFINE f == Head(w)
<1>1. Stream(c, w, b, s) /\ Complete(c, w, b, s) /\ f \in Frame
  <2>1. 1 \in 1 .. Len(w) /\ f = w[1] /\ f \in Frame
    BY Pulled
  <2>2. QED
    BY <2>1 DEF Flow
<1>2. f.type \in {"envelope", "pong", "chunk", "fin"}
  BY <1>1 DEF Frame
<1>3. CASE f.type \in {"envelope", "pong"}
  <2>1. Silent(c, f)
    BY <1>3 DEF Silent, Carries
  <2>2. QED
    BY <1>1, <1>3, <2>1, PullSilent DEF Flow, After
<1>4. CASE f.type = "chunk"
  <2>1. PICK n \in Nat : Carries(c, f, n)
    BY <1>4 DEF Fits
  <2>2. QED
    BY <1>1, <1>4, <2>1, PullPart DEF Flow, After
<1>5. CASE f.type = "fin"
  <2>1. f.payload = << >> \/ \E n \in Nat : Carries(c, f, n)
    BY <1>5 DEF Fits
  <2>2. Stream(c, Tail(w), << >>, s)
    BY <1>1, <1>5, <2>1, PullLast
  <2>3. c \in answered /\ \A i \in 1 .. Len(Tail(w)) : Tail(w)[i].of # c
    BY <1>5 DEF Fits
  <2>4. QED
    BY <1>5, <2>2, <2>3 DEF Flow, After
<1>6. QED
  BY <1>2, <1>3, <1>4, <1>5

\* readLoop: the frame's call moves on, the others on its connection have other
\* raw cids, those on other connections other buffers.
LEMMA StreamReader ==
    ASSUME Inv, FrameInv, StreamInv, NEW k \in Conns, Reader(k)
    PROVE  StreamInv'
<1> USE DEF callVars, socketVars
<1>1. Reading(k) /\ Pull(k) /\ UNCHANGED <<nextCid, cid, on, sent, answered>>
  BY DEF Reader, ReadEnvelope, SkipUndecodable, ReadPong, ReadChunk, ReadFin
<1>2. PICK f : f = Head(wire[k])
  OBVIOUS
<1> DEFINE c == f.of
<1>3. /\ f \in Frame /\ c \in Calls /\ on[c] = k /\ Fits(k, f)
      /\ f.type # "envelope" => f.cid = Low16(cid[c])
      /\ f.type # "chunk" => \A i \in 1 .. Len(Tail(wire[k])) : Tail(wire[k])[i].of # c
  BY <1>1, <1>2, HeadFits
<1> HIDE DEF c
<1>4. /\ on[c] # 0 /\ cid[c] # 0 /\ Low16(cid[c]) \in RawCids
      /\ wire[k] \in Seq(Frame) /\ Buffer(c) \in Seq(Part) /\ sent[c] \in Nat
  <2>1. on[c] # 0
    BY <1>3 DEF Conns
  <2>2. QED
    BY <1>3, <2>1, Writer
<1>5. /\ \A n \in Conns : \A r \in RawCids :
            n # k \/ r # Low16(cid[c]) => streams'[n][r] = streams[n][r]
      /\ streams'[k][Low16(cid[c])] = After(f, Buffer(c))
  <2>1. CASE ReadEnvelope(k) \/ SkipUndecodable(k) \/ ReadPong(k)
    <3>1. UNCHANGED streams /\ f.type \in {"envelope", "pong"}
      BY <1>2, <2>1 DEF ReadEnvelope, SkipUndecodable, ReadPong
    <3>2. QED
      BY <1>3, <3>1 DEF After, Buffer
  <2>2. CASE ReadChunk(k)
    <3>1. f.type = "chunk" /\ f.cid = Low16(cid[c])
      BY <1>2, <1>3, <2>2 DEF ReadChunk
    <3>2. streams' = [streams EXCEPT ![k][Low16(cid[c])] = Buffer(c) \o f.payload]
      BY <1>2, <1>3, <2>2, <3>1 DEF ReadChunk, Buffer
    <3>3. QED
      BY <1>4, <3>1, <3>2 DEF After, Inv, TypeOK
  <2>3. CASE ReadFin(k)
    <3>1. f.type = "fin" /\ f.cid = Low16(cid[c])
      BY <1>2, <1>3, <2>3 DEF ReadFin
    <3>2. streams' = [streams EXCEPT ![k][Low16(cid[c])] = << >>]
      BY <1>2, <2>3, <3>1 DEF ReadFin, AfterFin
    <3>3. QED
      BY <1>4, <3>1, <3>2 DEF After, Inv, TypeOK
  <2>4. QED
    BY <2>1, <2>2, <2>3 DEF Reader
<1>6. SUFFICES ASSUME nextCid <= RawMod + 1 PROVE Owned' /\ Flows'
  BY <1>1 DEF StreamInv
<1>7. Owned /\ Flows
  BY <1>6 DEF StreamInv
<1>8. Owned'
  <2>1. ASSUME NEW n \in Conns, NEW r \in RawCids, streams'[n][r] # << >>
        PROVE  \E d \in Calls : on[d] = n /\ Low16(cid[d]) = r
    <3>1. CASE n = k /\ r = Low16(cid[c])
      BY <1>3, <3>1
    <3>2. CASE n # k \/ r # Low16(cid[c])
      BY <1>5, <1>7, <2>1, <3>2 DEF Owned
    <3>3. QED
      BY <3>1, <3>2
  <2>2. QED
    BY <1>1, <2>1 DEF Owned
<1>9. /\ \A n \in Conns : n # k => wire'[n] = wire[n]
      /\ wire'[k] = Tail(wire[k]) /\ wire[k] # << >>
  BY <1>1 DEF Inv, TypeOK, Pull, Reading
<1>10. ASSUME NEW d \in Calls, on[d] # 0
       PROVE  Flow(d, wire'[on[d]], streams'[on[d]][Low16(cid[d])], sent[d], d \in answered)
  <2>1. Flow(d, wire[on[d]], Buffer(d), sent[d], d \in answered)
    BY <1>7, <1>10 DEF Flows
  <2>2. on[d] \in Conns /\ cid[d] # 0 /\ Low16(cid[d]) \in RawCids
    BY <1>10, Writer
  <2>3. CASE d = c
    <3>1. Flow(c, Tail(wire[k]), After(f, Buffer(c)), sent[c], c \in answered)
      <4>1. f.of = c
        BY DEF c
      <4>2. QED
        BY <1>2, <1>3, <1>4, <1>9, <2>1, <2>3, <4>1, FlowPull
    <3>2. QED
      BY <1>3, <1>5, <1>9, <2>3, <3>1
  <2>4. CASE d # c /\ on[d] = k
    <3>1. Low16(cid[d]) # Low16(cid[c])
      BY <1>3, <1>4, <1>6, <2>2, <2>4, Apart
    <3>2. streams'[on[d]][Low16(cid[d])] = Buffer(d)
      BY <1>5, <2>2, <2>4, <3>1 DEF Buffer
    <3>3. Flow(d, Tail(wire[k]), Buffer(d), sent[d], d \in answered)
      BY <1>2, <1>4, <1>9, <2>1, <2>4, FlowOther DEF c
    <3>4. QED
      BY <1>9, <2>4, <3>2, <3>3
  <2>5. CASE on[d] # k
    <3>1. streams'[on[d]][Low16(cid[d])] = Buffer(d)
      BY <1>5, <2>2, <2>5 DEF Buffer
    <3>2. QED
      BY <1>9, <2>1, <2>2, <2>5, <3>1
  <2>6. QED
    BY <2>3, <2>4, <2>5
<1>11. Flows'
  BY <1>1, <1>10 DEF Flows, Buffer
<1>12. QED
  BY <1>8, <1>11

\* Every step keeps the buffers in step with the wires.
LEMMA StreamNext ==
    ASSUME Inv, FrameInv, StreamInv, Next
    PROVE  StreamInv'
<1> USE DEF callVars, socketVars, serverVars
<1>1. CASE Connect \/ ClearConnected \/ \E k \in Conns : CloseDone(k)
  BY <1>1, StreamIdle DEF Connect, ClearConnected, CloseDone
<1>2. ASSUME NEW c \in Calls, Caller(c) PROVE StreamInv'
  <2>1. CASE RefuseClosed(c) \/ Fail(c) \/ Receive(c) \/ Timeout(c) \/ SeeDone(c)
    BY <2>1, StreamIdle DEF RefuseClosed, Fail, Receive, Timeout, SeeDone
  <2>2. QED
    BY <1>2, <2>1, StreamRegister, StreamWrite DEF Caller
<1>3. QED
  BY <1>1, <1>2, StreamServer, StreamReader DEF Next

\* A delivery of a whole answer, or of none, keeps the bodies whole.
LEMMA DeliverBody ==
    ASSUME Inv, BodyInv, NEW targets, targets \subseteq cids, NEW reply,
           Deliver(targets, reply), UNCHANGED <<kind, nextCid, answered, sent>>,
           \A t \in targets : reply.raw /\ kind[t] = "api" /\ nextCid <= RawMod + 1 =>
               t \in answered /\ reply.body = [i \in 1 .. sent[t] |-> [of |-> t, nr |-> i]]
    PROVE  BodyInv'
<1>1. CASE targets = {}
  BY <1>1 DEF BodyInv, Deliver
<1>2. CASE targets # {}
  <2>1. PICK t \in targets : ch' = [ch EXCEPT ![t] = {reply}]
    BY <1>2 DEF Deliver
  <2>2. ASSUME NEW c \in Calls, NEW r \in ch'[c], r.raw, kind[c] = "api", nextCid <= RawMod + 1
        PROVE  c \in answered /\ r.body = [i \in 1 .. sent[c] |-> [of |-> c, nr |-> i]]
    <3>1. CASE c = t
      <4>1. r = reply
        BY <2>1, <2>2, <3>1 DEF Inv, TypeOK
      <4>2. QED
        BY <2>2, <3>1, <4>1
    <3>2. CASE c # t
      <4>1. r \in ch[c]
        BY <2>1, <2>2, <3>2 DEF Inv, TypeOK
      <4>2. QED
        BY <2>2, <4>1 DEF BodyInv
    <3>3. QED
      BY <3>1, <3>2
  <2>3. QED
    BY <2>2 DEF BodyInv
<1>3. QED
  BY <1>1, <1>2

\* Only a final frame brings a body, and it brings the whole answer.
LEMMA BodyNext ==
    ASSUME Inv, FrameInv, StreamInv, BodyInv, Next
    PROVE  BodyInv'
<1> USE DEF callVars, socketVars, serverVars
<1>1. CASE UNCHANGED <<ch, kind, nextCid, answered, sent>>
  BY <1>1 DEF BodyInv
<1>2. CASE Connect \/ ClearConnected \/ \E k \in Conns : CloseDone(k)
  BY <1>1, <1>2 DEF Connect, ClearConnected, CloseDone
<1>3. ASSUME NEW c \in Calls, Caller(c) PROVE BodyInv'
  <2>1. CASE \E k \in Kinds : Register(c, k)
    <3>1. /\ ch[c] = {} /\ UNCHANGED <<ch, answered, sent>> /\ nextCid' = nextCid + 1
          /\ nextCid \in Nat /\ \A d \in Calls : d # c => kind'[d] = kind[d]
      BY <2>1 DEF Register, Inv, TypeOK, CidInv
    <3>2. nextCid' <= RawMod + 1 => nextCid <= RawMod + 1
      BY <3>1
    <3>3. QED
      BY <3>1, <3>2 DEF BodyInv
  <2>2. CASE RefuseClosed(c) \/ Fail(c) \/ Write(c) \/ Receive(c) \/ Timeout(c) \/ SeeDone(c)
    BY <1>1, <2>2 DEF RefuseClosed, Fail, Write, Receive, Timeout, SeeDone
  <2>3. QED
    BY <1>3, <2>1, <2>2 DEF Caller
<1>4. ASSUME NEW c \in Calls, Server(c) PROVE BodyInv'
  <2>1. /\ c \notin answered /\ UNCHANGED <<ch, kind, nextCid>>
        /\ \A d \in Calls : d # c => sent'[d] = sent[d] /\ (d \in answered' <=> d \in answered)
    BY <1>4, FrameServer DEF Open
  <2>2. ASSUME NEW d \in Calls, NEW r \in ch[d], r.raw, kind[d] = "api", nextCid <= RawMod + 1
        PROVE  d \in answered' /\ r.body = [i \in 1 .. sent'[d] |-> [of |-> d, nr |-> i]]
    <3>1. d \in answered /\ r.body = [i \in 1 .. sent[d] |-> [of |-> d, nr |-> i]]
      BY <2>2 DEF BodyInv
    <3>2. d # c
      BY <2>1, <3>1
    <3>3. QED
      BY <2>1, <3>1, <3>2
  <2>3. QED
    BY <2>1, <2>2 DEF BodyInv
<1>5. ASSUME NEW k \in Conns, Reader(k) PROVE BodyInv'
  <2>1. PICK f : f = Head(wire[k])
    OBVIOUS
  <2>2. Reading(k) /\ UNCHANGED <<kind, nextCid, answered, sent>>
    BY <1>5 DEF Reader, ReadEnvelope, SkipUndecodable, ReadPong, ReadChunk, ReadFin
  <2>3. /\ f \in Frame /\ f.of \in Calls /\ on[f.of] = k /\ Fits(k, f) /\ GoodFrame(f)
        /\ f.type # "envelope" => f.cid = Low16(cid[f.of])
        /\ f.type # "chunk" => \A i \in 1 .. Len(Tail(wire[k])) : Tail(wire[k])[i].of # f.of
    BY <2>1, <2>2, HeadFits, HeadGood DEF Inv
  <2>4. CASE SkipUndecodable(k) \/ ReadChunk(k)
    BY <1>1, <2>4 DEF SkipUndecodable, ReadChunk
  <2>5. CASE ReadEnvelope(k)
    <3> DEFINE r == [of |-> f.of, raw |-> FALSE, body |-> << >>]
    <3>1. Deliver(TakeCid(f.cid), r) /\ ~r.raw
      BY <2>1, <2>5 DEF ReadEnvelope
    <3> HIDE DEF r
    <3>2. QED
      BY <2>2, <3>1, DeliverBody, TakeTargets
  <2>6. CASE ReadPong(k)
    <3> DEFINE r == [of |-> f.of, raw |-> TRUE, body |-> << >>]
    <3>1. f.type = "pong" /\ Deliver(TakeRawCid(f.cid), r)
      BY <2>1, <2>6 DEF ReadPong
    <3> HIDE DEF r
    <3>2. \A t \in TakeRawCid(f.cid) : nextCid <= RawMod + 1 => kind[t] # "api"
      BY <2>3, <3>1, TakeRawOwn DEF Fits
    <3>3. QED
      BY <2>2, <3>1, <3>2, DeliverBody, TakeTargets
  <2>7. CASE ReadFin(k)
    <3> DEFINE r == [of |-> f.of, raw |-> TRUE, body |-> Body(k, f)]
    <3>1. f.type = "fin" /\ Deliver(TakeRawCid(f.cid), r) /\ r.body = Body(k, f)
      BY <2>1, <2>7 DEF ReadFin
    <3> HIDE DEF r
    <3>2. ASSUME nextCid <= RawMod + 1
          PROVE  /\ f.of \in answered
                 /\ Body(k, f) = [i \in 1 .. sent[f.of] |-> [of |-> f.of, nr |-> i]]
      <4>1. on[f.of] # 0 /\ f.cid = Low16(cid[f.of])
        BY <2>3, <3>1 DEF Conns
      <4>2. Flow(f.of, wire[k], Buffer(f.of), sent[f.of], f.of \in answered)
        BY <2>3, <3>2, <4>1 DEF StreamInv, Flows
      <4>3. wire[k] \in Seq(Frame) /\ Buffer(f.of) \in Seq(Part) /\ sent[f.of] \in Nat
        BY <2>3, <4>1, Writer
      <4>4. Buffer(f.of) \o f.payload = [i \in 1 .. sent[f.of] |-> [of |-> f.of, nr |-> i]]
        <5>1. /\ Head(wire[k]).of = f.of /\ Fits(k, Head(wire[k])) /\ wire[k] # << >>
              /\ Head(wire[k]).type = "fin" /\ Head(wire[k]).payload = f.payload
              /\ \A i \in 1 .. Len(Tail(wire[k])) : Tail(wire[k])[i].of # f.of
          BY <2>1, <2>2, <2>3, <3>1 DEF Reading
        <5> DEFINE c == f.of
                   w == wire[k]
                   b == Buffer(c)
                   s == sent[c]
        <5>2. /\ c \in Calls /\ w \in Seq(Frame) /\ w # << >> /\ b \in Seq(Part) /\ s \in Nat
              /\ Head(w).of = c /\ Fits(k, Head(w)) /\ Head(w).type = "fin"
              /\ \A i \in 1 .. Len(Tail(w)) : Tail(w)[i].of # c
              /\ Flow(c, w, b, s, c \in answered)
          BY <2>3, <4>2, <4>3, <5>1
        <5> HIDE DEF c, w, b, s
        <5>3. b \o Head(w).payload = [i \in 1 .. s |-> [of |-> c, nr |-> i]]
          <6>1. Head(w).payload = << >> \/ \E n \in Nat : Carries(c, Head(w), n)
            BY <5>1, <5>2 DEF Fits, w, c
          <6>2. Stream(c, w, b, s) /\ Complete(c, w, b, s)
            <7>1. 1 \in 1 .. Len(w) /\ w[1].of = c
              BY <5>2, Pulled
            <7>2. QED
              BY <5>2, <7>1 DEF Flow
          <6>3. QED
            BY <5>2, <6>1, <6>2, PullLast
        <5>4. QED
          BY <5>1, <5>3 DEF c, w, b, s
      <4>5. QED
        BY <2>3, <3>1, <4>1, <4>4 DEF Body, Buffer, Fits
    <3>3. \A t \in TakeRawCid(f.cid) : nextCid <= RawMod + 1 => t = f.of
      BY <2>3, <3>1, TakeRawOwn
    <3>4. \A t \in TakeRawCid(f.cid) : r.raw /\ kind[t] = "api" /\ nextCid <= RawMod + 1 =>
              t \in answered /\ r.body = [i \in 1 .. sent[t] |-> [of |-> t, nr |-> i]]
      BY <3>1, <3>2, <3>3
    <3>5. PICK T : T = TakeRawCid(f.cid)
      OBVIOUS
    <3>6. T \subseteq cids /\ Deliver(T, r)
      BY <3>1, <3>5, TakeTargets
    <3>7. \A t \in T : r.raw /\ kind[t] = "api" /\ nextCid <= RawMod + 1 =>
              t \in answered /\ r.body = [i \in 1 .. sent[t] |-> [of |-> t, nr |-> i]]
      BY <3>4, <3>5
    <3>8. QED
      BY <2>2, <3>6, <3>7, DeliverBody
  <2>8. QED
    BY <1>5, <2>4, <2>5, <2>6, <2>7 DEF Reader
<1>6. QED
  BY <1>2, <1>3, <1>4, <1>5 DEF Next

\* A response reassembled from chunks is the caller's own, whole and in order, as
\* long as the counter is within the raw range: for any number of calls, chunks
\* and connections, and whatever streams were abandoned.
THEOREM BodiesCorrect == Spec => []BodyWhole
<1> DEFINE All == Inv /\ FrameInv /\ StreamInv /\ BodyInv
<1>1. Init => All
  <2>1. SUFFICES ASSUME Init PROVE All
    OBVIOUS
  <2>2. FrameInv
    BY <2>1 DEF Init, FrameInv
  <2>3. StreamInv
    BY <2>1 DEF Init, StreamInv, Owned, Flows
  <2>4. BodyInv
    BY <2>1 DEF Init, BodyInv
  <2>5. QED
    BY <2>1, <2>2, <2>3, <2>4, InvInit
<1>2. All /\ [Next]_vars => All'
  <2>1. ASSUME All, UNCHANGED vars PROVE All'
    <3>1. Inv'
      BY <2>1, InvNext
    <3>2. FrameInv'
      BY <2>1, FrameIdle DEF vars, FrameInv
    <3>3. StreamInv'
      BY <2>1, StreamIdle DEF vars
    <3>4. BodyInv'
      BY <2>1 DEF vars, BodyInv
    <3>5. QED
      BY <3>1, <3>2, <3>3, <3>4
  <2>2. ASSUME All, Next PROVE All'
    BY <2>2, InvNext, FrameNext, StreamNext, BodyNext
  <2>3. QED
    BY <2>1, <2>2
<1>3. All => BodyWhole
  BY DEF BodyInv, BodyWhole
<1> HIDE DEF All
<1>4. QED
  BY <1>1, <1>2, <1>3, PTL DEF Spec
=============================================================================
