----------------------------- MODULE Snowflake ------------------------------
(***************************************************************************)
(* GenerateSnowflakeID (helper.go): ids made of the clock's milliseconds,  *)
(* two fixed fields and a sequence number within the millisecond.  Its     *)
(* mutex makes a call one step.  The fields are SeqBits and twice          *)
(* FieldBits wide (12, 5 and 5 in the code).  The clock may step back.     *)
(***************************************************************************)
EXTENDS Integers, Bits

CONSTANTS
    SeqBits,        \* bits for the sequence number
    FieldBits,      \* bits of the worker's and of the data centre's field
    MaxClock,       \* bound: the clock shows less
    MaxIds          \* bound: calls

VARIABLES
    clock,      \* time.Now().UnixMilli() less the epoch
    last,       \* snowflakeLast
    seq,        \* snowflakeSeq
    ids,        \* ids returned so far
    count,      \* calls so far
    repeated,   \* ids returned twice
    back,       \* the clock has stepped back
    full        \* some millisecond had more ids than the sequence has numbers

vars == <<clock, last, seq, ids, count, repeated, back, full>>

Init ==
    /\ clock = 1 /\ last = 0 /\ seq = 0
    /\ ids = {} /\ count = 0 /\ repeated = {}
    /\ back = FALSE /\ full = FALSE

\* The milliseconds, the data centre and the worker, at the places of their fields.
Fixed(ts) ==
    Or(Or(ShiftLeft(ts, SeqBits + 2 * FieldBits), ShiftLeft(1, SeqBits + FieldBits)),
       ShiftLeft(1, SeqBits))

\* The sequence is or-ed too: a number too large runs into the other fields.
Id(ts, n) == Or(Fixed(ts), n)

Issue(n) ==
    /\ count < MaxIds
    /\ count' = count + 1
    /\ seq' = n
    /\ LET id == Id(clock, n)
       IN  /\ ids' = ids \cup {id}
           /\ repeated' = IF id \in ids THEN repeated \cup {id} ELSE repeated
    /\ full' = (full \/ n >= ShiftLeft(1, SeqBits))
    /\ UNCHANGED <<clock, back>>

\* The millisecond is not remembered.
GenerateForgets == Issue(IF clock = last THEN seq + 1 ELSE 0) /\ last' = last

GenerateSnowflakeID == Issue(IF clock = last THEN seq + 1 ELSE 0) /\ last' = clock

Tick ==
    /\ clock < MaxClock
    /\ clock' = clock + 1
    /\ UNCHANGED <<last, seq, ids, count, repeated, back, full>>

StepBack ==
    /\ clock > 1
    /\ clock' = clock - 1
    /\ back' = TRUE
    /\ UNCHANGED <<last, seq, ids, count, repeated, full>>

Next == GenerateSnowflakeID \/ Tick \/ StepBack

Spec == Init /\ [][Next]_vars

----------------------------------------------------------------------------
\* "a unique snowflake id": no id is returned twice as long as the clock does not
\* step back and no millisecond has more ids than the sequence has numbers.  The
\* code takes care of neither.
UniqueIds == repeated # {} => back \/ full
=============================================================================
