# mezon-sdk-go: TLA+ models

mezon-sdk-go is a Go client library for Mezon bots. A `MezonClient` logs in over
HTTP, opens one realtime connection (`DefaultSocket`), joins its clans, and then
sends and receives messages over it. The library is small but concurrent: every
connection has three goroutines of its own, application goroutines send through
the same socket, retry loops reconnect it, and none of the orders in which these
run is covered by the repository's tests. This directory models that part of the
library, checks it with TLC and proves its central claims with TLAPS.

## Inventory

| Component | State | Operations | What is hard |
|---|---|---|---|
| Request correlation (`socket.go`) | `cids`, `nextCid`, per-connection chunk buffers | `sendResponse`, `clearCid`, `readLoop`, `deliverAPIChunk`, `takeCid`, `takeRawCid` | raw frames carry 16 bits of the cid; late replies, timeouts, a map shared by successive connections |
| Socket lifecycle (`socket.go`) | `connected`, `conn`/`done`/`closeDone` under `writeMu` | `Connect`, `Close`, `markDisconnected`, `readLoop`, `heartbeatLoop` | check-then-act across the lock, writes under the lock, loops of old connections |
| Client session (`client.go`) | `socket`, `hardDisconnect`, `reconnecting` | `Login`, `OnDisconnect` callback, `retryConnect`, `Close` | drops during a reconnect, Close during the back-off, a second Login |
| Throttle queue (`queue.go`) | `jobs`, `timestamps` | `Enqueue`, the worker | rate over any window, order, blocked callers |
| Event dispatch (`socket_dispatch.go`, `emitter.go`) | an event channel per connection, the handler table | `dispatchLoop`, `dispatch`, `emit`, `on` | back pressure on the read loop; the order of handlers; the loop of an old connection beside that of the next |
| Entity caches (`cache.go`) | `items`, `order` | `Get`, `Set`, `Fetch`, `Delete`, `Values` | `Fetch` is not atomic; eviction; two structures that must agree |
| Channel directory (`sharedcache.go`, `clan.go`, `channel.go`, `client_internal.go`) | the client's and each clan's cache, the shared L2 store, `channelsLoaded` | `fetchChannel`, `upsertChannel`, event listeners, `LoadChannels`, `ReloadChannels`, `CreateChannel`, `DeleteChannel` | tiers refilled from one another, fetch against invalidation, one object per channel |
| Clan initialisation (`connectSocket` in `client.go`) | `Clans`, each `Clan`'s loaded channels, the joined chats | `ListClanDescs`, `ReloadChannels`, `JoinClanChat`, rounds of retries | partial failure; two calls at once; objects that must survive |
| Messages (`channel.go`, `message.go`, `client_internal.go`, `messagedb/`) | a channel's `Messages` cache, the message store, the handler list | `Send`, `Update`, `Delete`, `Fetch`, `cacheChannelMessage`, `SaveMessage`, `GetMessageByID` | restarts; lookups, edits and old connections' loops racing events; handler order |
| Users and DM channels (`user.go`, `channelmanager.go`) | `Users`, `dmByUser`, the shared store | `fetchUser`, `CreateDMChannel`, `SendDM`, `InitAllDMChannels`, `cacheUserFromMessage` | unlocked map and objects shared by goroutines |
| REST over socket or HTTP (`restapi.go`) | none of its own | `doProto`, `doProtoSocket` | falling back to HTTP after a timeout |
| Realtime writes (`socket_write.go`) | none of its own | `WriteChatMessage` and others | join and retry |
| Wire transport (`transport.go`, `unmarshalEnvelope`) | the byte stream | `encodeAbridgedFrame`, `readFrameOnce`, `readWebSocketFrame`, `writeEnvelope`, `writePing` | padding, length boundaries, mixed framings |
| UTF-16 offsets (`utf16.go`) | none | `UTF16Len`, `UTF16Encode`, `RuneIndexToUTF16`, `MentionSpan` | surrogate pairs |
| Snowflake ids (`helper.go`) | `snowflakeLast`, `snowflakeSeq` | `GenerateSnowflakeID` | sequence overflow, a clock that steps back |
| Session tokens, Redis store, data types | none | | not modelled, see below |

How they interact: `MezonClient` owns a `DefaultSocket` and installs
`OnDisconnect`; the socket's loops call it from `markDisconnected`, and it starts
`retryConnect`, which calls `Connect` again. `MezonApi`, the write functions and
the heartbeats all end in `sendResponse`. Channel, message and user objects put
their writes through one `AsyncThrottleQueue`. Events read by `readLoop` pass a
bounded channel to `dispatchLoop`, whose handlers fill the caches and may send.

The hazards, each at its line and with the properties that watch it, are listed
in `PROJECT.json`.

## Modules

**Correlation** models `sendResponse` and `readLoop` over the shared map of
pending requests. One action is one step between two accesses to shared state:
`Register` is the open check, `generateCid` and the registration under `cidMu`;
`Write` or `Fail` is the write under `writeMu`, on whatever connection is current
by then; `Receive`, `Timeout` and `SeeDone` are the three branches of the final
select, the last of which leaves the entry in the map, as the code does. A frame
is a record with the cid it carries, whole or truncated by `Low16`; `of` names
the call it answers and exists for the properties only. The gateway is external:
it answers each request at most once, at any time, in any order between
requests, on the connection the request came on, or not at all. Over the
WebSocket transport a pong is an envelope, over TCP a raw frame: both are
allowed. `connected` and `done` may change at any moment; *why* they change is
left to the next module. A reader that has ended is one that takes no more steps.
The 31-bit overflow of `nextCid` is not modelled: two live cids cannot meet by it.

**SocketLifecycle** models who opens and closes connections: the threads are
calls of `Connect`, of `Close`, of senders, and the reader and heartbeat of each
connection. `connected` is atomic, `conn`/`done`/`closeDone` change and are read
under `writeMu`, so one action is one atomic access or one critical section; a
write to the network holds `mu` from `Lock` to `WriteOk` or `WriteFails`. A
connection's wire is `up`, `stuck` (the peer is silent), `lost` or `shut`.
`ReadEvent`/`Offered` are an event offered to the dispatch queue, which may stay
full for ever. The frames that carry replies are left to Correlation: `Answered`
only needs a reader that is reading. `ConnectsOverlap` says whether Connect may
be called while another call runs (the client's retry loop never does so, see
`ConnectsSerial`); `WritesMayBlock` whether a write to a silent peer blocks.

**SocketSpec** is what the client sees: open or not, and one `OnDisconnect` owed
for each opening that was lost. SocketLifecycle implements it with
`owed <- {loops that have won the Swap and not yet called OnDisconnect}`.

**Client** models `Login`, the callback, `retryConnect` and `Close` over sockets
reduced to their flag: `Drop` is any loss that `markDisconnected` reports. Fields
that the code reads without a lock (`hardDisconnect`, `socket`) are read where
the code reads them: `Connect` takes `c.socket` before the dial and `on` keeps
which socket that was, so the dial's end (`ConnectOk`) opens that one, whatever a
second Login has put in its place meanwhile.

**ThrottleQueue** models `Enqueue`, the worker and the goroutines of the tasks in
discrete time: `Window` ticks are a second, `kept` are the jobs whose launch times
are still in `timestamps`. `Dispatch` is the `go` statement (`queue.go:69`), which
only launches; a launched task begins (`Begin`) and ends (`Finish`) at any time, in
any order and beside others. When the clock reaches `Horizon`, a tick moves all
launch times back instead; only differences of times matter. Its constants are in
**ThrottleConstants**.

**Requests** models what is built on a send: `doProto` (socket first, then HTTP
when the socket is closed or timed out) and `WriteChatMessage` (send, join on
code 3, send again). A call is in a `phase` ("first", "join", "again", "http");
one send is reduced to what Correlation shows of it: it is written or not, and
ends with an answer, an error, a closed connection or a timeout. A request that
was written stays in `wire` until the server carries it out or refuses it, which
may be after its caller gave up; never is also allowed. The server forgets joins
with the connection they were made on.

**Frames** and **Transport** model the wire byte by byte. Frames has the pure
functions of `transport.go` (headers, padding, trimming) over bytes of `Base`
values; the code's constants keep their place relative to it (0x7f is
`Base / 2 - 1`, and so on), so that TLC can reach the extended header and the
8-byte WebSocket length with short payloads while the theorems cover 256 and the
code's limit of 64 MiB.
Transport adds the two directions of a connection, the reader (`ReadFrame`),
`unmarshalEnvelope`'s trial decoding, and a `Cut` that loses the last bytes in
flight. Protocol buffers and the gateway are external: an encoding is a sequence
of tagged fields, the gateway writes the layouts the repository's fake server
writes and strips trailing zeros as `trimAbridgedPadding` does.

**Cache** has `CacheManager`'s methods as functions from a cache to a cache; its
mutex makes each call atomic.

**Channels** models the channel directory of one clan over two such caches. A channel's detail is the
number of its version on the server, an object (`TextChannel`) is its index in
`desc`, so identity and content are separate. Every call of a cache or of the
store is one action and everything between two such calls may be interleaved
with another goroutine; `loadMu` is `lock`. Errors of requests and of the store
are disjuncts. One dispatchLoop (`Dispatcher`) handles the channel events: that of
an old connection beside the next one's is in Messages and Users, not here.
`handled`, `overlap` and `crowded` record history for the
properties and guard nothing.

**Messages** models one channel's messages. A message is the number of its
version on the server (1 as sent, more as edited or deleted), a row of the store
and a cached `Message` are the version they were made from. `Loops` are the
dispatchLoops that run at once, each with a connection (`conn`) and a channel of
events (`inbox`) of its own: `Open` is the end of `Connect`, which starts one
whatever others do (`socket.go:305-306`), `Drop` closes its connection, and the loop
finishes the handler it is in and may take queued events before it sees `done`
(`LoopEnds`). `Post` (external) is the server, which tells any of the connections
that are up, all of them after a second Login, or none.
`Get`, `Load`, `Put` are `CacheManager.Fetch` with `loadMessageFromStore`;
`Update`/`Edited`, `Remove` and `Write`/`Acked` are `Message.Update`, `Delete`,
and `Send` or `Reply` with `createMessageFromAck`, where a request may fail
before or after the server has acted on it. `Emit`, `NextHandler`, `Save`, `Keep`
are `emit` over the handlers in the order of registration with
`cacheChannelMessage` among them. `Restart` stops the process at any step and
starts a new one on the same table. `missed`, `outrun` and `raced` are history:
messages whose last event never reached the store; messages of which one loop saved
a version while another still had an older one to save; and messages of which a
goroutine or a loop may have cached an older version than one it was overtaken by.

**Users** models one user: `fetchUser` (`Get`, `L2Get`, `Create`, `L2Set`,
`UserSet` twice, as `fetchUser` and `Fetch` both store), `SendDM` (`Check`,
`Make`, `Assign`, `WriteDM`), `cacheUserFromMessage` in the dispatchLoops of any
number of connections (`Listeners`: `Arrive`, `Find`, `Enrich`) and `InitAllDMChannels` on the goroutine that
connects (`ListDMs`, `ClearDMs`, `FillDMs`: the new map is published empty and
filled afterwards; the listing of a second Login that overlaps the first is not
modelled). `dmByUser` and `User` objects are read and written without a
lock; where the Go runtime would stop the program on it, `Restart` stands for
that outcome. `Forgotten` is an eviction or an expiry.

**ClanInit** is `connectSocket`, which Client has as one step: `ListClans`,
`Look`/`Make` for each listed clan, then `Pick`, `Reload`, `Join` per clan and the
rounds for those that failed (`RoundEnds`). `buildChannel` makes Clan objects by
the same two steps. `tries`, `won`, `crossed` and `remade` are history.

**Utf16** has the four functions of `utf16.go`; `Plane` is the number of code
units (65536), `High` the first high surrogate (0xD800) and `Half` the number of
high surrogates (1024), behind which as many low ones follow: the run scales them
down, the theorems do not. **Snowflake** is `GenerateSnowflakeID` with narrow
fields and a clock that may step back. **Bits** has Go's `<<`, `|` and `^` as
recursive functions, which both TLC and the proofs can use.

`MC*` modules add symmetry sets and the payloads; the `.cfg` files give the
constants. Four of them hold several models that share no state: a variable
`part` says which one a behaviour belongs to (`MCChannels`: Channels, Users;
`MCClient`: Client, ThrottleQueue; `MCRequests`: Requests, ClanInit; `MCTransport`: Transport, Utf16, Snowflake).
`MCSocketLive` limits the calls of a behaviour to one of two crews by a
constraint. `*Proofs` modules hold the theorems, type correctness among them:
types are proved and no run repeats them.

In each module a few operators that are used by no action (`RegisterNarrow`,
`SwapUnchecked`, ...) stand beside the definition they are a wrong version of;
putting one in its place makes the property it is paired with in `PROJECT.json`
fail, which shows that the property depends on that part of the code.

## Runs

| Run | Instance | Shows |
|---|---|---|
| `corr_wrap` | 3 calls of any kind, 1 connection, raw range 2 | replies matched below the range and envelopes for ever; the map is sound: no lost entry, no blocked reader, leaks only on close |
| `corr_reconnect` | 2 calls, 2 connections, responses of up to 2 parts, raw range 2 | bodies whole and the caller's own over a reconnect; replies reach waiting callers; every call returns if its write does |
| `sock_races` | 2 overlapping Connects, 1 Close, 2 connections, blocking writes | notice bound, refinement of SocketSpec |
| `sock_live` | 2 connections, and either 2 Connects in turn or 1 Connect, 1 Close and 1 sender | no nil connection; dead connections are reported until Close is called; the loops of a torn-down connection end |
| `sock_stale` (violation) | 2 Connects in turn | a stale loop tears down the new connection |
| `client_retry` | 2 Logins, 2 Closes, 2 drops | one retry loop; Connect is serial; retries recover unless a Login replaced the socket under them; Close ends them |
| | ThrottleQueue: 3 jobs, 2 per 2 ticks, channel of 2 | rate bound, order of launching, an Enqueue returns if its own task does |
| `client_close` (violation) | 1 Login, 1 Close, 1 drop | the socket is opened again after Close |
| `requests` | 1 API call, 1 chat message, 2 connections | posted once, repeated only by the fallback, true results, the join helps, every call returns if its writes do |
| | ClanInit: 2 calls of `connectSocket`, 1 of `buildChannel`, 1 clan and "0", 2 rounds, any drops | every clan tried in every round and none after it was joined; channels before the chat; Clan objects survive; every call ends if its requests do |
| `transport` | both transports, up to 3 frames, bytes of 16 values | frames intact and the reader in step, gateway decodes what was written |
| | Utf16: texts of up to 4 runes, substrings of up to 2 | offsets and spans are those of the encoded text |
| | Snowflake: 6 ids, 3 clock values, 1-bit fields | ids unique while the clock runs forward and the sequence fits |
| `channels` | 2 channels, a cache for 1, 3 operations, 1 event, 2 versions | caches coherent, no stale detail after a handled change, objects survive |
| | Users: 2 goroutines, 2 calls, 2 dispatchLoops, 2 messages, 1 reconnect or restart | DM channel ids are real, lost only by eviction, by a loop that had looked too early or to an answer without an id |
| `messages` | 2 messages, 3 posts, a cache for 1, 2 dispatchLoops at once, 1 goroutine, 1 call, 1 restart | store and cache catch up with the server, rows never go back unless a loop was late, ids |
| `handlers_order` (violation) | 1 handler registered before Login, 1 message | it runs before the internal one |

What the properties say, and what they leave out. `DeadReported` speaks of the
time before Close is called, and of writes that fail in time: the network write
happens under `writeMu` without a deadline, so a peer that stops reading while a
sender writes blocks the heartbeat too, and such a connection is not reported
(`WritesMayBlock = TRUE` is used for the safety run only). `ConnectsSerial` ends
with a second Login, which calls Connect on a socket of its own while the first
one's retry loop lives on. `RetryRecovers` assumes that the server comes back and
says that a loop goes on until the client was up once; a drop during the
initialisation that follows a reconnect is ignored (`client.go:332`), so that
every loss is repaired is not true and not claimed. It also exempts a loop that is
overtaken by a Login: `client.go:346` evaluates `c.socket` before the dial, so a Login
that replaces it (`client.go:177`) leaves the loop to open the old socket and to leave,
the initialisation succeeding over HTTP, even if that Login's own Connect fails. `AnswerMatches` covers API
replies while the counter is within the 16-bit range and envelope replies always;
`MapSound` says which entries stay in the map (after a close only), where a wrapped counter
can meet them. `Fresh` and `Survives` exempt channels whose operations overlapped
(and, for `Fresh`, a store that failed): a fetch that has read the old detail
before an event stores it after the event, and two overlapping upserts may
register two objects; the code has no lock against either. `ResultTrue` says
nothing of a refusal after the fallback, when the request sent on the socket may
still be carried out. The comment at `restapi.go:103-106` lists a send that
failed at the transport among the reasons for the fallback; in the code
(`restapi.go:121`) a write error is final, and the model follows the code.

`EveryCallReturns`, `CallsReturn` and `Ends` are about what comes after a write:
`sendResponse` writes under `writeMu` without a deadline (`socket.go:401-410`) and
arms its timer only then (416-425), so a peer that stops reading blocks a caller, and
every later sender, for good. What a call does without any assumption is stated apart
from what it does under `WritesReturn` (for `Ends`, `RequestsEnd`).
`EnqueueReturns` assumes of a call's own task only that it returns, and of the tasks
before it nothing.

`LaunchOrder` is about the `go` statements. `queue.go:10` says "Tasks run one at a time
in FIFO order"; `queue.go:62-69` runs each in a goroutine of its own, which begins when
the scheduler lets it, so tasks overlap and overtake one another: the comment at 62-68
says so for the overlap, and neither the order in which they begin nor that in which
they reach the socket is kept or claimed.

`StoreSettled`, `StoreMonotone` and `CacheSettled` hold within a connection, as
`socket.go:303-304` ("preserving event order") says, and across restarts and
reconnects but for one race: the dispatchLoop of an old connection may still have an
older version of a message to save or to cache when that of the next one handles the
newer. They exempt exactly the messages for which a loop was late in that sense when
the newer version was saved (`outrun`) or cached (`raced`), until the latest
version is handled with nobody late; the first and the third also those whose last
event was lost with a connection or a process or could not be saved (`missed`), and `CacheSettled` those on
which a goroutine of the application was overtaken: a lookup that read the store, or an edit or send whose
answer was on its way, stores its older version after the event's.
`DmReal` admits the id "0"
once the server has answered without an id: `fetchChannel` refuses such a
channel, `fetchUser` (`sharedcache.go:186-190`) and `SendDM` do not, and keep it.
`LostOnlyByRace` names what may happen to the DM channel of the cached user: eviction,
after which `SendDM` fetches the user again; a dispatchLoop that had found no user
before another goroutine stored one, which leaves the id empty, and `SendDM` asks
again; and a call that got no id from the server and stores or assigns "0" over what
another one found, for which `SendDM` (`user.go:28`) does not ask again. `ClansSurvive` and
`LoadedBeforeJoin` exempt an object that an overlapping call replaced, by the
same pattern. `UniqueIds` states the two conditions `helper.go` does not enforce: the
sequence is or-ed in without a mask, and the clock may step back.

Why the bounds are enough. With a raw range of 2 and three calls the counter
passes the range with two calls pending on the same truncated cid; a fourth call
only repeats that. Two connections are an old and a new one, which is all the
code distinguishes (`current != done`). Two Connects and a Close are the smallest
set in which each of them can fall between any two steps of the others. Two
drops are a loss and a loss during its repair. The queue needs more jobs than
the rate or the channel hold. One API call and one chat message share nothing but
the connection; more of them add no interaction, and the theorems cover any
number. The payloads of `transport` lie on both sides of every boundary: the
padding's four residues, the short and the extended header, the three WebSocket
lengths, the frame limit, zero to three trailing zeros; three frames put one
before and one after each. In `channels` two channels and room for one make every
store of the second an eviction; three operations and the dispatcher's event are
enough to fill, evict and refill a tier around an event, with one goroutine
beside the dispatcher (two give the same result with two operations). In
Messages one message of each origin and room for one make every store of the
other an eviction, two loops are an old connection's and the next one's (or those of two
logins), three posts are three versions of a message or versions of both, which one
loop has to save while the other has saved a later one, one call and the events it
causes can overtake each other, and one restart separates two processes; in Users a
reconnect and two loops, each with a message, overlap two senders. In ClanInit two rounds stand for the code's five: there
is a first pass, a round that is not the last and the last one; the pseudo-clan and one clan are the two kinds of clan, and order
within a round matters to nobody. In Utf16 the alphabet has plain characters and
pairs that share a high or a low surrogate, which is what a false match would need.
Goroutines of the application and dispatchLoops are interchangeable and declared
symmetric in `channels` and `messages`, and so are the channels in the first. The bounds
named in the modules (`MaxConns`, `MaxChunks`, `Retriers`, `Horizon`,
`MaxFrames`, `MaxLost`, `MaxOps`, `MaxEvents`, `MaxVersion`, `MaxPosts`, `Loops`,
`MaxCalls`, `MaxStarts`, `MaxAsks`, `MaxArrivals`, `MaxInits`) only limit how often
the environment acts; the theorems do not depend on their values.

Deadlock is not checked: a behaviour in which every call has returned and nobody
calls again simply stops.

Fairness. `corr_reconnect` and `requests`: a goroutine inside a call runs and its
timer, once armed, fires; nothing of server, reader or connection, and nothing of the
write: that it returns is the hypothesis `WritesReturn` of the second half of their
properties. `sock_live`: each loop,
Close and send that has started runs (strongly, because Go's mutex hands over to a starved
waiter), a read on a dead connection fails after the frames before its end, a
select does not pass over a closed `done` for ever (it picks among ready cases at
random); nothing of the network, of handlers, of Connect or of further
calls. `client_retry`:
goroutines run; only `RetryRecovers` has the hypothesis `ServerReturns`, that
what a retry loop tries again and again succeeds at some point; that an
initialisation ends, which it takes for granted, is ClanInit's `Ends`, under weak
fairness of the calling goroutine and `RequestsEnd`. For its queue: the
clock, the worker and the goroutines of the tasks run, a task is not assumed to return
(that of the caller is the hypothesis of `EnqueueReturns`), and a blocked channel send
is served in turn, as Go's channels do.
`sock_races`, `transport`, `channels` and `messages` check safety and assume no fairness.

## Findings

The violation runs are behaviours of the code that a comment of the repository
excludes; `PROJECT.json` quotes both sides. `markDisconnected` checks and acts in
two steps, so a loop of an old connection can clear the flag of the new one;
`Close` during the back-off of a retry loop does not prevent the reconnect; and the
internal handlers do not "run before user handlers" (`client_internal.go:10`): `emit`
runs handlers in the order of registration and Login registers the internal ones, so
a handler registered before Login, as `README.md:20-27` and `example/main.go` do,
runs first and finds the message neither in the cache nor in the store.

Two more disagreements are stated above with the properties that hold instead:
"Tasks run one at a time in FIFO order" (`queue.go:10`, `LaunchOrder`), and the order of
events, kept within a connection only (`socket.go:303-304`, `StoreMonotone`).

## Proofs

All theorems hold for every value of the constants, from the named assumptions
of the modules (ranges of the numeric constants; disjoint sets of threads;
finite sets where a cardinality is taken). Four are about the caches and calls: a channel
id is not the placeholder "none" of an idle goroutine (`NoneAssumption`), the
clans are finitely many and the pseudo-clan for DMs is not among them
(`ClansAssumption`), the number of retry rounds is a number
(`RoundsAssumption`), and no call is both a `connectSocket` and another caller of
`ensureClanObjects` (`CallsAssumption`). Those about the encodings hold of the code's values: a byte has at
least six of them and the frame limit is a multiple of four below their fourth
power (`BytesAssumption`: 256 and 64 MiB), a WebSocket opcode does not make its
frame start like an API chunk (`OpsAssumption`), surrogates are a part of the code
space that ends within the plane (`TextAssumption`), fields of an id have at
least a bit (`IdsAssumption`). Three are about data that the code leaves to its
caller: an envelope is a valid encoding that is not empty, and a token does not
end in a zero byte, which the gateway would take for padding; both fit the 24 bits of
the extended header, to which `encodeAbridgedFrame` cuts the length without a
check (`PayloadAssumption`, `Fits`); a body fits a frame, and a code 16 bits
(`ChunkAssumption`).

* `CorrelationProofs`: type correctness with `CidInv` (cids are handed out once,
  so no two calls share one) and `WireInv` (each frame in flight carries the cid
  of the call it answers). Neither is part of a property, both are needed: that a
  reply lands with its own caller is a fact about the frame that carries it.
  From these, `AnswersCorrect`: within the raw range truncation is injective
  (`LowInjective`), so a raw lookup finds the right call or none. `MapCorrect`
  adds that a channel in the map is empty, which is what keeps readers from
  blocking. `RepliesReach` turns this round: a waiting call is in the map, so the
  lookup finds it. `BodiesCorrect`, that a body is whole, needs to know where the
  parts of a response are: `FrameInv` (a frame fits the call it answers, and the
  frame that ends a response is its last) and `StreamInv` (the buffer of a call's
  raw cid is a beginning of its response, the wire of its connection holds later
  parts in order, and as long as anything of the response is to come, all of the
  rest; a buffer that is not empty belongs to a call of that connection, so a
  call that writes finds its own empty). What a frame does to such a stream is
  proved first, for one wire and one buffer (`PushPart`, `PullPart`, `PullLast`).
* `SocketLifecycleProofs`: types; `NoNilConn` (once the flag was set, a
  connection is published, and stays so); `Implements`, the refinement, action by
  action; the notice bound of the abstract socket, by counting; and from these
  the notice bound of the goroutines.
* `ClientProofs`: the retry loop is single, with the invariant that ties the
  flag to the one goroutine that set it. `ConnectsCorrect` adds that before a
  second Login only the first Login or that retry loop can be in Connect, and
  that Login leaves it before its socket can drop.
* `ThrottleQueueProofs`: the rate bound. The invariant says that every launch
  of the last second is still in `kept` and that `kept` never exceeds the rate.
  `LaunchOrderCorrect` follows each job through caller, channel, worker and launch: what
  was launched, what the worker holds and what the channel holds are, one behind
  the other, the order in which the jobs arrived, and launch times rise along it.
* `MessagesProofs`: four properties of the message store and cache for any
  messages, goroutines, dispatchLoops at once, versions, cache size and restarts, from
  two hypotheses: identifiers are distinct (`Distinct`), and the internal handler is
  among those that are there when Login returns (`Bound`). The store is right because events
  are queued in the server's order, so the invariant is about what is on its way:
  `LoopInv` (the queue of a loop is in that order, behind the event in its hand, and
  where the loop is tells which handlers it has run), `OrderInv` (no row is ahead of
  what any loop has still to save of a message that is not in `outrun`) and `WayInv`
  (the server's latest version is on the disk, with some loop that will save it, or the
  message is in `missed` or `outrun`). `StoreMonotoneCorrect` follows from `OrderInv`: a row that goes
  back was ahead of what a loop had to save. The cache needs the
  goroutines as well: `CallersInv` bounds what each is about to store, `HeldInv` what is
  cached, and `SettledInv` says of a message that no history exempts and whose row is
  the server's version (`Sound`) that its cached version and all that is about to be
  cached are the latest (`Settled`), or a loop has the latest in its hand (`Keeping`).

* `RequestsProofs`: what calls return agrees with what the server did. The
  properties are about counts (`done`) and results, but a request may be carried
  out long after it was sent, so the invariant follows each call's sends in
  flight: `Unique` and `Flight` (a send in flight belongs to the present phase, or
  to the socket send before the fallback), `Account` (what has been carried out
  and what still may be never exceed the bound together), `Truth` (an answer at
  hand agrees with `done`) and `Joins` (the connection of the join is one the
  server knows). Every step touches one call; `Frame` carries the others over.
  The last part is ClanInit: `ClanInv` follows each call through its list. In a
  round the clans still to try and those that failed are together the ones not
  joined, each there once (`ClanRound`), and each has been tried in every round so
  far, which gives `ClanTriedOften`. `ClanMade` (every clan passed has an object)
  and `ClanLoaded` (the object being loaded is the present one or was replaced)
  give `ClanLoadedBeforeJoin`; `ClanCrossed` (of two active calls each knows of
  the other, and a call about to make an object where there is one has an
  overlap to blame) gives `ClansSurviveCalls`.
* `TransportProofs`: everything about the encodings, by induction over the data.
  - The header (`HeaderRoundTrip`, `HeaderDistinct`, `PaddingFits`), for every even
    `Base` of at least 4. The reader decides by the first byte alone; distinctness
    is what makes the four layouts decodable, and it fails only for an empty
    payload, whose header is the pong's.
  - `FramesDelivered` and `WritesDelivered`, that the wire delivers what was put on
    it, in both directions. The invariant cannot speak of the bytes alone: what is
    left of the stream after a step is a frame's beginning only because a whole
    frame was taken off. So `IInv` says that there are frames `F[1]`, `F[2]`, ...,
    one for each entry of `sent` (of `written`), of which the stream is what is
    left behind the first `n`, up to a byte where it may have been cut
    (`Conveys`, `Whole`). What a frame is depends on the entry alone: `Framed(e, x)`
    says that *any* stream that starts with the bytes `e`, however much of them
    has arrived, is read as `x` once they are all there, that exactly `e` is then
    taken off, and that before it is neither read nor mistaken for a frame over
    the limit. `Uplink(e, y)` is the same of the gateway's reader. Each layout is
    shown to be such a frame once (`AbridgedFramed`, `ChunkFramed`, `PongFramed`,
    `WsFramed` in its three lengths, masked or not; `TokenUplink`,
    `EnvelopeUplink`, `PingUplink`), and the steps use nothing else of it.
    The facts with content are `UnmarshalPadded` (with more zeros than were sent
    an envelope is malformed, because no tag is zero, so the first trial that
    succeeds is the right one: `ZerosSpoil`), `GuardedSound` (what
    `writeEnvelope` appends ends in no zero and decodes to nothing), and
    `XorTwice` (unmasking). As the witnesses `F` range over sequences of bytes,
    `IInv` is not a formula TLC can evaluate; TLC checks the two properties.
  - `IdsUnique`: the fields of an id do not overlap (`Or` of numbers without a
    common bit is their sum), so ids are ordered as millisecond and sequence
    number; the invariant says which pairs have been used. Nothing bounds the
    fields or the clock.
  - `AllOffsetsAgree` and, for the texts of the run, `OffsetsCorrect`: a match of
    code units starts with no low surrogate, hence where a rune starts, and from
    there the units tell the runes one after the other.

* `ChannelsProofs`: first `CacheManager` alone (`SetKeeps`, `DeleteKeeps`): the
  limit is tested on the map and the eviction taken from the order, so coherence
  must give that both have the same size (`SizeIsLength`). Then the state
  machine: the caches stay coherent only if keys and objects are what goroutines
  store in them, so the invariant says for each step of each goroutine which of
  its data are meaningful there (`Ready`).
  `FreshHolds` and `SurvivesHolds` share one invariant, `FreshInv`, because what a
  tier will hold is decided long before, when a goroutine reads or finds it:
  - `FreshWork`: what a goroutine has read, made or listed is no older than the
    change handled last, and `Clearing`: the tiers the listener has passed hold
    nothing of the channel while no other goroutine is on it;
  - `OneKey`: no object is two channels'. Without it the update in place of one
    channel could set another one's detail back;
  - `Versions`: the server is ahead of every event and of every handled change;
  - `Alone`: only one goroutine is on a channel that was never crowded, so what it
    found in the clan's cache is still there when it stores (`Placed`);
  - `Unborn`: nothing is known of a channel the server never made, which is what
    makes CreateChannel's new object the first.

  The steps are described once by what they may do (`CacheEffect`, `StoreEffect`,
  `ReadEffect`, `MakeEffect`, `JoinEffect`, ...), and each conjunct follows from
  those. The last part is Users: `UserInv` says that every id a goroutine
  carries is one that may be held, that an object about to be cached has an
  id, and that a listing and the loops that read it never carry "0" (`UserReady`); it
  gives `UserDmReal` and, step by step (`LostStep`), `UserLostOnlyByRace`.

Only model-checked: everything under fairness (`EveryCallReturns`,
`DeadReported`, `LoopsEnd`, `RetryRecovers`, `CloseEndsRetry`, `EnqueueReturns`,
`CallsReturn`, `Ends`): liveness is out of the prover's reach. Every safety
property of the passing runs has a theorem.

Induction. The library's induction theorems take the predicate as an operator,
which the installed provers cannot instantiate. That `<` on the naturals is well
founded they can use, as it speaks of sets: `Least` (a set of naturals that is not
empty has a least element) follows from it, and from that induction as a fact about
the set of numbers for which a claim holds (`Induction`, `StrongInduction`). A
recursive function of the model is a `CHOOSE`; for each there is a lemma that a
function with its recursion exists (by that induction), and one that
gives its step (`BigEndianStep`, `XorStep`, `UnmarshalStep`, `DeliverableStep`,
...). Nothing else of the recursion is used afterwards.

## Plan

Done, in this order: Correlation, SocketSpec, SocketLifecycle, Client,
ThrottleQueue, Requests, Frames, Transport, Cache, Channels, Messages, Users,
ClanInit, Utf16, Snowflake, with the proofs. Open: no module composes Correlation
with SocketLifecycle, whose interface (a connection that may be lost at any
moment) is assumed as weak as it can be on the one side; and the fallback of
Requests takes what Correlation shows of a send as its own description of it.

## Not modelled

* `api/api.pb.go` and `rtapi/realtime.pb.go` are generated by protoc: 38,673 of
  the repository's 43,957 lines of Go, accessors and descriptors without logic.
  Of the remaining 5,284 lines, examples included, the modules cover about 2,300.
* `socket_dispatch.go`: a switch from an envelope's field to an event name. The
  loop around it and the queue in front of it are in SocketLifecycle and
  Messages.
* `apiname.go` is a table; the endpoint wrappers of `restapi.go` and the write
  functions of `socket_write.go` that build one message and make one call are
  covered by the one call (Requests).
* `session.go` decodes a token once; nothing of it changes, and `IsExpired` is
  not called by the library.
* `redisstore/redis.go` has no state of its own; what a shared store may do
  (answer, fail, expire) is in Channels and Users.
* `channelmessage.go`, `content.go`, `types.go`, `constants.go`, `errors.go`:
  records, conversions between them and JSON, without state.
* `example/`, `cmd/`, `tools/`: demonstration programs and a code generator.
