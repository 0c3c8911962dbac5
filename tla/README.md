# A TLA+ model of zyxar/socketio

The repository is a Go implementation of engine.io (`engine/`) and socket.io
(the root package), server and client. This directory holds TLA+ modules that
model it, TLC configurations that check them on small instances, and TLAPS
proofs of the main results for every instance. `PROJECT.json` maps each
definition to the lines it models and lists runs, findings, hazards and theorems.

## 1. The system

### Components

| component | state | operations | interacts with |
|---|---|---|---|
| emitter (`engine/emitter.go`, `Socket.Close`) | bounded channel of packets, done channel, wait group, `sync.Once` | submit, loop, flush, close | every goroutine that calls Emit or Close; waits at the barrier; writes to `Conn` |
| polling connection (`engine/polling.go`) | channels `in`, `out`, `closed`, `pause`; two deadlines | ReadPacket, WritePacket, ReadPacketOut, ServeHTTP (GET, POST), Pause, Resume, FlushIn, FlushOut, Close | reader, emitter, upgrade and HTTP requests share it |
| websocket connection (`engine/websocket.go`) | a gorilla connection | ReadPacket, WritePacket, Close | reader, emitter, upgrade |
| session and upgrade (`engine/server.go`, `socket.go`, `barrier.go`) | `Conn` and `transportName` under an RWMutex, the barrier | reader goroutine, handle, ServeHTTP with a sid, upgrade | all of the above |
| session manager, accept loop (`engine/session.go`, `server.go`) | map from sid to socket, channel of new sockets | new, Get, Remove, Server.Close | HTTP requests, reader |
| engine client (`engine/client.go`) | a Socket, ping timer | Dial, ping loop, read loop, Close | a server |
| payload codec (`engine/payload.go`) | none | encode, decode (XHR, XHR2) | polling |
| events (`engine/handle.go`) | callbacks by event | On, fire | both servers, both clients |
| socket.io session, namespaces (`server.go`, `socket.go`, `handle.go`) | `Server.sockets`, per socket a map of namespaces to `ackHandle` (last id, callbacks) under a mutex | onOpen, EventMessage and EventClose callbacks, process, attachnsp, detachnsp, detachall, emit, fireAck | called by reader and upgrade; Emit |
| packets over frames (`socket.go`, `parser_default.go`, `parser_msgp.go`) | the decoder's packet that waits for attachments | emitPacket, Encode, Add, ParseData, process | Emit, EventMessage |
| socket.io client (`client.go`) | a socket, namespaces | Dial, On, Emit, process, Close | a server |

### What is hard in it

* Three kinds of goroutines work on one session: the reader, the emitter and the
  HTTP requests. An upgrade replaces the connection under the other two; a
  barrier, an RWMutex and a pause channel keep them apart, and none of the three
  covers everything.
* `select` takes any ready case: a goroutine may find a connection paused or
  closed, get a packet, or time out, all from the same state.
* The emitter ignores the errors of writes. Deadlines, retries (there are none)
  and closing races therefore decide about the loss of packets.
* `handle` is called by the reader and by an upgrade, so the layers above, which
  were written for one caller, are entered by two goroutines.
* The reader of a session runs before the layer above has registered it.
* A packet of socket.io is several frames, sent one by one, of which some may be
  lost, come from another goroutine, or be refused by the decoder.

The full list, each at its line, is `hazards` in `PROJECT.json`.

### What makes each part correct

* Emitter: accepted packets are written in order, none lost or doubled; Close
  returns, after what was accepted before it is written; nothing afterwards.
* Connection and session: each packet of either direction is somewhere, once;
  the client receives in order; an upgrade costs at most the packet that was past
  the barrier; the barrier is held by one upgrade, which lets go of it; a session
  whose client is gone is taken down.
* Namespaces: callbacks of acknowledgements are called once, and for their own
  event where a namespace is connected once; OnDisconnect is called once for each attachment; nothing stays attached.
* Frames: packets come out whole, once, in order; arguments reach the parameters
  they are meant for; events are acknowledged.
* Session manager and accept loop: every session that was made is read, opened once
  and in order; requests return.
* Engine client: only messages from before the registration are missed; Close is
  followed by at most one more; the goroutines end together.
* Payload codec and text: what was written is what is read, whatever the pieces in
  which it comes; nothing of a broken payload is passed on.

## 2. Modules

| module | models | theorems |
|---|---|---|
| `Outbox` | abstract: what a Socket promises to those who Emit | |
| `Emitter` | the emitter and `Socket.Close`; implements `Outbox` | `Emitter_proofs` |
| `PollingConn` | the channels of a polling connection, as actions for others to conjoin | |
| `Session` | composes `Emitter` and `PollingConn` with reader, handle, upgrade, barrier, lock, HTTP requests and a client | `Session_proofs`, `SessionPackets_proofs` |
| `Namespaces` | a session as `server.go`, `socket.go` and `handle.go` see it | `Namespaces_proofs` |
| `Arguments` | operators: which argument of an event reaches which parameter of its callback, both parsers | |
| `Frames` | packets as frames between two peers of this library, both parsers, with `Arguments` | `Frames_proofs` |
| `EngineServer` | how sessions are made: requests without a sid, manager, accept loop, Server.Close | `EngineServer_proofs` |
| `EngineClient` | composes `Emitter` with Dial, ping loop, read loop and Close of the engine client and the registration of the socket.io client | `EngineClient_proofs` |
| `Selection` | operators: the elements of a sequence that are in a set, as a recursive function | `Selection_proofs` |
| `Decimal` | operators: numbers as digits | |
| `PacketText` | operators: the text of a packet in the default parser | |
| `Payload` | the POST handler, which decodes a payload as its body arrives, and the encoders | |
| `Posting` | composes `Payload` with `PacketText` | |
| `MCEmitter`, `MCSession`, `MCNamespaces`, `MCFrames`, `MCEngineServer`, `MCEngineClient`, `MCPosting` | instances for TLC | |

Definitions that start with the comment "Mutant:" are deliberately wrong variants
of the definition that follows them. No specification uses them: replacing the
definition by its mutant must make TLC refute the property that `PROJECT.json`
pairs with it, which shows that the property depends on that piece of code.

### Correspondence with the code

**Emitter.** `submit` has two selects: `Submit` is the first (refuse if done),
`SubmitSend` and `SubmitFail` are the cases of the second. `Take`, `Pass`
(`barrier.Wait`) and `Written` (`WritePacket` returned) are the body of `loop`
and of `flush`, which do the same, so that "top" stands for the head of both;
`Exit` is flush's empty default and `wg.Done`. `CloseCall`, `CloseConn` and
`CloseReturn` are `once.Do`, `wg.Wait` with `Conn.Close`, and the return to each
caller. There is no state for a goroutine that is parked in a select: it behaves
as one that reaches the select late, so waiting is a guard.

**PollingConn.** Each operator is one case of a select in `polling.go`.
Deadlines are timers that may fire at any moment, so a timeout is a case that is
always ready in the callers.

**Session.** The reader is `ReadBegin` .. `ReaderExit`. `ReadBegin` merges
loading `Conn`, `SetReadDeadline` and the look at `closed`: what another goroutine
can do to the old connection in between is to close it, which the select that
follows sees too. `Handle` and `HandleReturn` are `Server.handle`, for the reader
and for an upgrade. `UpgradeRequest` .. `UpgradeDone` are `ServeHTTP` and
`upgrade`; steps on the new connection are merged, since nobody else has it.
Every early return is an action (`ProbeFail`, `UpgradeFail`, the second case of
`PauseConn`) and `ServeBegin`, `ServeSelect` are the call of `socket.ServeHTTP`
that follows a failed upgrade as well as a successful one. `WriteBegin` ..
`WriteWs` are `WritePacket` under `RLock`. `PollArrive` .. `PostClosed` are the
GET and POST handlers. `handled`, `dropped`, `rcvd`, `accepted`, `written` and
`pausers` are history variables, which no guard reads but `SidKnown`, for the
client.

The client is external. It follows "Transport upgrading" in `engine/protocol.md`:
one GET and one POST at a time, and the upgrade packet only when both are back.
It may send several packets in a POST, leave at any time, or stop in the middle
of an upgrade. A websocket is reliable and ordered until it breaks. The session
starts on polling, with the open packet in the emitter's channel, as `NewServer`'s
loop leaves it. A session that starts on websocket has no upgrade to polling that
could succeed (`UpgradeRequest`, "mute").

**Namespaces.** `OpenAttach`, `OpenRegister`, `OpenNotify` are `onOpen`, which runs
on the accept loop while the reader already runs. `Message` is the callback of
EventMessage with its lookup of `Server.sockets`, and the handlers go on to one
case of `process`. `fireAck` takes three steps (`FindHandle`, `FindCallback`,
`CallAck`) because it takes two locks in turn. `CloseFind` .. `DetachUnlock` are
the callback of EventClose: the lookup, the removal with the call of Close, the
return of Close (`CloseReturns`), and `detachall`, one callback per step, under the
mutex. For an upgrade Close may never return (`CloseJams`): that is what
`session_deadlock` shows of `Session`, and `detachall` is then not reached. Somebody who
closes the session after that waits as well, so `CloseReturns` is for a session in which
no Close is stuck. The client may acknowledge an event up to `MaxAck` times, early or
late, also after its namespace was connected again. `EmitFind`, `onAck`, `EmitSend` are `emit` with a
callback. The constant `DisconnectEmits` says which OnDisconnect callbacks emit.
A handler takes the next packet from `inbox` and then goes through its steps
independently of the others, which is how `Session` lets reader and upgrade run.

**Frames.** A packet is a type, a number, an id and a list of items ("name",
"json", "bin"). `preprocess`, `EncodeDefault` and `EncodeMsgpack` are the encoders;
`Found`, `Decodes`, `decode`, `AddDefault` and `AddMsgpack` the decoders: `Found` is
what the regular expression for placeholders matches in the JSON that Encode
makes, and `decode` leaves the items that `Selected` finds in it. `Begin`, `Submit` and `SubmitFail` are `emitPacket`, one `Emit` per frame;
`Receive` is the callback of EventMessage, with `process` (`processEvent`,
`processAck`). The engine below is a
FIFO channel that loses at most `MaxLoss` frames. `Session` justifies both:
`OutboundFIFO`, and `UpgradeCost` for the losses of an upgrade. `Call`, with the
operators of `Arguments`, is `callback.Call` and `UnmarshalArgs`: a value is the k-th
of its kind in its event, so that a parameter that got another one is seen.
Conversions between Go types are left out: values of one kind ("json" or "bin") fit
all parameters of it.

**EngineServer.** A session is named after the request that made it. `Refuse`,
`NewSession`, `HandOver` / `HandOverDone` (the cases of the select) and `Serve` ..
`PostAtOnce` are `ServeHTTP` without a sid, for GET and POST; Accept of the transports is its outcome.
`LoopTake` .. `OnOpenReturn` are the accept loop. `LoopOpen` merges the Emit of the
open packet with the start of the reader and the call of onOpen: the emitter is
new, so Emit does not wait, and nobody else has the socket before the reader runs.
The inside of a session is `Session`'s: here `ReadFails` may happen at any time once
the reader runs, and `AppClose` once onOpen has been called. `handed`, `opened` and
`left` are history.

**EngineClient.** `Connect` and `ReadOpen` are `Dial` up to the start of the two
goroutines, with the errors that make it fail. `Register` is what `client.go` does when
engine.Dial has returned. `PingStop`, `Ping`, `PingAccepted`, `PingRefused` are the ping
loop, whose Emit is `Submit` of `Emitter`; `ReadBegin` .. `ReaderExit` the read loop with
`handle`. `HandleClose` and `HandleClosed` are EventClose with its callback, which
closes the socket, and the second Close of `handle`, which returns at once, as
`sync.Once` is done. `ClientClose` and `ClientCloseConn` are the two statements of
`Client.Close`, which, unlike `Socket.Close`, does not wait for the emitter. What
gorilla/websocket has buffered can still be read after a loss, and by a Read that
is under way when the connection is closed; the next Read fails to set its deadline.

**Payload.** The body is a sequence of bytes: two packets encoded by `WriteTo`, cut off
at any place (`broken`). `Fill` is one Read of the body by bufio.Reader, which may
return any part of what was asked for when the body comes in pieces. A Read of at
least `BufSize` that finds the buffer empty goes past it (`ReadDirect`), and gets io.EOF
together with the last bytes if the body announces its end that way (`eager`, as that of
a request with Content-Length does): `readFrom` then leaves the packet out and the POST is
answered with 200. `HeadMsg`,
`HeadLen`, `HeadKind`, `HeadType` take a byte of a head each, for both encodings;
`NoData`, `Panic`, `ReadData`, `ReadChars`, `DecodeChars` are the rest of `decode`, of which
the last two are base64.Decoder, external. `Return` is the end of `ReadFrom` and the
response. `whole` is history: how many packets were decoded before a Read that
returned too little.

**PacketText** is `encodeTo` and `decode` on bytes, with one operator per stage of
`decode`; an early return is an empty text for the stages that follow.

## 3. What the runs check

`CHECK_DEADLOCK FALSE` everywhere: sessions end, and workloads are finite.

### Passing

| run | properties | instance |
|---|---|---|
| `emitter` | types, `Conservation`, `EmitReturns`, `CloseReturns`, refinement of `Outbox` | 2 submitters, 2 closers, 4 packets, channel of 1 |
| `session` | `OutboundFIFO`, `OutboundConserved`, `InboundConserved`, `TypeOK`, `UpgradeCost`, `PausedUnderBarrier`, `BarrierExclusive`, `FlushedBeforeClosed` | 2 messages each way, POSTs of up to 2, across 1 upgrade; or a packet of any kind in and 1 message out across 1 upgrade; or 2 upgrades that race, with 1 packet in or out (`Workload`) |
| `session_live` | `UpgradeEnds`, `SocketCloseReturns`, `SessionReaped` | the application closes, 1 upgrade, 1 message out |
| `namespaces_concurrent` | `AckMatches`, `EmitReturns`, `DetachedWhenLost` | reader and upgrade, 2 emitting goroutines, 2 events |
| `namespaces_serial` | types, `DetachedAfterClose`, `AckOnce`, `DisconnectOnce` | reader alone, 2 emitting goroutines; 3 namespaces, one unknown to the server and one whose OnDisconnect emits, with 1 event; or a namespace connected up to twice, with 2 events, each acknowledged up to twice (`Workload`) |
| `frames` | `RoomForAttachment`, `Intact`, `InOrder`, `MatchedCall`, `EventAcked` | either parser, 1 sender, 2 events of up to two binaries, 1 frame lost, callbacks with two lists of parameters, of which one has a Socket |
| `engine_server` | `ServerInv` (types, `SomebodyReads`, `OpenedInOrder`, `OpensFresh`), `SessionOpens`, `RequestReturns` | 3 requests, 2 for polling and 1 for websocket, channel of 1 as in the code |
| `engine_client` | `ClientInv` (types, `QuietAfterClose`, `PingsWhileOpen`, `NotifiedOnce`), `OnlyEarlyMissed`, `FlushedOnClose`, `LoopsEnd` | 2 packets from the server, 1 message and 1 ping to it |
| `posting` | `PayloadInv` (types, `AllOrError`), `IntactUntilShort`, `ShortOnlyAtLimits`, `TextSurvives` | payloads of up to 2 of 6 packets, and each of 96 packets of socket.io alone |

`SomebodyReads`: a socket without a reader, which would stay in the manager for good,
is on its way to the accept loop, unless Server.Close has stranded it.
`OpenedInOrder`: what was handed over is what was opened, what the loop is about to
open and what is in the channel, in this order and each once. `OpensFresh`: the socket
that the loop opens was not closed meanwhile, and nobody reads it.
`OnlyEarlyMissed`: messages may be missed by a client that registers its callbacks
late, but only before the first that is delivered; each message that was sent is
missed, delivered or still to be handled, in this order. `IntactUntilShort` and
`ShortOnlyAtLimits` say when decoding is exact: as long as each Read gets all it
asked for, which it does when the body comes at once and fits the buffers. `AllOrError`:
a POST that is answered with 200 has had its whole body decoded, but for the last packet
if it was read past the buffer (`LastLeftOut`).

### Violated: where code and documentation disagree

Each of these runs checks one sentence of the documentation or of a comment, and
TLC shows an execution of the code that contradicts it. The quotations are in
`findings`.

| run | what happens |
|---|---|
| `session_deadlock` | an upgrade handles a close packet that it flushed: Close waits for the emitter, which waits at the barrier that the caller holds |
| `frames_interleave` | two goroutines interleave their frames: attachments go to the wrong packet |
| `posting_short` | one Read per packet: the rest of its data is zeros, and its missing bytes are taken for the next head |

### Behaviour that the properties allow

The passing properties are as strong as the code permits. These are the
executions of the models that stand in the way of simpler statements; to see one,
give TLC the formula as an invariant (or, with `~>`, as a property of `FairSpec`). The
named formulas are at the end of their modules, under "What the documentation says
and the code does not do".
Five of them have a configuration: `MCSession_reader.cfg`, `MCNamespaces_lost.cfg`,
`MCNamespaces_reconnect.cfg`, `MCEngineClient_lost.cfg` and `MCPosting_dropped.cfg`.

| module | not true | why |
|---|---|---|
| `Emitter` | `epc = "exited" => packets = <<>>` | a submit between its two selects puts a packet in the channel after flush: Emit returned nil, nothing is sent. `Outbox` allows it |
| `Session` | `\A d \in dropped : d[2] # "paused"` | the emitter is past the barrier when an upgrade pauses the connection, the write is refused and its error ignored. `UpgradeCost` bounds it by one packet per upgrade, although `engine/protocol.md:253` wants "no messages lost" |
| `Session` | `\A d \in dropped : d[2] # "hijacked"` | a failed upgrade goes on to `socket.ServeHTTP` of the polling connection and writes the next packet to a hijacked response. `UpgradeCost` bounds it by one per failed upgrade |
| `Session` | `once = "closed" /\ barrier = None /\ cur # Polling => cur \notin wsOpen` | Close during an upgrade closes the old connection; the new one becomes `Conn` and stays open |
| `Session` | `handled` sorted by number | reader and upgrade handle packets of one client concurrently |
| `Session` | `pc[h] = "reply" ~> pc[h] # "reply"` | an upgrade that answers a ping with the emitter's channel full waits for the emitter, which waits for the upgrade |
| `Namespaces` | a CONNECT is never in `ignored` before the session is removed | the reader runs before `onOpen` has registered the session |
| `Namespaces` | `DetachedWhenLost` with `DisconnectEmits # {}` | `detachall` calls OnDisconnect under the mutex that Emit takes |
| `Namespaces` | `DetachedWhenLost` without its exception for a Close that is stuck | an upgrade handles a close packet: Close never returns, `detachall` is not reached, and the entry in `Server.sockets`, by which the reader's EventClose would find the socket, is gone |
| `Namespaces` | `AckOnce` with two handlers and `MaxAck = 2` | `fireAck` looks the callback up and deletes it in two critical sections: reader and upgrade with two acknowledgements of one event both find it, and both call it |
| `Frames` | `~Refusal` | the regular expression for placeholders wants a comma before them: an acknowledgement whose first item is binary is refused |
| `Frames` | `mute = {}` | an acknowledgement without data is refused by ParseData, its callback never called |
| `Frames` | a string frame without attachments is the last of its packet | an acknowledgement without data keeps the buffers of the event it answers, and sends them |
| `Session` | `UpgradeKeepsReader` | the reader that comes to Read after an upgrade has closed the old connection and before `Conn` is replaced finds it closed instead of paused, and ends the session, although `engine/protocol.md:148` has the server switch to the new transport |
| `Namespaces` | `LostIsNotified` | EventClose before registration, or before OnConnect: OnConnect is the last that the application hears, although `handle.go:27-28` promises OnDisconnect upon "connection lost" |
| `Namespaces` | `AckMatches` with `MaxConnect = 2` | a namespace connected again numbers its events from 1 again: a late acknowledgement calls the callback of another event |
| `EngineClient` | `LossIsNotified` | a read error ends the read loop without EventClose: namespaces of a client are never told that the connection was lost |
| `EngineClient` | `missed = <<>>` | engine.Dial starts the read loop before `client.go` has registered its callbacks |
| `EngineServer` | `done /\ r \in left => sock[r] = "closed"` | a request that finds the server closed leaves its session in the manager, with its emitter running and nobody reading |
| `Payload` | `DecodesAllThatWasRead` | `decode` returns the error of Read together with the data, and `readFrom` takes io.EOF for the end: a last packet whose data are as long as the buffer, in a body with Content-Length, is left out and the answer is 200, although `payload.go:27` says that ReadFrom "decodes data from r" |
| `Payload` | `Padded(p) = p` for base64 | the slice has the length before padding is known: a binary of which a group is not full gets zeros at its end |
| `Payload` | `DecSize`: a binary of more than 768 bytes as base64 | base64.Decoder returns what its buffer of 1024 characters gave, even when the whole body is there |
| `Frames` | `\A c \in calls : c[2] # Fail` | msgpack wants parameters in the order and of the kinds of the arguments; the default parser binds binaries and JSON separately and leaves the missing ones zero |

### Conditions on the passing properties

* `UpgradeEnds` and `SocketCloseReturns` are checked with no ping or close packet
  from the client: `session_deadlock` shows what happens otherwise.
* `AckMatches` needs that no namespace is connected twice (table above).
* `AckOnce` needs one handler (table above). It holds for a client that repeats its
  acknowledgements and for a namespace that is connected again, where a late one may
  call the callback of another event, but none twice.
* `DetachedWhenLost` excepts a Close that is stuck in an upgrade, and needs
  `DisconnectEmits = {}`.
* `DetachedAfterClose` and `DisconnectOnce` need one handler: with two, both may
  find the namespace attached and each calls OnDisconnect. `DisconnectOnce` also
  needs that no packet was ignored: a CONNECT that nobody heard may be followed by
  a DISCONNECT that is heard.
* `EventAcked` excepts what the table above shows, a lost frame and a closed
  engine. `Intact` holds with a lost frame unless the decoder has refused a string
  frame, because the packet before it then still waits. `InOrder` and `Intact` need
  one sender with the default parser (`frames_interleave`).
* `MatchedCall` is about callbacks whose parameters, the Socket aside, have the kinds of
  the arguments: for others the two parsers differ.
* `SessionOpens` and `RequestReturns` need that onOpen, and for a POST the callbacks of
  its reader, return, and end with Server.Close.
* `TextSurvives` needs namespaces without a comma and data that do not begin with a
  digit (`PostingAssumption`), which the text cannot tell from its separators.
* `LoopsEnd` says nothing about an open connection on which nothing comes: a read
  there ends with the deadline that the server's parameters set, which the model
  leaves open.

### Bounds

Channels have capacity 1 instead of 8: full and empty are then both one step
away, which is where the code branches, and the proofs hold for any capacity. Two
packets are enough for order and for one packet in hand while another waits; two
upgrades are enough for a race for the barrier, and for a second upgrade after
the first. `MaxPost = 2` lets a POST be cut between two packets. Frames has events
of two binaries, so that a packet can wait with some attachments present and some
to come, and two events, so that a frame lost from one leaves a packet for the
frames of the next to be confused with. `MaxConnect = 2` where a namespace is connected again, `MaxAck = 2` where an
acknowledgement is repeated. Symmetry is used
only in a run of invariants (the two upgrades of `session`). `Workload` of `MCSession`
and of `MCNamespaces` is a state constraint: it joins three (two) workloads in one run, and
cuts off executions that have more packets, kinds of packets and upgrades (namespaces,
connections and acknowledgements) than each of them.

`EngineServer` has three requests, so that one is with the loop, one in the channel
and one waits for room. `EngineClient` has two packets from the server (a message
that is missed and one that is delivered; a message and then a close packet) and one
of each kind from the client, which fill a channel of 1. In `Payload`, `BufSize = 10` and
`DecSize = 8` stand for 4096 and 1024: payloads of up to 34 bytes are then shorter,
as long as, and longer than the buffer, and a base64 of 12 characters is longer than
the decoder's. Data of 10 and 12 bytes are read past the buffer; as in the code, the
base64 decoder's buffer is the smaller one and never is (`DecSize < BufSize`). The data hold digits, ':' and 'b', so that a head may be seen where
there is none; lengths have one and two digits. A body is cut at every byte.

### Fairness

Weak fairness of each goroutine of the server: Go's scheduler runs a goroutine
that can run, and the read and write deadlines (which `Session` has as actions
that are always enabled) make reads and writes return. `sync.RWMutex` lets a
waiting writer in before later readers, and the emitter holds the read lock only
during a write, so weak fairness of the upgrade's step is enough for `Swap`.
Neither client nor application is fair: they may stop at any point. `Frames`
assumes that the engine delivers, which `Session` shows until the client leaves.
In `Namespaces`, `ReadFails` is fair once the connection is lost: `SessionReaped`.

`EngineServer`: the accept loop and the requests are weakly fair; clients (`Cancel`),
readers and Server.Close are not. `EngineClient`: each goroutine is weakly fair; a read
fails eventually on a connection that is lost or closed, and only then. The server,
the network, and the application between its calls are not fair.

## 4. What is proved

TLAPS checks these for every value of the constants: any number of goroutines,
upgrades and packets, any capacity.

**Emitter_proofs.** The inductive invariant `EmitterInv` is `EmitterTypeOK`,
`Conservation`, and two facts that make them inductive:

* `HandInv`: the loop has a packet in its hand exactly between `Take` and
  `Written`. Without it `Take` could overwrite a packet.
* `CloseInv`: done is closed exactly when Close has begun, the emitter exits only
  then, and when it has exited at least `due` packets are written. This links the
  moment of the call to that of the return, which `FlushedBeforeClosed` is about.

The step is proved once for `EmitterStep`, whose `Submit` has any packet, so that
`Session` can use it. From it follow `EmitterTypeCorrect`, `EmitterConserves`
and `CloseFlushes`. `EmitterImplementsOutbox` maps queue to what is
in hand and in the channel: `Take`, `Pass` and the steps of the callers are
stutters or `Accept`; `Written` is `Transmit`; `CloseCall` is `Shut`, and `CloseConn`
is `Finish`, whose guard is `CloseInv`.

**Session_proofs.** `StepsOfEmitter` shows that every step of `Session` is a step of
`EmitterStep` or leaves the emitter alone, so that `EmitterInv` carries over
(`SessionConserves`, `SessionCloseFlushes`). `ControlInv` is the control types,
`BarrierExclusive`, and `PausedByHolder`: a paused polling connection that is still
`Conn` belongs to the upgrade that holds the barrier, and that upgrade is past
`PauseConn`. The last is what makes a second Pause impossible, and it needs
`BarrierExclusive`. The packets are in `InboundStep` and `OutboundStep`. Together
they give `SessionTypeCorrect`, `UpgradesExclude` and `PauseIsSafe`.

**SessionPackets_proofs** follows the packets of a session.

* `ReceivedInOrder`. `SwitchInv`: a client that has sent the upgrade packet neither
  polls nor posts, and only such a client has its connection changed. `OrderInv`: what
  the client has received and what is in `out` are each in the order of `written`, and
  the first come before the second as long as the session is on polling. A packet left
  in `out` is therefore never received after one that came by websocket.
* `InboundIsConserved`. `PendingInv`: a handler has packets at hand only while it
  handles them. `InboundInv`: each number the client has given is in exactly one place
  or among those that were refused; `Places` counts them.
* `OutboundIsConserved`. `UniqueInv`: no packet is offered to the emitter twice.
  `OutboundInv`: what was written is somewhere, and there are no more places taken
  than packets written, so that none is in two.
* `UpgradesCost`. `CostInv` is an account: while an upgrade has the connection paused,
  the packet past the barrier (`InWrite`) is still to be paid for, and after FlushOut
  so is what is left in `out`. `HijackInv` does the same for failed upgrades.

**EngineServer_proofs.** `ServerSafe`: the inductive invariant adds to `ServerInv`
that the loop has a socket in hand between its select and the return of onOpen
(`LoopInv`), that a request which has not handed over its socket is the only one that
knows it (`UnopenedInv`), and `FreshInv`, which is `OpensFresh` for all sockets that
wait, not only for the one in hand.

**EngineClient_proofs.** The client's emitter takes steps of `EmitterStep`, so that
`EmitterInv` carries over as it does in `Session`. `DialInv` (nothing moves before the
loops start), `WireInv` (an open connection got all that was written) and `ReaderInv`
(where the read loop can be when Close has begun) give `ClientSafe` and
`ClientCloseFlushes`. `OnlyEarlyAreMissed` needs `HandleInv`, and `SelectedConcat` of
**Selection_proofs**: selecting from a concatenation is concatenating what is
selected. That is an induction over the length of a sequence; the library's induction
theorems cannot be used (below), so it goes through the least length at which the
statement would fail.

**Namespaces_proofs.** `TypeInv` is `NamespacesTypeOK` and what it needs of the
labels of each goroutine, with the fact that a handle that was looked up is found again.

* `ReaderDetaches`, with `CloseInv`, is proved for `Handlers = {Reader}`: with two
  handlers a CONNECT can attach a namespace behind `detachall`.
* `DisconnectedOnce`, for one handler too, with any number of connections. `StageInv`
  says where the reader can be with respect to registration and EventClose.
  `AlternateInv`: for each namespace there is a path of "attached or not" through the
  inbox, which CONNECT and DISCONNECT turn and other packets leave, from what the socket
  has (`Live`) to what the client thinks (`Joined`); so a CONNECT never meets a namespace
  that is attached. `CountInv`: the calls of OnDisconnect and what is attached, or
  detached and still to be told (`ToTell`), are together no more than the attachments.
* `CallbacksFireOnce` is for one handler, with any number of emitting goroutines, of
  connections and of repeated acknowledgements. `FireInv`: an event is emitted by one
  goroutine (`EmittedOnce`), its callback is entered in one place of one handle, and only
  after `onAck` (`EnteredOnce`), one that was called is entered nowhere (`FiredOnce`), and
  the one that the handler is about to call is still entered under the id it looked up
  (`CallEntered`), which is where a second handler would come between.
* `CallbacksMatch` is for any number of handlers, emitting goroutines and repeated
  acknowledgements, with `MaxConnect = 1`: a namespace that is connected again numbers
  its events from 1 again (`MCNamespaces_reconnect.cfg`). `AckInv`: a namespace has one
  handle (`AttachOnce`, `ConnectOnce`), and wherever an event is, with the goroutine that
  emits it, the client, the inbox or a handler, it has the id under which its callback
  was entered (`Binding`).

**Frames_proofs.** The decoder's four outcomes are stated once (`AddStarts`, `AddPasses`,
`AddFills`, `AddCompletes`), for both parsers, and the invariants only use those.

* `AttachmentsHaveRoom`: a packet that waits has room (`Waits`). No assumption: any
  senders, losses and interleavings.
* `PacketsInOrder` is for one goroutine that emits events (`Senders = {c}`), since
  two interleave their frames (`frames_interleave`), with any losses. The stream to a
  peer is what it decoded, what waits, what is on the wire and what its sender has yet
  to Emit. `StreamInv`: all of it was begun, and its numbers grow along it. The numbers
  of acknowledgements are those of decoded events (`NumberInv`), so that the order of
  one direction carries over to the other.
* `PacketsIntact` is for one such goroutine and `MaxLoss <= 1`: with two losses the
  attachments of a later packet can take the places of an earlier one's. `WholeInv`:
  without a loss, each packet of the stream has the right attachments so far and is
  followed by those that are missing (`Whole`); after a loss, a packet that is not
  whole is `Spoiled`, that is, the next packet begins before it is complete, so that
  it never comes out. `EndsWell`, that the frames not yet on the wire are the last of
  one packet, is needed at the moment of the loss.
* `CallsMatch` has the assumptions of `PacketsIntact`, and lists of arguments and of
  parameters of any length. `CarryInv` follows the arguments of each event: the head on
  the wire and the packet that waits have, with the default parser, the items that are
  no binary and the number of those that are, and with msgpack the whole list. A packet
  that comes out has its attachments by `WholeInv`, and then both parsers give the same
  (`CallFits`): to the k-th parameter of a kind the k-th argument of it (`Places`). That
  this is each argument in its place is an induction on the list of parameters
  (`CountSelected`, `PlacesSelected`, `ItemPlaces`), by way of `SetInduction` of
  `Selection_proofs`.

The other assumptions are those named in the modules: capacities are positive, the
roles of goroutines are distinct, `Submitters`, `Closers` and `Packets` of the emitter
are those of the session, `Frames` has two peers.

### Only model-checked

* Liveness under fairness, and ENABLED: outside the prover.
* `Payload.PayloadInv`, `IntactUntilShort`, `ShortOnlyAtLimits` and `Posting.TextSurvives`
  depend on what `WriteTo`, `Digits`, base64 and the stages of `decode` compute for every
  input: powers of 10, 64 and 256 under division, about which the SMT solver knows
  nothing, and the folds of the community modules, which take an operator as a
  parameter, as the library's induction theorems do; the provers cannot instantiate it.

## 5. Not modelled, and why

* HTTP: CORS, cookies, origin checks, the handshakes of net/http and
  gorilla/websocket, and the headers that transports copy. I/O of libraries; the
  control of the handlers is in `Session`, `EngineServer` and `Payload`.
* JSONP responses (`polling.go:301-315`). They quote the payload twice, once by the
  JSON encoder and once in the format string, where `engine/protocol.md:213` shows one
  pair of quotes; no property of the models depends on the wrapping.
* Lengths in a payload are those of bytes, and of base64 they count 'b' and the type;
  `engine/protocol.md:157` has characters and `:167` counts one less. Two peers of this
  library agree, which is what `Payload` checks.
* The random part of a sid, and collisions of sids.
* Conversions between Go types, JSON and msgpack: `msgp` generated code (`packet.go`),
  `encoding/json`, and `url.Parse` beyond the query of a path without escapes. `Frames`
  keeps the one outcome that changes control, failure (`Fail`).
* An error of Encode (`socket.go:154-157`), which `emitPacket` returns before it has
  emitted anything.
* A POST whose client is slow: `EngineServer` has the body decoded when it waits for room.
* Sessions after Server.Close: those that are running go on, as in `Session`.
* A Dial that fails after the handshake leaves its connection open (`ReadOpen`); nobody
  has a reference to it, and no property is about it.
* Known and not covered by a property: the decoder is shared by reader and upgrade
  without a lock; `transportName` and `Conn` are read without the lock in
  `ServeHTTP` and Close; with msgpack every packet is preceded by an empty string
  frame that the peer refuses, with a spurious call of OnError; an acknowledgement
  whose arguments do not fit is not passed to its callback, which is deleted all
  the same.

## 6. Plan

Done, in this order: `Outbox`, `Emitter`, `PollingConn`, `Session`, their proofs,
`Namespaces`, `Frames`, `EngineServer`, `EngineClient`, `Payload`, `PacketText`, `Posting`,
`Arguments`; then the proofs about `EngineServer`, `EngineClient`, `Namespaces`, the packets
of `Session`, and `Frames`; last `DisconnectedOnce` and `CallsMatch`.

Every invariant and action property that a run checks is proved, except the four about
`Payload` and `Posting`; these, and what holds only eventually, stay with TLC.
