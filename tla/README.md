# vvclient: specification and proofs

`vvclient` is the Rust core of a video-conference client: it keeps a signalling
session with a server over a WebSocket, survives lost connections, and offers an
application (Kotlin, Swift, ...) a `SignalClient` to call and a `Listener` to be
called back on. This directory holds TLA+ modules of its core, TLC
configurations that check them on small instances, and TLAPS proofs.
Paths are relative to `src/vvclient-rs/src/`.

## 1. The system

| part | state | operations | modelled in |
|---|---|---|---|
| `Xfer` (`client/xfer.rs`) | queue of numbered packets, `send_index`, `tail_sn`, `recv_sn`, `sent_ack_sn` | add, send, take an ack, note a received number, fill or send an ack | `Xfer` |
| worker, opened session (`client/worker.rs`) | `Session` (Xfer, connection, pending heartbeat), `reconnect_try_seq`, `reconnect_last_success_seq` | process, flush, receive, heartbeat, reconnect | `SessionLink`, `LinkPromise` |
| worker, life (`client/worker.rs`) | phase, wake-up channel of capacity 1, shutdown mode, `Flag` | open, work, reconnect, cancel, end | `SessionTask` |
| `SignalClient` and `Shared` (`glue/client.rs`) | inbox of operations, `leave_tx`, `closed` | requests, `leave_room_and_wait`, `into_finish` | `SessionTask`, `LeavePromise` |
| `DelegateImpl`, room (`glue/client.rs`) | user table, `got_room_ready` | server pushes about users and the room | `RoomUsers` |
| `DelegateImpl`, requests | `response_handlers`, `dlink_x_id` | requests are built, responses resolve callbacks | `Responses` (the handlers over a session), `Calls` (bodies, `dlink_x_id`, returns) |
| `TungStream` (`client/ws_tung`) | `recv_packet`, `recv_ping` over a tungstenite socket | peek, read, send, close | `WorkLoop` (receiving) |
| heartbeat (`client/worker.rs`) | `last_rx_at`, `last_hb_at`, `pending_hb_sn` | deadline, tick, timeout | `WorkLoop` |
| `Actor` (`kit/actor`), which the client does not use | mailbox, `is_drop` | invoke, send, drop; take, handle, end | `Actor` |
| `FmtWriter` (`proto/fmt_writer.rs`) | buffer with the beginning of a character | write, flush | `FmtWriter` |
| messages (`proto/v1.rs`, `proto/v1_ser.rs`, `proto/mediasoup`) and records (`glue/defines.rs`) | - | written and read as JSON, by client and server with different structs | `Wire`, `Serde`, `Messages`, `Calls` |
| `#[trace_result]` (`trace-error/proc-macro`) | - | rewrites functions at compile time | `TraceRewrite` |
| logging, TLS, JNI, binaries, async runtime glue | - | I/O, adapters | not modelled |

How they interact. The application's threads push an operation into
`Shared::inbox` and wake the worker task through an `mpsc` channel of one unit
element. The task calls its `Delegate` back: `on_opening` queues the first
requests in the `Xfer`, `on_process` empties the inbox into it, `on_response` and
`on_push` take what the server sent, `on_closed` ends it. Everything the task
and the delegate own is touched by one task only; what is shared with threads is
the inbox, the channel, the shutdown mode (an atomic), `leave_tx` and `closed`
(each behind its own mutex). So the interesting orders are those of the threads'
single accesses with the task's awaits, and those of the network.

What is hard here: connections that break with packets in flight in both
directions; acks that are cumulative, piggybacked, late and counted before they
are sent; a wake-up that many awaits consume and one must not miss; shutdown
modes read at different points of different phases; a leave that races the end
of the session; listener calls that fail halfway; server pushes about users in
any order; requests built from what the room looks like when they are processed
and answered when it looks different; two descriptions of each message that only
their names keep together; characters cut in two by a buffer. PROJECT.json lists each hazard at its line with the properties that
would catch it.

## 2. Modules

### Xfer
The fields of `Xfer` as a record, one operator per method. A packet is its number
and the ack it carries. `UpdateRecvAck` computes `send_index` with the wrap
of an unsigned subtraction (`UsizeCount` values), so that a negative index would
be seen. `AckDue`/`MarkAckSent` and `HasUnsent`/`MarkSent` are the two iterators,
each advanced only when it is asked for the next element, that is after the send
of the previous one succeeded. `InitRecvAck` is translated too; the client never
calls it, and one of the defective variants does.

### SessionLink
An opened session with the network and the server. `pc` is where the worker task
is: `process` (`on_process`), `send` and `ack` (the two loops of `flush_xfer`),
`recv` (the wait of `phase_work`), `dial` (`connect_loop`), `await` (the response
in `reconnect_session`), `closed`. `flush_for` remembers which caller the flush
returns to.
A connection is two FIFO channels. `Break` loses what goes to the server; what
was sent to the client may still be read, and until the client notices a send
either fails or is swallowed, as with TCP buffers.
The server is external: it takes numbers and acks as `update_recv_sn` and
`update_recv_ack` do, acks only what it received, answers requests it received,
and after a reconnect resumes with the first push the client has not
acknowledged. It may refuse a reconnect, answer it with something that is no
reconnect response, or accept it and see the connection break.
`got`, `lost`, `delivered`, `accepted` and `dials` are history variables.
Initial states are those in which `phase_open` returns.

### LinkPromise
What an opened session promises whatever becomes of its connections, in numbers only. Requests
are asked for, handed to a connection once each and in order, and arrive in order; `Cut` loses those on
their way; the client forgets none that has not arrived, itself or a later one. What the server
sends is read without a gap and confirmed only when read. Nothing is handed over and nothing
read on a connection until the server has agreed to the attempt that made it. `SessionLink`
implements it (`KeepsLinkPromise`): a number is asked for when it is in the queue or below, handed over
when `send_index` has passed it, released when an ack has removed it; `coming` and `arrived` are the
numbers in flight and received, `attempt` and `agreed` are `try_seq` and `last_success_seq`.

### SessionTask
The whole life of the task, and the threads. Every await of the task is a value
of `pc`, in one of the three phases: `connect` (`connect_to`), `connect_sleep` and
`request_sleep` (`sleep`), `await` (`open_session` and `reconnect_session`), `process`,
`recv`; `connect_failed`, `request_failed`, `work_over` and `work_failed` are the points
between, where the shutdown mode is read again; `closing`, `release`, `tell` are
the three steps of `on_closed`, after which the task is `gone` and its receiver
dropped. `TakeToken` and `EndOfQueue` are the two ways `rx.recv()` becomes ready.
A thread of `leave_room_and_wait` takes one step per access to shared state:
test of `closed`, mode, `leave_tx`, push, commit, the second commit, the wait (or,
when the commit failed, the clearing of `leave_tx`). `freed` holds the
leavers whose one-shot receiver completes, because a value was sent or because
the sender was dropped.
`cause` and `told` are history: why the task ended and the status reported.
`LeaveAbandoned` is a caller that drops the future of `leave_room_and_wait` while it waits; its sender,
its operation and its mode stay behind.

### LeavePromise
What a caller of `leave_room_and_wait` may rely on: a call that found the session
alive returns only after the session has closed, or because another leave was
called, and a caller may abandon its call; the session opens at most once, closes once, and the listener hears of
it after that. `SessionTask` implements it under the mapping `LifeStage`,
`CallStage` (property `KeepsPromise`).

### WorkLoop
How `phase_work` waits, which `SessionLink` abstracts: the outer select between
the heartbeat timer and `recv_packet`; inside it `recv_raw`'s select between the
wake-up channel and `TungStream::wait_next_recv`; then `recv_next_packet`, which
answers a ping before it hands the packet over. A branch that is ready drops the
other wherever that waits: `recv_packet` and `recv_ping` are what survives in the
stream, `pc` is where the task stands. Frames are texts (numbered round a circle
longer than what can be in flight), pings, other frames and the close frame.
Time is a number of ticks since the last reception and the last heartbeat. A
tick passes while the task waits, and while a pending heartbeat past its interval
keeps the loop going round; work that is ready takes none.
The socket, the network and the server are external: `net` is up, silent,
closed by the server or broken, and a server that is up answers a heartbeat
within `Delay` ticks. A socket that has ended yields `None` at once.

### Responses
The table of response handlers over `SessionLink`, whose variables and actions it
extends: `QueueRequest` is `ProcessOp` with the handler stored under the new number,
`QueueHeartbeat` is `HeartbeatTick`, `ReadResponse`, `ReadHeartbeat` and `ReadOther` split
`RecvPacket`, `Adopt` is `Reconnected`. `handlers` holds the keys of
`response_handlers`; `calls`, `read` and `orphans` are history. The server, free in
`SessionLink`, is held to what a client may expect: it answers a request once, in
kind, and repeats what it numbered unchanged (`log`).

### RoomUsers
The user table and, next to it, the picture an application makes from listener
calls alone (external). A handler is what its listener calls tell the application and the
table it leaves. A call may fail after any number of others: then the picture
has heard the calls before it and the table is what it is at that point
(`Leave`, `Pass`, `FireJoined`). What a failure leaves behind is history: `wronged` has the one user
the call was about, until he is announced or leaves; `skipped` those an `RReady` that
failed on somebody else did not come to, who stay ready in a ready room and unknown to
the application until another push announces them; `lost` the tree nodes the failed call
carried. Streams and
users come out of hash maps in any order, and calls about different ones touch
different parts of the picture, so the calls made before a failure are a set,
without a fold over an order of the model's choosing. An
application makes a fresh entry in `on_user_joined`, drops it in
`on_user_leaved`, and can do nothing with an event about somebody it does not
know. Streams are identified with their type: `brief` finds one stream
of a type, so two streams of one type are outside the model. Instance and
producer identifiers are arbitrary values. `orderly` remembers whether the server has
completed users' snapshots before it declared the room ready, and each once.
`MCRoomUsers` adds the symmetry of users, producers and instances, and the bound of
its run: more than one tree node only while at most one user is in the table.

### Wire, Serde, Messages
`Wire` is what serde makes of a struct: which keys it is written with (`rename_all`, `alias`,
`skip_serializing_if`) and what is read back (missing and null options, `default`,
`field_identifier` structs that refuse other fields, untagged enums, unit variants and
hand-written implementations as tables of words). A type is a record
of these attributes; `JsonEncode` and `JsonDecode` of `Serde` follow it. A value whose inside no code
looks at is a `Leaf`. `serde_json` and the derives are external; `Messages` has
one definition per struct with the attributes it carries in the source. A name in
`Ser` is what the client writes, in `Ref` what the server does. Words with many spellings
(mime types in any case, scalability modes) have the ones the code writes and one or
two it only reads.

### Calls
The requests and what becomes of them. `Ask` is the application's thread;
`Process` is `process_op` with `to_body_typed` or the closure of the operation, whose
possible requests `Requests` gives (none when it fails: a user or transport that
is not there, a text that cannot be read); `Commit` writes the packet and stores
what the resolver captured. How messages are written and read are constants of the module,
the operators `Encode` and `Decode`, which `MCConversions` takes from `Serde`. `SrvTakes` is the server, external: it understands a
request with its own types, or does not, and answers as asked, with a status, or
with a response of another kind. `Answered` is `on_response` with the resolver, which
turns the response into the record the application gets; `OnPush` is what
`handle_server_push` does to the streams a subscription looks up. Breaking and
resuming the connection is left to `SessionLink` and `Responses`; here an answer may
come at any time or never. `heard`, `made`, `told`, `created` and `sent` are history.

### FmtWriter
`write`, round by round, and `flush_buf`, over a text whose bytes are their positions,
so that a byte lost, doubled or out of order shows. `Ends` says where characters end.
A flush may fail in the formatter (`failed`). `Written` and `Flush` are the ends of `write` and
of `JsonDisplay::fmt`.

### TraceRewrite
A function as a tree of expressions and, inside macros, of tokens. `Expand` applies the
attribute once. `FoldExpr`, `FoldBlock`, `TryAttach` and `AttachLast` are the methods of
`TryRewriter`. `AttachMac` folds the branches of a `select!` that `parse_me` can read (`Readable`); it
does so with the free `fold_block`, so without the second look the method `FoldBlock` takes at
statements that are macros. `ReplaceToken` is the scan for the four trace macros; it goes through all tokens,
also those of the branches (`ReplaceCode`). `MCTraceRewrite` enumerates the functions, `MCConversions` puts `Calls`,
`FmtWriter` and `TraceRewrite` side by side: each behaviour runs one of the three, the others stand still.

### Actor
The mailbox of `kit/actor` with its callers, the owner and the task. A call is one
caller; `call` says where he is. `Send` and `Push` are the two halves of a send that
may wait for room, `TrySend` the one that does not. `DropFlag` and `DropShutdown` are
the two steps of `Actor::drop`. The task is `First`, the select (`NextFails`, `Take`,
`NoSenders`), `handle_op` and `handle_more_op` (`MoreOp`, `MoreNoSenders`, `MoreDone`); `End` drops
what is queued, which fails the calls that wait for it. The channel is tokio's and
external: permits go to waiting senders in order, and a permit granted is not
free though nothing has been pushed with it. Handlers are the user's; they may
fail or finish the actor. `ran`, `order`, `taken` and `at_drop` are history.

## 3. What the runs check

| run | bounds | shows |
|---|---|---|
| `link_safe` | 3 client numbers (1 queued before opening), 2 server numbers, 2 dials, 1 packet in flight to the client | every number is in exactly one place (`Accounted`), the server sees them in order and once, the index stays in range, no heartbeat of an old connection stays pending; acks are true (`AckedMeansReceived`) and none is forgotten; `try_seq` and `last_success_seq` identify attempts |
| `link_live` | 2, 1, 2 dials, 1 in flight, fairness | queued packets leave, received packets are acknowledged; `LinkPromise` is implemented (`KeepsLinkPromise`), so that among the rest the queue drops a packet only when the server has received it or a later one |
| `link_try_seq` | 1, 0, 2 dials | violation, see section 6 |
| `task_life` | a caller, a graceful and a forced leaver, fairness | wake-ups and shutdowns are never overlooked, graceful never cuts, `LeavePromise` is implemented; operations are taken, a forced leave returns, a dropped client ends |
| `task_leave` | one graceful leaver | violation, see section 6 |
| `loop_life` | interval 2, timeout 3, delay 1, 1 frame in flight, 1 wake-up, fairness | no text is lost or handled twice whichever branch is dropped (`NothingLost`), a live server is never timed out, a silent connection is given up, a text that arrives is handled |
| `loop_end` | interval 1, otherwise the same | violation, see section 6 |
| `responses` | 3 client numbers (1 queued before opening), 1 server number, 1 dial, 1 in flight | the table is exactly the waiting requests, a callback runs at most once, no first answer is rejected |
| `room` | 2 users, 1 type, 2 producers, 2 instances, 1 tree node, 2 while at most 1 user is in the table | the application's picture of ready users is the table's; with an orderly server nobody stays with the application after being forgotten, nobody is announced twice; no tree node is lost. A failing call spoils the picture of the user it was about and loses the nodes it carried, nothing of anybody else; those a failing `RReady` does not come to are wholly unknown, and keep their nodes |
| `actor` | 3 callers, mailbox of 1, 1 more operation a round, fairness | an answered invoke ran once and a failed one never; nothing is passed over; a drop ends the actor, and soon; every call returns |
| `conversions` | 1 operation of 13 beside the 3 requests of an opening, 10 pushes, 2 configurations; buffer 8, text 24 bytes; 2-statement functions nested up to 3 deep | every request, answer and push is understood as it was meant (`Understood`); what the application is told of an operation is what the server did for it, although users and streams changed meanwhile (`ToldTrue`); the text of a message goes out whole, in order, in whole characters (`OutputFaithful`, `NothingHeldBack`); no error leaves a rewritten function without its place, and nothing else of it changes, a `select!` that cannot be read or is a statement of another's branch excepted (`PlacesAttached`) |
| `rewrite_tokens` | log macros with operators beside a trace macro | violation, see section 6 |

The bounds are enough for what can go wrong: two dials give a reconnect after a
reconnect, with the leftovers of two connections; three client numbers give
packets before, in and after a broken flush, with a heartbeat among them; a
response may ack any number received, so an ack may be stale without a second
packet in flight; two server numbers give one lost before one received. `UsizeCount = 16` only
has to be larger than any queue. One caller and two leavers of different modes
give every pair of conflicting accesses. In the work loop a
ping is read before the text behind it is sent, so one frame on the wire
suffices for a packet in hand while a pong waits; the timeout is longer than the
interval, as the defaults in `client/defines.rs` are, and three ticks cover a
heartbeat, its answer and the silence after it. In `responses` one numbered packet
of the server and one reconnect are what it takes for a response to come twice,
and three numbers for a request, a heartbeat and a request queued meanwhile. Three
callers of the actor give one operation in hand, one in the mailbox and one waiting
for room, which is when a drop finds no room. Two
users suffice because handlers touch one user, save `RReady`, whose loop needs one user done and one not.

In `conversions` one operation is enough for a subscription that is built from one
state of the room and answered in another; three requests are with it in the table,
so an answer resolved with the wrong handler would show. A second operation meets
the first only in the table of handlers, which `Responses` covers. A text
of three buffers has characters of one to four bytes across every place where the
buffer is cut or flushed, and writes of every length. Each module of a conversion
walks its own states, so that the run is the sum of the three.

`SessionLink` and `SessionTask` have a type invariant that runs check; the
other modules give the types of their variables in comments, and the proofs state them (`Typed`).
The inductive invariants of section 4 were checked on the bounds of these runs, `RoomInv` also with two
types of streams, before they were proved.

The deadlock check is on but in the runs of conversions: those end when an operation
has been answered, a text written, a function rewritten. Elsewhere the
end of a session stutters explicitly (`Closed`, `Gone`), so any other state without a
step would be reported.

### Fairness
`SessionLink`: weak fairness of the task's own steps, because the runtime polls
it: it finishes processing, flushing and reconnecting. Nothing is assumed of
receiving (the server need not send), of `Wake` or of failures; the connection
delivers what is in flight unless it breaks.
`SessionTask`: a thread inside a call continues; the task's steps that wait for
nothing are taken. Strong fairness only of the wake-up branch of the receiving
select, since `tokio::select!` picks among ready branches at random; otherwise a
busy server would be a model of starvation the code does not have. `max_timeout`
bounds each opening and each reconnect: `[]<>~Dialing` says just that. Strong
fairness of the timeout would also exclude endless successful reconnects, which
the code does not.
`WorkLoop`: the task is polled; a select polls its ready branches in a random
order, so none that is ready again and again is passed over for ever (strong
fairness of each branch); time goes on. The server and the network owe nothing.
`LiveNotTimedOut` needs no fairness; it rests on the answer coming within `Delay`
of a heartbeat that was sent.

`Actor`: the task is polled and handlers return; a sender with a permit pushes;
strong fairness of `Take`, because the select picks among ready branches at random.
Nobody need call, drop an Invoker or drop the actor. `DropEnds` says no more than
that: with the mailbox empty and other Invokers left a dropped actor goes on.

## 4. What is proved

Every safety property the runs check is a theorem, for every value of the constants, save two
of the conversions (below), and `ToldTrue`, which is proved from one of these; so are the two action
properties and the two refinements. The proofs of a component are in a module of their own, named after
it; `ConversionsProofs` has those of `Calls` and `FmtWriter`.

The modules assume that bounds and delays are naturals, that `UsizeCount`, the interval, the
timeout, the wire of `WorkLoop` and the mailbox of `Actor` are at least one, that the operations of `Calls` are of its seven kinds, that the buffer of
`FmtWriter` has eight bytes or more and its text is UTF-8, that forced leavers are leavers and no caller
is one, and that the owner of an actor is none of its callers. They are otherwise
arbitrary. Two theorems assume more, `LiveKept` and `UnderstoodIsTold`, and say so.

### Session and transfer: `SessionLinkProofs`, `SessionHistoryProofs`
`SessionLinkProofs` begins with the operators of `Xfer`, for every state satisfying
`XferOK` (the queue holds exactly the numbers up to `tail_sn` that are not
acknowledged, in order, and `send_index` is inside it): an ack not
above the last number sent keeps `XferOK`, does not wrap, keeps the last number
sent, and removes only numbers up to the ack (`UpdateRecvAckSound`); adding a
packet, sending one and the receiving side keep it (`AddQos1Sound`, `MarkSentSound`,
`RecvSideSound`).

It then proves `Spec => []LinkInv` and from it `TypeCorrect`,
`IndexNeverWraps` (`SendIndexInRange`) and `DeliveryInOrder` (`InOrderAtMostOnce`).
`SendIndexInRange` is not inductive: an ack in flight could be above the last
number sent. `LinkInv` adds what excludes it: what the server received and every
ack in flight to the client are bounded by the last number the client handed to a
connection (`GotBound`, `AckBound`, `SentBound`), and the Xfer is `XferOK`. One lemma per
action, quiet actions grouped.

`SessionHistoryProofs` builds the history of a session on `LinkInv`:

* `EveryNumberAccounted` (`Accounted`). `Placed` says the same by `SentSn`: the numbers received, lost
  and in flight are exactly those up to it, each in one place, and the rest are in the queue.
  `OnlyAckedDropped` (`QueueDropsOnlyAcked`, which TLC checks within `KeepsLinkPromise`) follows from what an ack
  removes and `AckBound`.
* `NoAckForgotten` (`AckNotForgotten`): the two ways an ack counts as sent, at queueing and
  after a send, followed through breaks and through acks that shorten the queue. It is
  inductive with `LinkInv`, because an ack only removes what was sent.
* `AckNeverAhead` (`AckedMeansReceived`). What the server believes acknowledged is a number, what the
  client received a set, and a connection may lose pushes in the middle. `ReadInv` adds that no
  ack queued, in flight or received is above the highest number recorded (`AcksBehind`), that
  what is to be read next leaves no gap after it (`NoGap`), so that the highest number recorded
  stands for all below it (`DeliveredAll`).
* `HeartbeatCurrent` (`PendingHeartbeatCurrent`) with `Placed`: a new heartbeat has a number no
  connection ever carried.
* `AttemptsFresh` (`TrySeqFresh`): every `try_seq` ever sent is at or below the current one, and the
  request in flight is the first packet of its connection (`AttemptInv`). `SuccessIsAccepted`
  (`LastSuccessAccepted`): a positive answer in flight answers the current attempt (`SuccessInv`).

* `SessionKeepsPromise` is the refinement, `Spec => KeepsLinkPromise`, initial states to initial
  states (`LinkPromiseInit`) and every step to a step of `LinkPromise` or to a stutter
  (`LinkPromiseStep`, one lemma per action that is none). It needs `Placed` and `ReadInv`, and
  `LinkedInv`: a dead connection carries nothing, the task works only on a connection whose attempt the
  server agreed to, and the highest number the server knows is one it received. So no number of the session
  ever goes back: requests asked for, handed over and released, pushes read and confirmed, attempts
  made and agreed to.

### Task and callers: `SessionTaskProofs`
For any number of threads: no wake-up is lost (`WakeupsSeen`), no shutdown overlooked
(`ShutdownsSeen`), an opened session is cut by a forced leave only (`OnlyForceCuts`).
For the last, which is about what happens long after the mode was stored, `CutInv` adds that a mode of
`Force` means a forced leaver beyond its store, and where a `got_closed` comes from.
`PromiseKept` is the refinement: `Spec => KeepsPromise`, initial states to initial states
(`PromiseInit`) and every step to a step of `LeavePromise` or to a stutter (`PromiseStep`). It needs
`LeaveInv`: a leaver whose sender is in `leave_tx` has begun its call; whoever is freed, the session is
closed or another leave has been called; a commit fails only when the task is gone. It holds because a sender is dropped only when
another leave stores its own or when the session ends, and a caller that abandons its call takes
nothing from the others;
the leave that waits for ever (section 6) is allowed by it, since it never returns.

### Handlers: `ResponsesProofs`
First, a session with its handlers is a session
(`OpenedIsSession`: `OpenedSpec => Spec`), so `LinkInv` holds of it; then `TableInv`,
from which `TableIsExact`, `CallbackOnce` and `FirstResponseTaken` follow for any
number of requests and reconnects. `TableExact` alone is not inductive: a response
on its way might name a number not yet assigned, which a later request or
heartbeat would take. `ResponsesExpected` excludes it; that the server acks only what it
received, and received only what was sent (`GotBound`, `SentBound`), keeps it true.

### Room: `RoomUsersProofs`
For any users, stream types, producers and instances, and with a listener that may fail at
any call: `ShownAsKept` (`ReadyUsersShown`), `TreesHandedOver` (`TreeNodesHandedOver`),
`NobodyLeftBehind` (`NoGhosts`). `RoomInv` says of each user what the properties say
(`PictureOK` of what he is shown as, `TreeOK` of his tree), that of a user who is not in the table no
tree node is expected, and that nobody has an entry
before the room is ready (`NobodyEarly`): without it an orderly `RReady` might announce
somebody twice. The theorems say what the properties say, with their exceptions: whom a failed call was about
(`wronged`), whom a failed `RReady` did not come to (`skipped`: unknown, rather than shown), and the nodes in
a failed call (`lost`). A push about one user leaves the others as they were
(`OthersOK`), `RReady` is the one handler for all. `DeltaTold` is the heart of it: what `delta` tells
of the streams that changed, and of them only, leaves exactly the new streams (`TellsTheChange`).

### Waiting and time: `WorkLoopProofs`
`TextsKept` (`NothingLost`): the texts from the server to the delegate, over the network, the
socket, `recv_packet` and the one being handed over, follow each other round their circle without a
gap or a repetition, whichever branch of a select is dropped. The property is one of positions (`GapFree`),
and each step moves a text from the front of one place to the end of the next
(`GapFreeMoves`).
`LiveKept` (`LiveNotTimedOut`) assumes `InTime`: a heartbeat is answered before the next
one is due, or within what the timeout leaves after an interval. With the defaults
(`client/defines.rs`: 10 s, 30 s) any answer within 20 s will do. The invariant bounds the
silence by where the heartbeat or its answer is (`Silence`): at most an interval before it is sent, at most
an interval and the time since then while the answer is on its way. TLC finds the server timed out
when either part fails (interval, timeout and delay of 2, 2, 1 or 2, 4, 2).

### Actor: `ActorProofs`
For any callers, mailbox and round: `AnswersTrue` (`AnswerTrue`), `ServedInOrder`
(`NoneSkipped`), `DropsBounded` (`FewAfterDrop`). `QueueInv` says that the mailbox is what follows `taken` in the sequence
`order`, where everybody is at most once; `RunInv` that whoever waits has not been run, unless it is the one
being run, and nobody is run before he is taken; `DropInv` that after the drop what was taken and
what is left of the round stay within one round.

### Requests and returns: `ConversionsProofs`
`UnderstoodIsTold`: `CallsSpec /\ []Understood => []ToldTrue`, for any operations, pushes and configurations and
whatever `Encode` and `Decode` do. The hypothesis is the other property of `Calls`, which the run checks for the codec
of `Serde`: the server reads each request, and the client each answer, as it was meant. `CallsInv` says that what a
resolver captured is what its request asks for (`Captured`), under a number of its own
(`Numbers`, `Waiting`), and that an answer of the request's own kind is given only when the server did
what was asked (`Served`). The user table does not occur in it: that a subscription is told of the producer it
asked for does not depend on what the users became since, because `SubReturn` reads only
the resolver and the response.

### Format writer: `ConversionsProofs`
For every text in UTF-8, every way to cut it into writes and
every buffer of eight bytes or more, the formatter gets the text in order and in
whole characters (`WritesTheText`), to its end (`WritesAll`), and no round of
`write` finds the buffer without room (`WriteGoesOn`). The last is why the loop ends and is
not inductive; `WriterInvariant` adds that between two rounds less than half
the buffer is in use, since a flush leaves at most three bytes, the beginning of one
character (`WholeLargest`, `FlushSound`), and half a buffer is more than that. It is
why `space == 0` in `write`, after which nothing is copied in that round, is never met.

### Only model-checked
Liveness, which the prover cannot do: `EveryRequestLeaves`, `EventuallyAcked`, `EveryOpTaken`,
`ForcedLeaveReturns`, `FinishEnds`, `DeadNoticed`, `TextsHandled`, `DropEnds`, `CallsReturn`.
`Understood` (`Calls`) and `PlacesAttached` (`TraceRewrite`): they are what recursive operators compute over trees
(`JsonEncode`, `JsonDecode`, `Expand`), which takes induction over data, out of the prover's reach.

## 5. Not modelled

* Wording, logging, the characters of JSON text. A body is carried by its packet as a
  tree, and is not once more a string.
* The server-only half of `Xfer` (`check_send_ack`, `send_qos0`) and what nobody calls
  (`is_full`, `clear_send_ack`, `ksvc`).
* Types that no message of the client carries: capabilities, transport tuples, SCTP;
  chat and room tree pushes beyond being understood (they only call the listener).
* Durations other than as ticks of `WorkLoop` (`SessionLink` lets ticks and timeouts
  come whenever they are waited for); the sends of `TungStream`, which pass through to
  the library.
* TLS verification, JNI entry points, the async runtime glue, logging, the binaries:
  adapters to libraries, with no state a property could relate.
* `client/client.rs`, which is not compiled; the debug macros and `poc.rs` of `trace-error`.

## 6. Findings

* `task_leave`: the comment in `leave_room_and_wait` (`glue/client.rs:88`) asks that
  the wait unblocks even if `on_closed` arrives first. It does when `on_closed`
  comes after the sender is stored. If `on_closed` comes between the test of
  `is_closed` and the storing, the sender is neither used nor dropped and the call
  waits for ever; with the task not yet gone even the commit succeeds.
* `link_try_seq`: `proto/v1.rs:433` says `try_seq` counts every attempt to connect,
  successful or not; the code counts the reconnect requests sent.
* `loop_end`: `client/defines.rs:61` calls `heartbeat_timeout` the threshold of the
  heartbeat. After the server has closed the WebSocket it has no effect: the stream
  yields `None` at once each time, `is_closed` is set and read by nobody,
  `recv_next_packet` hands over no packet, and `recv_raw` goes round without ever being
  pending; the select around it never gets to poll its timer. The task spins until
  the application wakes it, and does not reconnect. The waits for the open and the
  reconnect response use the same `recv_raw`, so `max_timeout` is starved the same way.

* `rewrite_tokens`: the comment at the end of `replace_token`
  (`trace-error/proc-macro/src/macro_replacer.rs:152`) says that all other tokens are
  copied. After a name and a `!` the function takes one more token, and when that is no
  group emits the name and the `!` only: `a != b` becomes `a ! b`, `if !done` becomes
  `if !`. It shows where a trace macro in the same macro is replaced; otherwise the original tokens stay.

Observations without a text they contradict, recorded as hazards: the status of
a Closed push does not reach `on_closed`; packets handed to a connection that
breaks are not sent again; `RReady` announces users who are not ready, a user
who leaves before he is ready is not announced as leaving, and tree updates of
a ready user before `RReady` reach the listener before `on_user_joined`; with two
leaves the second releases the first early, and a graceful one after a forced
one downgrades it. `channels`, `encrypt` and `reduced_size` are documented with defaults
and are required: an RTP description without them fails the operation and with it
the connection (`NoChannels` in `MCConversions`). Others: `OpenSessionRequest` in
`proto/v1.rs` has neither `token` nor `client_info`, which the client sends (`Meant` in `Calls`
leaves them out); an unknown RTCP feedback is written as `unknown`, an unknown header extension
as `unsupported`; a
macro in front of a `?`, as in `foo!()?`, is not traced (`HasPlace`); `ksvc` leaves out
`L2T1_KEY`. A listener call that fails in the loop of `RReady` ends it (`glue/client.rs:608`) with the room
ready: the users after it stay ready and unannounced, and an `on_user_joined` that fails loses the tree
taken out of the cell for it (`:617`). A `select!` with a `default` or `complete` branch, a guard or
a lone pattern before the arrow is not read (`=` also matches the beginning of `=>`,
`trace-error/proc-macro/src/select.rs:87`) and left as it is: its branches get no places. Nor do those of a `select!` that
is itself a statement of another's branch (`attach_trace.rs:341`).

## 7. Plan

Done: the session (`Xfer`, `SessionLink`, `LinkPromise`, `SessionTask`, `LeavePromise`, `WorkLoop`), what
stands on it (`Responses`, `RoomUsers`, `Calls`), the conversions (`Wire`, `Serde`, `Messages`,
`FmtWriter`, `TraceRewrite`), `Actor`, and the proofs of section 4. What could follow:

1. The sends of `TungStream`, whose failures `SessionLink` takes at any point.
2. Two clients of one room, which meet only at the server.
