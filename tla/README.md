# tinylib: specifications and proofs

tinylib is a C library for event-driven network programs: an event loop with
channels, timers and asynchronous tasks, TCP and UDP endpoints on top of it,
RTP peers, an RTSP client and server, TLS and DTLS endpoints, and utilities.
This directory holds TLA+ specifications of its concurrent and stateful parts,
written from the C source, TLC configurations that check them on small
instances, and TLAPS proofs of what holds on all instances.

    tlc -config MCEventLoop.cfg MCEventLoop     # check a model
    tlapm EventLoopProofs.tla                   # check the proofs

`PROJECT.json` lists the components, runs, mutants, the map from definitions to
source lines, findings, hazards and theorems.

## The system

All paths are below `src/tinylib`. `windows/net` is a twin of `linux/net` over
`WSAPoll`; the models are of the Linux side.

| Component | State it keeps | Operations | Correct when |
|---|---|---|---|
| Event loop, `linux/net/loop.c` | `started`, `quited`, thread id, epoll set, event array | `loop_loop`, `loop_quit`, `loop_run_inloop`, `loop_async`, `loop_update_channel`, timers | callbacks run on its thread; it ends when told to |
| Task queue, `linux/net/async_task_queue.c` | list under a lock, eventfd | submit (any thread), process (loop thread) | every task is called once, in order; no lost wake-up |
| Timer queue, `linux/net/timer_queue.c` | ordered list, `min_timestamp`, per-timer flags | add, cancel, refresh (any thread), process | a timer runs neither early nor after its cancel, is freed once; the loop does not oversleep |
| Channel, `linux/net/channel.c` | mask, flags for deferred destruction | set/clear event, attach, detach, destroy, onevent | epoll agrees with it; never used after it is freed |
| Buffer, `linux/net/buffer.c` | bytes between two offsets | append, peek, retrieve, read from a descriptor | contents are a queue of bytes |
| TCP connection, `linux/net/tcp_connection.c` | output buffer, flags for deferred destruction | send, destroy (any thread), attach, detach, onevent | bytes leave once and in order; destroy flushes, then frees; no callback after it |
| TCP client and server, `linux/net/tcp_client.c`, `tcp_server.c` | a connecting socket; a listening socket and a reserve descriptor | connect, close; start, stop, accept | each descriptor is closed exactly once |
| UDP peer, `linux/net/udp_peer.c` | reference count, callbacks | send, set callbacks, destroy (any thread), onevent | freed when the last queued use is done |
| RTP peers, `rtp/rtp_peer.c` | a bitmap of port pairs | alloc, free (any thread) | a pair has one owner |
| Time wheel, `util/time_wheel.c` | slots and the present index | submit, cancel, refresh, step | a timer expires after the steps it asked for |
| RTSP codec, `rtsp/rtsp_message_codec.c` | state of a partly decoded message | encode, decode | fragments decode as the whole does |
| RTSP session, request, server, `rtsp/` | a connection, a codec, pending requests | read, reply, request, destroy | each request is answered once; destroyed once |
| TLS client, DTLS endpoint, `ssl/` | OpenSSL state, callback flags | connect, send, destroy | no callback after destroy; hand-shake completes once |
| Sockets, addresses, URL, SDP, base64, MD5, log | none or one call's | sequential functions | -- |

How they interact: a loop owns one thread; every object belongs to a loop and is
used on its thread; a call from another thread becomes a task of the loop
(`loop_run_inloop`). `epoll_wait` gives the loop a batch of channels, which it
marks active and then calls one by one (`channel_onevent`); a channel's callback
(`connection_onevent`, `async_task_event`, ...) calls the user's, and these may
call back into every interface, destroy calls on any object of the loop included.
After the batch the loop runs its expired timers.

What is hard in this design, and what the properties are about:
decisions read without a lock and acted on later; an object destroyed while a
batch, a list of expired timers or a queued task still refers to it; frees
deferred by flags that several exits of a function have to honour; cached values
(`min_timestamp`, `is_monitored`) that steer a system call; and output buffered
across partial writes while the peer closes. `hazards` in `PROJECT.json` places
each one at its line.

## Modules

| Module | Models | Abstract promise |
|---|---|---|
| `TaskExecutor` | -- | tasks posted are called once each, in order, one at a time, none after close |
| `EventLoop` | `async_task_queue.c` and the task side of `loop.c` | implements `TaskExecutor` |
| `EventLoopProofs` | proofs about `EventLoop` | |
| `TimerQueue` | `timer_queue.c`, the timers of `loop.c` | |
| `TimerQueueProofs` | proofs about `TimerQueue` | |
| `ChannelDispatch` | `channel.c`, the epoll side of `loop.c` | |
| `ChannelDispatchProofs` | proofs about `ChannelDispatch` | |
| `TcpConnection` | `tcp_connection.c` | |
| `TcpConnectionProofs` | proofs about `TcpConnection` | |
| `UdpPeer` | `udp_peer.c` | |
| `RtpPeerPool` | `rtp_peer.c`, composed with `UdpPeer` | |
| `RtpPeerPoolProofs` | proofs about `UdpPeer` and `RtpPeerPool` | |
| `CountdownTimers` | -- | a timer expires after the steps it asked for, is called once, and is called again if it loops |
| `TimeWheel` | `time_wheel.c` | implements `CountdownTimers` |
| `TimeWheelProofs` | proofs about `TimeWheel` | |
| `RtspCodec` | `rtsp_message_codec.c`: writing, and the resumable decoder | |
| `RtspStream` | what the TCP endpoints give the two RTSP ends | |
| `RtspSession` | `rtsp_session.c`, `rtsp_server.c` | |
| `RtspRequest` | `rtsp_request.c` | |
| `RtspExchange` | the four above composed, with both users | what is sent is handed over whole and in order; every request is answered |
| `RtspExchangeProofs` | proofs about `RtspCodec` and `RtspExchange` | |
| `CallbackUser` | what users do in callbacks | |
| `TcpClient`, `TcpServer` | `tcp_client.c`, `tcp_server.c` | |
| `TlsClient`, `DtlsEndpoint` | `tls_client.c`, `dtls_endpoint.c` | |
| `Endpoints` | the four above composed | |
| `EndpointsProofs` | proofs about `Endpoints` | |
| `MC...` | instances of these for TLC | |

**EventLoop.** The constants are the threads, one of which is the loop's, and the
closures. A submission is cut where other threads can come between its steps:
`LoopRunInLoop` reads `started` and `quited` and decides; `RunDirect` enters the
callback, or `AppendTask` appends under `task_lock` and `NotifyLoop` writes the
eventfd after the unlock. `loopPc` follows `loop_loop` and `async_task_queue_process`:
`TestQuited`, `EpollWait`, `EventfdRead`, `TakeTasks` (the whole list at once),
`RunTask` for each, `DrainDone`, `TimersDone`. `frames` are the callbacks a thread
is inside of, so that callbacks that submit tasks, directly run ones included,
nest as they do in the code. Other channels and timers are the places ("event",
"timers") where the loop thread runs user code. A member of `Task` is one closure
in flight; it may be submitted again after it has returned.

**TimerQueue.** `queue` is the list with `min_timestamp`; `done` is the list
`timer_queue_process_inloop` splits off; `timer` holds each `struct loop_timer`
with the state of its memory. The client's operations sit in `ops`, a first-in
first-out queue, which is what `EventLoop` is proved to implement; `batch` is how
many of them the loop has taken. `Expire` sets `is_expired` on all of `done` before
`Fire` enters the first callback, and callbacks may add, cancel and refresh. The
clock ticks between any two steps up to `MaxNow`. A dereference of freed memory,
or an unlink of a timer that is not on the list, sets `fault`.

**ChannelDispatch.** Two loops, and channels that are created, armed, detached,
moved to the other loop and destroyed by the callbacks of the loop that holds them.
`interest` is the kernel's side; `UpdateChannel` is `do_loop_update_channel` with
the failures of `epoll_ctl`. `Mark` is the first pass over the batch, `OnEvent` and
`OnEventDone` the two halves of `channel_onevent` around the callback. The kernel may
report any registered channel.

**TcpConnection.** One connection, a sending user on the loop thread, another on a
client thread, and a kernel send buffer of a few bytes. `connection_onevent` is cut
at its callbacks (`In`, `CallbackReturn`, `Out`, `Finish`, and `Hup`), so that the
peer can close or reset between them. `Detach` and `Attach` are possible wherever the loop
thread runs user code, the connection's own callbacks included and with an event of its
own still to be handled; where that makes an assertion fail (`AssertionFails`) the
program ends (`"aborted"`). Bytes sent carry their sender and number.
`SendInLoop` covers the five outcomes of `write` and `writev` at once: the first
`n` bytes of what is buffered followed by the new data are taken, the rest is the
new buffer.

**UdpPeer** and **RtpPeerPool.** `UdpPeer` holds the peers (memory, port, `ref_count`,
callbacks, watched events), the loop's task queue and the event handler that is in
progress; its operators take the thread that calls, because `loop_run_inloop` makes
them a direct effect or a task. A client's request is cut between its `atomic_inc`
and its append. `RtpPeerPool` extends it: `job` says where each thread is in
`rtp_peer_alloc` or `rtp_peer_free`, one step per access to the shared bitmap or to a
socket, and its `Next` is the one that runs. A bind may fail at any time (another
program has the port), and must while another peer has it. The constant `Careless`
gates what the code does not withstand: destroying a peer, or clearing its message
callback, in its own callback, and using a peer on the loop thread before its queued
initialisation.

**TimeWheel.** One thread. `buckets` maps a slot to the timers linked there,
`slot` and `steps` are the fields of `struct wheel_bucket`. `time_wheel_step` is cut
at its callbacks: `Step` takes the slot's list off and moves the wheel, `Call` enters a
callback after its successor (`next`, the code's `b_iter`) was read, `ReturnOneshot`
and `ReturnLoop` follow the callback's result. User code runs between calls of
`time_wheel_step` or inside a callback (`UserRuns`), and may then submit, cancel and
refresh any timer but the one being called and its successor, of which the code keeps
pointers (`Usable`). `Back` is the arithmetic as written: one turn is added when the
difference is negative.

**RtspCodec, RtspStream, RtspSession, RtspRequest, RtspExchange.** Text is a sequence
of tokens: line ends, spaces, colons and the bytes of a body are single, a word or a
number is one. The constant `Token` is what there is of them, and `Numeral` gives the numbers
that occur their tokens; TLC takes strings, the proofs only that they are told apart.
`Decode` folds `Turn`, one pass of the decoder's loop, over what has
arrived; between two reads the decoder keeps its state, the spans it has marked and
`data_ptr_offset`, which is the last byte it looked at, so that the next read looks at
that byte again (`FirstLine` and the operators after it are the cases of the `switch`).
`RtspStream` is the connection: text travels in pieces of any length, and is cut off by
a close or a reset. `RtspSession` and `RtspRequest` have one action per turn of
`session_ondata` and `request_ondata` (a frame, a message, nothing whole left), per
callback of the connection, per return of the user's handler with the deferred
destruction, and per function the user calls. `Kept` and `Handled` are the two effects of
`request_filt_response`: what it takes out of a response, and the response it leaves for
the handler, whose Session value it cuts at the `;`. `RtspExchange` joins them and remembers
what was sent and not handed over yet (`upward`, `downward`), who waits for an answer
(`asked`), and the session id that was given out (`issued`).

**Endpoints.** `TcpClient`, `TcpServer`, `TlsClient` and `DtlsEndpoint` are each one
object with what is left of the calls its loop thread is in (`clientCalls`, `calls`,
`tlsTodo`, `dtlsTodo`), innermost first: a callback, the POLLOUT half of an event
handler, the test of `is_alive` that ends a handler. A user in a callback may call
again (connect, send), which puts a handler on top, or destroy. `is_in_callback` is the
flag of the code, one bit however deep the calls are, and where an exit of the code
leaves it set the model does too (`"rejected"` after a failed `SSL_connect`). Every call of OpenSSL and of the kernel is a choice among
its results; after a fatal error OpenSSL fails for good (`tlsLink = "dead"`). `Send` is
`do_ssl_send_inloop` with its two writes, each taken whole, in part, not at all or
failing. In `TcpServer` descriptors are counted, so that `accept` runs out of them and
`idle_fd` is given up and taken back (`AcceptNone`). The TCP client and server run
together, the client connecting to the server (`Connect`); the TLS client and the DTLS
endpoint share nothing with them, so each has behaviours of its own.

## What the runs check

A type invariant is part of the first invariant of a run where it is not listed: of
`NoFault` in `TimerQueue`, `ChannelDispatch` and `TcpConnection`, of `OwnedOnce` in
`RtpPeerPool`, of `StreamsIntact` in `RtspExchange` and of `FreedOutsideCalls` in
`Endpoints`.

* `event_loop` (three threads, three closures one of which is `loop_quit`'s, one
  call per callback; 41 thousand states). Invariant `NoLostWakeup`;
  refinement `ImplementsExecutor`; liveness `WaitingTasksRun` (every task that waits runs,
  unless it was still in the queue when the loop returned: a list that was taken is called to its
  end even if a task in it quits the loop), `QuitEndsLoop`. Two clients are enough for their appends and notifications to
  overtake each other, and three closures for a list in which quit is first, in the
  middle or last.
* `timer_queue` (three timers, two intervals, clock to 3, a cap of two on the sleep, two
  operations on their way; 713 thousand states with timers permuted). Memory (`NoFault`, `OwnedOnce`), the
  cache (`MinIsEarliest`), the sleep (`NoOversleep`), and what users are promised
  (`CancelledNeverRuns`, `NeverEarly`). Three timers give a head, a middle and a tail; with a cap of two, sleeps occur
  that end before the cap because a timer is due.
* `timer_queue_live` (two timers, no symmetry). `DueTimersRun`.
* `timer_cancel_across` (violation). The documented cross-thread cancel of a one-shot
  timer uses freed memory when the timer expires first. The other timer runs leave
  that call out (`CancelOneShotAcross = FALSE`).
* `channel_dispatch` (three channels, two loops; 94 thousand states with both
  permuted). `NoFault`, `NoZombie`, `NoEventAfterDestroy` for deferred destruction,
  `KernelAgrees`, `NoDanglingInterest` for epoll. Three channels let a callback act
  on one behind it and one ahead of it in the batch. Deadlock is checked.
* `tcp_connection` (three bytes per sender, send buffer of two, sends of one or two
  bytes, two calls on their way, detach and attach anywhere in the loop's thread; 517 thousand
  states). `StreamInOrder`,
  `PendingIsWatched`, `DestroyFlushes`, `NoFault`, `NoCallbackWhileDraining`, and
  `DestroyedIsFreed`. Sends are larger and smaller than the room that is left, so
  writes are taken whole, in part and not at all.
* `rtp_peer_pool` (one pair of ports, four peers one after another, the loop and one
  client thread, two tasks on their way; 600 thousand states). `RefCountsHolders`: the count is the owner,
  or the destroy on its way, plus the requests on theirs, and a peer lives exactly as
  long as it is positive, so that it is neither freed under a holder nor leaked.
  `OwnedOnce`: the bitmap and the owners agree, and a handed-out pair is alive on its two ports.
  `NoFault`. One pair makes the two threads compete for it; four peers leave room for an
  attempt that fails halfway and one after it. Deadlock is checked.
* `time_wheel` (three timers, four slots, one to three steps; 99 thousand states).
  `SlotsAgree`, `IndexInRange`, and the refinement `ImplementsCountdown`: the distance from the wheel's
  position back to the timer's slot, plus one, is what is left of its count. Three
  timers let a callback act on an expired timer that is not its successor. All
  numbers of steps below the size are there.
* `rtsp_exchange` (methods SETUP and GET_PARAMETER, which between them have headers,
  a body, and a session id given out and carried; two requests, one frame, one read
  that finds less than all; 131 thousand states). `StreamsIntact`: each end hands over
  what the other sent, field for field but for the parameters of the Session value that the
  client's filter cuts off SETUP's answer, with `TypeOK`. `SessionCarried`,
  `AnswersTheRequest`, and the liveness `RequestsAnswered`. One cut may fall anywhere
  but within a line end and right after a colon, at every place of the two requests and of
  the frame between them; two requests make the second be read with what the first left.
* `rtsp_fragment` (violation, one request). With the cut allowed there too, a request
  reaches the server's user without its CSeq (`RequestsIntact`). The codec's header
  promises a streaming decoder.
* `endpoints` (five bytes to send, two attempts to connect, a backlog of two, three
  arrivals, two descriptors; 21 thousand states). `FreedOutsideCalls`, `StreamInOrder`,
  `PendingIsWatched` and the liveness `WaitingServed`. Five bytes let a send with
  output pending be taken across the border of old and new; two descriptors and three
  arrivals make `accept` fail.
* `tls_poll_out` (violation). A send that writes everything leaves POLLOUT watched, and
  the assertion of the event handler fails.

Each property of a passing run has a mutant in `PROJECT.json`: a plausible wrong
version of one definition that makes TLC find the property violated.

Deadlock checking is off where the program may stop: a loop that has been
destroyed, a clock at its bound, a connection that is freed, a destroyed wheel, an
exchange whose requests are answered, an endpoint that is freed.

**Fairness.** The loop thread goes on (weak fairness of its steps): it is a thread
with nothing to block it but `epoll_wait`, which times out after 100 ms at most.
A client thread in the middle of a submission goes on: it holds no lock between its
steps. In `TcpConnection` the loop runs the task queue (strong fairness of
`RunTask`, which is what `WaitingTasksRun` of `EventLoop` says of it) and the
kernel's buffer is emptied unless the connection is reset; the peer need not send
or close, and no user need do anything. In `TimerQueue` the clock advances to its
bound. In `RtspExchange` each end's loop thread goes on (`ServerLoop`, `ClientLoop`),
which includes that bytes on their way arrive (TCP) and that the server's user answers
what it is handed: without these nobody promises an answer. In `Endpoints` only the
server's loop thread is fair (`ServerLoop`: its events are level-triggered, so that the
next turn of the loop reports a connection that waits again), and no peer or user.

## What is proved

`EventLoopProofs` proves of `Spec`, for any finite or infinite sets of threads and
closures and any number of calls per callback:

* `TypeCorrect`: `Spec => []TypeOK`;
* `NoWakeupIsLost`: `Spec => []NoLostWakeup`. The invariant is inductive given the types.
  It names the three places a wake-up can be: in the counter, with a thread between
  its append and its write, or with the loop between its read and its taking of the
  list;
* `QueueImplementsExecutor`: `Spec => ImplementsExecutor`, the refinement that
  the run checks. The abstract waiting list is the detached list followed by the
  shared one, so that taking the list is invisible; `AppendTask` posts, `RunTask`
  starts, the return of the outermost callback finishes, `LoopDestroy` closes.
  It needs two strengthenings: `ListIsFinished` (at `TakeTasks` the old
  detached list is empty, at `LoopDestroy` too), and `CallsAreInPlace` (where the
  loop thread may be inside callbacks, and that no submission is under way once the
  loop is gone).

`ChannelDispatchProofs` proves of `ChannelDispatch`, for any number of channels, loops
and events, in two layers:

* `DispatchTypes`, `KernelAgreesAlways`, `InterestIsLive` (`NoDanglingInterest`) and
  `NoEventAfterDestroyAlways`, however channels move between loops. The inductive
  invariant `Registered` says that the kernel's interest in a channel is its mask while it
  is attached and alive, and nothing otherwise (`InterestIsMask`, which is more than
  `KernelAgrees`: it also covers what `is_monitored` is looked up for next), that a
  channel's loop is the one whose thread uses it, and that `is_alive` and the memory tell
  who was destroyed.
* `NoFaultAlways` and `NoZombieAlways`, if no channel is moved while a batch refers to it
  (`MoveActive = FALSE`, the value of the run; otherwise two threads may be in one channel,
  see Observations). `Dispatched` ties
  the flags to the batch: `is_active` is set exactly on the channels of the batch that are
  still to come and the one inside its callback, `is_in_callback` exactly on that one, and
  a destroyed channel is still allocated only while it is active. Two facts carry the
  induction: no batch lists a channel twice, and what epoll has just returned is still
  registered, because no callback runs between `epoll_wait` and the first pass.

`TimerQueueProofs` proves of `TimerQueue`, for any timers, intervals and task queue, of
users who cancel one-shot timers in the loop's thread alone and refresh only timers that
are on the list (`CancelOneShotAcross` and `RefreshUnlisted` are `FALSE`, the values of the
run; `timer_cancel_across` shows what the first of them leads to):

* `NoFaultAlways`, `MinIsEarliestAlways`, `NoOversleepAlways`, `OwnedOnceAlways`, and the action
  properties `CancelledNeverRunsAlways` and `NeverEarlyAlways`.

The inductive invariant says where each allocated timer is, one place out of four
(`Placed`: an insertion in the task queue, the list, the expired ones, its own callback),
what its flags are there, that the list is sorted with `min_timestamp` its first
(`Sorted`), and of the task queue that a timer's insertion comes before and its cancel
after everything else of it (`Ranked`) and that what it names is alive (`Served`). `Placed` is
why deferring the free to a different step in each of the places works.

`TcpConnectionProofs` proves of `TcpConnection`, for any number of bytes, kernel
buffer and number of tasks:

* `NoFaultAlways`, `PendingIsWatchedAlways`, `StreamInOrderAlways`, `DestroyFlushesAlways` and
  the action property `NoCallbackWhileDrainingAlways`, which speaks of connections that were
  destroyed and live on to write their output. That no callback at all follows a
  destroy (`NoCallbackAfterDestroy`) is false, see Observations.

`Lifetime` puts the phases of a destruction in order (the user gives it up, its tasks are
done, then it drains, is dead, is freed), with the queued destroy last among the client's
calls, and says that what is dead or freed has no output left unless the connection was
lost (`NothingCutOff`). `Streamed` adds that the taken and pending bytes are in order and
that, until a reset, what the kernel took, what is pending and what the tasks still carry
are together what was sent (`NothingLost`). `StreamInOrder` is stated by elements and
positions, not by folding over the bytes, so that these proofs can reason about it.

`RtpPeerPoolProofs` proves of `UdpPeer` and `RtpPeerPool`, for any number of peers, pairs,
client threads and tasks on their way, of users who keep the duties that `Careless = FALSE`
stands for:

* `NoFaultAlways`, `RefCountsHoldersAlways` and `OwnedOnceAlways`.

The invariant of the peers (`UdpInv`) is `RefCountsHolders` with what makes it inductive:
nothing refers to a peer that is not made yet (`Known`), a queued destroy is of a destroyed
peer, and the queued initialisation, which holds no reference (`udp_peer.c:183`), comes before
every other task of its peer and, if the peer was destroyed meanwhile, has the destroy behind it
(`Queue`), whose reference it lives on. The counts are cardinalities of positions in the
queue; `MarksOfAppend` and `MarksOfTail` say what an append and a taken task do to them. The pool's
invariant (`PoolInv`) states ownership by uniqueness rather than by counting (`Claims` for
indices and bits, `Owned` for peers, `Ports`), and `Steady` is all it needs to know of a step on
the peers.

`TimeWheelProofs` proves of `TimeWheel`, for every size and every set of timers:

* `TypeCorrect` and `IndexNamesSlot`, together by one induction (picking the successor
  keeps its type because timers in slots and expired timers are apart), whatever
  numbers of steps are asked for;
* `IndicesAreSlots`: with at most as many steps as slots, every index is a slot. It
  adds to the induction that a timer in use has a number of steps that was asked for
  (`Asked`). The bound is needed (see Observations);
* `WheelImplementsCountdown`: with fewer steps than slots, `Spec => ImplementsCountdown`.
  The arithmetic is in `BackDistance` (n slots back is at distance n) and in
  `StepSteps` (a move of the wheel brings every other slot one nearer); each operation
  of the wheel is then the one of the same name of `CountdownTimers`.

`EndpointsProofs` proves of `Endpoints`, for any bounds and any styles of user:

* `PendingOutputIsWatched`: `Spec => []PendingIsWatched`;
* `SentInOrder`: `Spec => []StreamInOrder`. The inductive invariant `SendInv` adds that
  nothing is pending before the handshake is over (else an error of `SSL_connect` could
  lose it), and states order by the elements (`InOrder`) and completeness by
  concatenation (`NoneLost`: taken, then pending, is what was submitted). The work is in
  `SendStep` and `WriteOutStep`, which split the two writes into their results, over
  lemmas on what is taken and left of a sequence (`TakenAndLeft`, `BytesGrow`);
* `NoneFreedInACall`: if no user does both in callbacks (`"both" \notin Styles`),
  `Spec => []FreedOutsideCalls`. One invariant for each endpoint says what the calls may
  look like. Of a user who destroys in callbacks, and of the server and the DTLS endpoint
  whatever their users do, the calls are one of a few flat sequences (`Flat`), and
  `is_in_callback` is set whenever a callback is the innermost. Of a user who calls,
  calls nest without bound, but no destruction was asked for and `is_in_callback` is set
  only while a callback is the innermost (`Sound`); save that a failed `SSL_connect`
  leaves it set, after which nothing nests any more (`Doomed`), because
  `SendInv` has no output pending there.

`RtspExchangeProofs` proves of `RtspCodec`, for any tokens and numerals:

* `RequestIsRead` and `ResponseIsRead`: of every message that can be written, the decoder
  ends at the last token and no earlier, with each field as it was given, and between two
  tokens it may stop and look at the last one again, unless that one is a carriage return
  or a colon. Two kinds of message are left out because the code does not read them so: bodies
  of one byte, and values that are empty or begin with a space.
* `Decoded`: a call of the decoder on a buffer that holds more of a message than the last
  call saw ends where one read of the whole would be.

And of `RtspExchange`, for any number of requests, frames and reads, if no read of the server's
ends after a carriage return or a colon (`CutAnywhere = FALSE`, the value of the run;
`rtsp_fragment` refutes the first of them otherwise; the client decodes a response from its
beginning at every read, and needs no condition):

* `StreamsIntactAlways`, `SessionCarriedAlways` and the action property
  `AnswersTheRequestAlways`.

`StreamsIntact` speaks of the message that has just been handed over. It allows for one
difference, which the code makes itself (`WithoutTimeout`): SETUP's answer reaches the client's
handler with its Session value cut off at the `;`. What makes it inductive is
`Flow`, one for each direction: what the reader has in its buffer, what is on its way and what
was cut off with the connection are together the texts of what was sent and not handed over,
and the decoder is new or has stopped inside the first of these texts, before its end, where
it can resume (`Resting`). A message that is handed over is the first of them, its bytes are off
the buffer, and it reads as what was sent (`Held`). What is cut off is at the end, and only if
the writer knows that it writes in vain. The other two theorems need no text any more: `Dialogue`
follows the one request that is outstanding, which is not there, on its way, with the
server's user, or on its way back as its answer, each alone among frames; and `Knows` says
that a session id the client does not have yet is in the answer to its SETUP, so that no
other request can be under way without it.

The decoder is a recursion over the text. Its induction is stated for sets of numbers
(`NatSetInduction`, from the well-founded induction of the library), and each recursive
function is used only through a lemma that says it exists and what it does in one step
(`ReadingExists`, and the like for folds and heads).

The proofs assume only the named assumptions of their modules and what their statements
name. The assumptions: of `EventLoop`, the loop's thread is one of the threads, `Quit` is a
closure, and `None` is not; of `ChannelDispatch`, channels are finitely many and `None` is
no channel and no loop; of `TimerQueue`, intervals and the sleep's cap are positive and
`None` is no timer; of `TcpConnection`, the kernel's buffer and sizes of sends are positive; of
`UdpPeer` and `RtpPeerPool`, the loop's thread is no client, `None` is no peer and no task,
and the ports are those of the pairs; of `TimeWheel`, the size is positive, steps are
naturals, `None` is no timer; of `Endpoints`, styles are the three named; of `RtspCodec`,
the library's own words and the numerals are tokens, a numeral stands for one number and is
no separator; of `RtspExchange`, the words of the users' messages are tokens, the numbers
they use have numerals, and `None` is no request; and that bounds are naturals. The
statements name the users' discipline (`MoveActive`, `CancelOneShotAcross`, `RefreshUnlisted`,
`Careless`, `Styles`), where a read of the server's may end (`CutAnywhere`) and the bound on
steps of the last two theorems of `TimeWheelProofs`.

Writing the proofs changed the models where they could not be reasoned about or were
not plain: taking a timer off the list chooses the new `min_timestamp` by exclusive
conditions (in an earlier form two cases overlapped), `StreamInOrder` lost its fold, `None`
is now assumed apart from the tasks of `UdpPeer`, and the RTSP texts are made of tokens and
numerals that are constants, where they were strings. One attempt at a proof found the model
wrong: a client whose `request_onconnected` gets no connection (`rtsp_request.c`) has its socket
closed, and what the server had sent on it is lost, which `OnConnected` kept on its way.
`OnConnected` now empties it, and `Awaited` expects nothing at an end that never was open.

Only model-checked: all liveness (`WaitingTasksRun`, `QuitEndsLoop`, `DueTimersRun`,
`DestroyedIsFreed`, `RequestsAnswered`, `WaitingServed`), which with ENABLED is outside what
the prover handles. Every invariant and every action property that a passing run checks is a
theorem.

## Observations

Three violation runs are findings and described above. The models also state three properties that
the code does not have and that are in no configuration:

* `CallbacksInLoopThread` (`EventLoop`): a callback given to `loop_run_inloop` runs in
  the loop's thread, as `loop.h:35-37` says. A stale `started` or `quited` (`loop.c:181`)
  runs it in the caller's.
* `OneThreadPerChannel` (`ChannelDispatch`): `tcp_connection_attach` from the connection's
  own callback to another loop (`tcp_connection.c:468`) gives the channel to two threads,
  although `tcp_connection.h:38-41` calls it thread-safe.
* `NoCallbackAfterDestroy` (`TcpConnection`): a write error after the data callback
  destroyed the connection leaves the handler early (`tcp_connection.c:139`), and a later
  hang-up calls the user back. No document speaks of this one.

`TcpConnection` has a step that ends the program, which its properties do not forbid:
`tcp_connection_detach` in the connection's own data callback, which
`tcp_connection.h:33-36` allows, with output pending and `EPOLLOUT` reported in the same
event. The handler goes on, and when it writes the last byte (`tcp_connection.c:151`)
`channel_clearevent` asserts that the channel has a loop (`channel.c:140`).

In each model the property can be added to the configuration to see the behaviour. The
same holds of values that the models leave to the user's discipline: `RefreshUnlisted`
and `CancelOneShotAcross` of `TimerQueue`, `Careless` of `RtpPeerPool`, the style
`"both"` of `Endpoints`, and numbers of steps above the wheel's size in `TimeWheel`
(submit cuts them, refresh and the loop reschedule do not, and the index is negative,
which `time_wheel_refresh` asserts it is not). Steps equal to the size are cut by
nothing: the timer is put into the present slot and expires at the next step instead of
after a turn, so that `ImplementsCountdown` fails with them.

What else reading the code for the models showed, in no run:

* `tcp_client.c`: after the connection took over the socket, `delete_client` closes
  `client->fd` a second time (45); a socket whose `connect` failed at once is not closed (219).
* `tls_client.c`: two exits leave `is_in_callback` set (286, 319), and a later destroy
  then never frees the client.
* `udp_peer.c:285`: clearing the write callback sets `message_userdata` to NULL, not
  `write_userdata`; the message callback is then called without its userdata.
* `rtsp_request.c:309`: a response that arrives in pieces leaves a `response_msg` behind
  for each.
* `rtsp_message_codec.c`: a header with an empty value takes the next line for its value;
  a body of one byte is complete only when more data comes; the decoder keeps pointers
  into a buffer that may move (670).
* `windows/net/loop.c:94-104`: the list of active channels is the second half of the
  array `channels`. A callback that adds a channel to a full array makes
  `ensure_channel_slots` reallocate it while `loop_loop` walks that list, whose entries
  it sets to NULL, and the walk goes on in memory that was never written.

## Not modelled, and why

See `components`. Buffers are sequences of bytes, memory allocation does not fail,
`epoll_ctl` fails only for the reasons named, and C's memory model is sequentially
consistent for single words. The growth of `loop->events` does not change what is
dispatched.

Users keep duties, some of which the headers state and some of which nothing defends:
they do not use an object they have destroyed, do not destroy a connection on which
another thread has a send queued, refresh only timers that are on the list, do not both
call and destroy in the callbacks of one endpoint, do not start a stopped server again
(its `idle_fd` is gone), start a DTLS endpoint from its loop thread, do not end an RTSP
session in the sink of its frames, have one RTSP request outstanding, neither send on
a connection nor destroy it while it is detached, and detach none on which another thread
has a call queued. No other
thread takes a descriptor in the middle of the server's handler.

* DTLS: sending and `enable_srtp` (keys, profiles) change no state of the endpoint that
  the properties see. TLS: certificates.
* RTSP: the parsing of Transport and WWW-Authenticate values, and the calls that only
  set a field. Lengths: `rtsp_request.c` keeps 31 characters of a session id (47, 151, 156),
  so that a longer one comes back shortened, and builds requests in arrays of 1024 bytes
  (514 and after); in the models an id is one token and a message has any length. A decoder's pointers into a buffer that moved are undefined behaviour.
* SDP, URL, base64, MD5, log, sockets and addresses: sequential functions of their input
  or thin wrappers, which tests by example reach.
* The Windows twin: `windows/net` has the same objects with the same flags over a poll
  array; only the array differs from what is modelled.

## Plan

1. Proofs: what of `ChannelDispatch` holds when channels are moved under a batch
   (`MoveActive = TRUE`), and of `UdpPeer` when users are careless.
2. Proofs: what is left of the RTSP theorems without their condition on reads.
3. The poll array of `windows/net/loop.c`: indices under removal by swapping, and the
   active list under growth.
