# TLA+ models of libgonet

libgonet is a C++ network library on top of the coroutine library libgo and
boost.asio. A user sets callbacks and options on a `Server` or `Client`; the
library runs coroutines that accept, read and write. What is hard in it is the
state several coroutines and user threads share: the send queues, the flags and
locks that decide who closes a session, the registry of sessions, and the
callbacks, each of which has to be called once and with the right code.

This directory models that state and its operations. TLC checks the
models on small instances; TLAPS proves the most important invariants
for every value of the constants. `PROJECT.json` lists the runs, the source
lines of every definition, the hazards, the findings and the theorems.

## 1. Inventory

| Part (source) | State | Operations | Interacts with |
|---|---|---|---|
| `TcpSession` (tcp_detail.cpp 19-541) | `msg_chan_`, `msg_send_list_`, `send_mtx_`, `sending_`, three shutdown flags, `close_ec_` with `close_ec_mutex_`, `closed_`, `recv_buf_`, one `Msg` per buffer with timer and callback | `Send`, `SendNoDelay`, `Shutdown` (any thread); `goSend`, `goReceive` (a coroutine each); timers | the socket; the user's callbacks; the server's or client's `OnSessionClose` |
| receive buffer (in `goReceive`) | `recv_buf_`, `pos`, two `uint32_t` limits | extend, read, callback, move, shrink | `receive_cb_` |
| `TcpServer` (543-674) | `acceptor_`, `sessions_` with `sessions_mutex_`, `shutdown_` | `goStart` (two halves around fork), the accept loop, one coroutine per connection, `Shutdown`, `OnSessionClose` | sessions; the accept aspect |
| `TcpClient` (676-719) | `sess_`, `connect_mtx_` | `Connect`, `GetSession`, `OnSessionClose` | one session |
| `UdpPoint` (udp_detail.cpp) | `init_`, `shutdown_`, `socket_`, `recv_shutdown_channel_` | `goStart`, `Connect`, `Send`, `Shutdown`; `DoRecv` (a coroutine) | the user's callbacks |
| `_udp_sess_id_t` | an address and a pointer | forwards to `UdpPoint` | |
| `Server` (network.cpp 6-71) | `impl_`, `protocol_`, `local_addr_` | `goStart` (also in two halves around fork), `Shutdown`, `~Server` | makes, links, replaces and lets go of a `TcpServer` or `UdpPoint` |
| `Client` (network.cpp 73-169) | `impl_`, `protocol_`, `remote_addr_`, `connect_mtx_` | `Connect`, `Send`, `SendNoDelay`, `Shutdown`, `IsEstab` | makes a `TcpClient` or `UdpPoint` per `Connect` |
| `OptionsBase` (option.h) | `opt_`, `lnks_`, `parent_`: a tree of objects with option records | `Link`, `Unlink`, setters that propagate, `~OptionsBase` | base class of everything above; facades link what they make |
| `endpoint`, `Protocol`, `SessionEntry`, `FakeSession` (abstract.*) | values | parse and print a URL; the null session | |
| `tcp_socket` (tcp_socket.h) | a plain or an ssl socket | forwards to boost.asio | |
| error.*, tcp.*, udp.* | tables, factories | | |

Hard behaviours: calls from any thread interleave with two coroutines at every
access to shared state; the flags are tested and acted upon in separate steps;
writes are partial; timers fire at any moment; the peer closes or resets at any
moment; `Shutdown` races start, accept and close; sizes are 32-bit. Nothing is
persisted, so there is no crash recovery, and tcp hides loss and reordering.

What makes each part correct:

* **TcpSession** – the disconnect callback is called exactly once, after both
  directions are down, and with a reason; every send callback is called at most
  once, and in the end, but for two exceptions ("Properties that need a word"),
  and reports what happened to the bytes; bytes leave in order and a message's
  bytes stay together; whoever waits is woken.
* **Receive buffer** – there is always room to read, nothing held is cut off and
  the hard limit is kept, as long as `uint32_t` does not wrap; the callback sees
  what was received.
* **TcpServer** – `max_connection_` is kept; `Shutdown` reaches every session;
  places are freed; the accept loop ends.
* **UdpPoint** – `Shutdown` waits for the receive coroutine; it returns, unless
  another call that also passed the tests took the coroutine's one message.
* **TcpClient / Client** – at most one live session; a new one is not forgotten.
* **Options** – linked objects have their parent's options; no object of the
  tree points at one that is gone.
* **Server** – what the facade started can be stopped through it, is freed after
  it, and is not used after it is freed.
* **endpoint** – a URL is read as it was written, and what is printed is read
  back.

## 2. Modules

| Module | Models |
|---|---|
| `TcpSession` | one session over a plain tcp socket: sending, timers, closing |
| `SessionContract` | what a session promises the caller of `Send`, without mechanism |
| `RecvBuffer` | the sizes of the receive buffer |
| `TcpServer` | accept loop, registry, `Shutdown` |
| `UdpPoint` | start, use and shutdown of a udp point |
| `Client` | the `Client` facade with the `TcpClient` or udp point it makes |
| `Options` | the tree of option objects and `~OptionsBase` |
| `Endpoint` | `from_string` and `to_string` of URLs, as operators |
| `Server` | the `Server` facade and its server objects; composes `Options` and `Endpoint` |
| `MC*` with their `.cfg` | instances for TLC |
| `TcpSessionProofs` | theorems on types and closing of `TcpSession` |
| `TcpMessageProofs` | on its messages and callbacks, and that it keeps `SessionContract` |
| `TcpOrderProofs` | on the order of what it sends |
| `RecvBufferProofs`, `TcpServerProofs`, `UdpPointProofs`, `ClientProofs`, `ServerProofs` | theorems on one component each; `ServerProofs` has those on `Options` and `Endpoint` |

Each process of a model has a program counter: `pc["snd"]` is `goSend`,
`pc["rcv"]` is `goReceive`, `call[m]` is one call of `Send` or `SendNoDelay`,
`closer[c]` one call of `Shutdown`. An action runs from one access to state that
others can touch to the next. Steps between which only data guarded by the send
token, or local data, is touched are one action. Names follow the source; a
trailing underscore is dropped (`sending_` is `sending`).

### TcpSession

A message is a member of `Msg`; its bytes are counted by `pos` and recorded in
order in the history variable `wire`. The other history variables are `pushed`
(the order of `msg_chan_.TryPush`), `cbs` (codes each send callback got), `disc`
(codes the disconnect callback got) and `settled` (the calls that had returned
when `OnClose` began). The socket is the external record `sock`: which
directions are open, whether `close()` was called, whether the peer has sent FIN
or the connection was reset.

* `goSend`: `Top` (shutdown message seen, or lock the token), `Pop`, `Empty`,
  `Wait` (the blocking `msg_chan_ >> msg`, without the token), `Relock`, `Build`
  (one turn of the loop that makes the buffers and drops expired messages),
  `WriteSome`, `WriteBlocked`, `WriteError`, `PollWritable`, `PollOther`.
  `room` is `remain - insert_c`.
* `goReceive`: its exits `RecvFail` and `RecvReject`; its loop is `RecvBuffer`.
* `Send`, `SendNoDelay`: `Accept` holds the early returns; `TryToken`,
  `DirectWrite`, `PushFront`, `SendFromNoDelay`, `PushMsg` are the rest. The two
  overloads of each function have the same steps. `++msg_id_` only numbers
  messages and is left out.
* closing: `TryEc`/`SetEc` (the two steps of `SetCloseEc`), `Shut`, `SetFlag`,
  `TestSend`, `TestRecv`, `WakeSend`, `ShutWr`, then `OnClose`, `Drain`,
  `DoneAll`, `Erase`, `Notify`.

The test of three flags at the head of `Send` is one step. Each flag only ever
becomes true, so reading them one after the other gives the same answer as
reading them together at the moment of the last read, or of the first that is
true. A `Done` on a message cancels its timer; a timer that fires after that
changes nothing anyone reads. After `close()` every use of the socket fails
(asio sets the descriptor to -1); that another thread may have fetched the
descriptor before is listed as a hazard and not modelled. Concurrent access to
`std::list` by `OnClose` and `SendNoDelay` is modelled as if the list were
intact after it.

libgo is an external submodule. Its coroutines, channel, `LFLock`, `co_mutex`
and timers are modelled from their use. The code asks for `egod_local_thread`
when it starts `goSend` and `goReceive`, which may keep the two on one thread;
the model allows them to interleave at each shared access, as user threads do
with both. Atomics are sequentially consistent.

### RecvBuffer

`U32` stands for 2^32 and arithmetic on limits is modulo `U32`; `size_t` is
unbounded. `MoveToFront` is the `memcpy` at line 113: when its ranges overlap
the outcome is a choice between the bytes surviving and not. When the doubled
size wraps, `resize` makes the buffer smaller than `pos`, and `read_some` is given
an address past its end (`ReadOutside`); what follows is not modelled.

### TcpServer

A connection goes through `conn[c]`: waiting at the peer's side, accepted,
handshake, lock, check, insert, setup, running, closing. `TcpSession` is seen
through three facts: it is told to shut down (`told`), its connection ends
(`ended`), and it calls its disconnect callback once, in `SessionCloses` (this is
`CloseOnce` and `ClosingCompletes` of `TcpSession`).

### UdpPoint

Each user makes one call, `goStart`, `Connect` or `Send`. `init_` is tested by
`Connect` and `Send`, tested again in `goStart` and set after the socket is made,
all in separate steps, so two users may both start the point. `chan` counts the
elements in `recv_shutdown_channel_`, whose capacity is 1.

### Client

A `Caller` is one call of `Client::Connect`. It makes at most one client object
and one session, which are named after it: `impl` is the call whose object
`impl_` is, `c \in sess` says that the object of `c` holds its session, and
`session[c]` where that session is. `Connect` is `TryLock`, `TestEstab`,
`CreateClient` and `Dial`, then `MakeSession` for tcp. Nothing else competes for
the `connect_mtx_` inside a `TcpClient`, since a new one is made for each call,
so its `try_lock` succeeds. `TcpSession` is seen through `close_ec_` with its
lock (`IsEstab` reads the first), the fact that it goes down, and one call of
`OnSessionClose`. A `User` is one call of `Send`, `SendNoDelay` or `Shutdown`,
which tests `impl_` (`TestImpl`), reads it again (`ReadImpl`) and asks it for
the session (`GetSession`); the destructor's call is one of them. The history
variable `live` holds the sessions that were up when the call began. A udp
session always says that it is established and ignores `Shutdown`. Reading a
`shared_ptr` while it is assigned is modelled as if it were atomic.

### Options

The module has the state and the operations of the tree and no `Next` of its
own: `Server` composes it. `opt[o]` is a function from `Key` to `Value`; the
eleven setters differ only in the option they write, so one action `Set` stands
for them, with what the recursion over `lnks_` reaches (`Subtree`). `lnks_` is a
set. `Link` requires what its assertion does (no parent yet), and that no cycle
arises. `~OptionsBase` is `Destroy` (the test of `parent_`), `DtorUnlink` (the
call of `Unlink` on the parent that was read), `DtorChild` and `DtorEnd`. Nothing
in option.h yields, so between coroutines of one scheduler thread these steps
are one; with `OneThread` nothing else happens while a destructor runs (`Quiet`).
Without it, the destructors of objects owned by different threads interleave.
The history variable `own` holds the options that were set on an object itself
since it was linked.

### Endpoint

A URL is a sequence of tokens: `":"`, `"/"` and the words between them. The
regular expression at abstract.cpp 152 is matched on tokens; that is exact,
because all its character classes are about `:`, `/` and digits. `(.*)` is
greedy, so among the places where the host can begin (`HostAt`) the last is
taken. `Lookup` is an external constant for `address::from_string` and
`gethostbyname`, `Digits` gives the value of the words that are numbers, and
`Port` is modulo 2^16. `Meant` is the reference: the endpoint that a user
means who writes scheme, host, port and path (`Written`). `Plain` are the URLs it
is compared on; it leaves out a port of more than 16 bits, which wraps, and a
path with `://` in it, which `from_string` takes for part of the scheme.

### Server

One thread uses the facade; `user` is where it is. `goStart` and
`goStartBeforeFork` (`fork`) are `goStart`, then `Refuse` or `CreateServer`,
`AssignImpl`, `LinkImpl` and `StartImpl`; `~Server` is `Shutdown("release")`, with
`WaitRecv` for udp, `ReleaseImpl` and `DestroyBase`. Each server object is a member of
`Impl` and is made once, so `Impl` bounds the `goStart` calls. `run[i]` is what it
does, `told[i]` its `shutdown_`, and `holders[i]` counts the sessions that keep it
alive: `holder_` of a `TcpSession`, `udp_point` of a udp session that the user
keeps. Whoever drops the last reference (`Held`) begins the destructor: the
user's thread in `AssignImpl` or `ReleaseImpl`, the accept loop or `DoRecv` in
`LoopEnds`, a session in `SessionEnds`. What the server objects do inside is
`TcpServer` and `UdpPoint`; here a loop ends once it was told to. `Group` is an
option object of the user's that the facade may be linked under.
`goStartAfterFork` is called on a bound server only: without an `impl_` it
dereferences null, and a second call starts a second accept loop, which no user
does. `ReadUrl` is `from_string` called by a user; it is allowed before the
facade is made, where it multiplies no other state. Two calls on one facade at a
time are not modelled.

## 3. Runs

All runs set `CHECK_DEADLOCK FALSE`: sessions, servers and points come to an end.

| Run | Instance | Checks | Result |
|---|---|---|---|
| `session_calls` | 2 calls of 2 bytes, each `Send` or `SendNoDelay`, `c_multi` 2, one `Shutdown` of either kind | `CloseOnce NoMissedClose CallbackAtMostOnce CallbackTellsTruth ChannelFifo NoLostCallback SendContiguous CloseReason` | holds, 4.3 million states |
| `session_timeo` | send timers, `c_multi` 1, a third, empty buffer, the peer ends the session | `TypeOK CloseInv SendInv CallbackTellsTruth RefinesContract` | holds, 0.5 million states |
| `session_noleak` | 1 call of `Send` or `SendNoDelay`, 1 `Shutdown` of either kind, fairness; the peer need not read | `ClosingCompletes`; for a peer that reads `GracefulCompletes` and, but for what `SendNoDelay` leaves half sent, `EveryCallbackFires` | holds, 0.4 million states |
| `session_interleave` | 2 messages, both functions | `Contiguous` | violated (finding) |
| `session_half` | 1 `SendNoDelay`, fairness | `HalfSentCompletes` | violated (finding) |
| `buffer_all` | `U32` = 16, every size a `uint32_t` has for each of the three options, with and without `receive_cb_` | `TypeOK RoomToRead HardLimit` | holds |
| `buffer_overlap` | one size | `BytesIntact` | violated (finding) |
| `server_all` | 2 connections, limit 1, 2 `Shutdown` calls, fairness | `Inv WithinMaxConnection NoOrphan PlaceFreed ShutdownCompletes` | holds |
| `udp_all` | 2 users, 2 `Shutdown` calls, fairness | `TypeOK DisconnectAfterRecv ShutdownReturns` | holds |
| `client_all` | 2 `Connect` calls over tcp or udp, 2 calls of `Send` or `Shutdown`, fairness | `Inv Reachable RefusedOnlyWhenDown ShutdownNotLost CycleBroken` | holds, 0.25 million states |
| `facade_all` | 2 server objects, 1 session each, a group, 1 option with 2 values, one thread, 1000 URLs read and 4 started, fairness | `Inv Agree Stoppable ReadsAsWritten RoundTrip ServersFreed` | holds, 0.2 million states |
| `facade_threads` | the same with `OneThread` false | `UnlinkAssert` | violated (finding) |

**Bounds.** Two messages are enough for one to overtake, interrupt or outlive
another; two bytes for a partial write; `c_multi` = 2 for a write of several
buffers and 1 for a full list. With `SendNoDelay` the list can become longer
than `c_multi` in both. One `Shutdown` suffices against two coroutines and the
peer, because a second one finds `close_ec_mutex_` locked and otherwise only
repeats idempotent steps; the theorems have any number. `U32` = 16 leaves room
for several doublings and a shrink, and its sizes are all that a `uint32_t` of four
bits has: from 8 on doubling wraps, from 11 on the shrink threshold does. Two
connections for one place show the race for the last place. Two `Connect` calls are one that replaces and one that is
replaced, and two users can shut a session down and send to it. Two server
objects are one that replaces and one that is replaced or failed to start; with
the group above and a server below the facade the tree has three levels. The
URLs of `facade_all` are every combination of seven schemes, four hosts (one
unknown, one a number), five ports (0, 2^16 - 1 and one that wraps among them)
and seven paths, and some that are no URLs. Messages with equal sizes are
interchangeable and no property orders them, so `session_calls` and
`session_timeo` use symmetry; the runs with liveness do not.

**Fairness.** `Fairness` is weak fairness of each coroutine and each started
call: libgo schedules what is runnable. A coroutine that waits for the outside
(`read_some` on a quiet connection, `poll` on a full socket, `accept`,
`recvfrom`) is not forced to go on until there is something to report. Calls are
never forced to be made. `PeerFairness` is a peer that keeps reading and closes
when it has seen our end of file; without it a graceful `Shutdown` may rightly
wait for ever. `GracefulCompletes` and `EveryCallbackFires` have it as their
hypothesis, `session_half` in its specification (`PeerFairSpec`).
`ClosingCompletes` does without: a peer that leaves a socket full for ever does
not keep `goSend` in `poll` once the session is to end. In `TcpServer` the requests for
`sessions_mutex_` have strong fairness: `co_mutex` queues its waiters. In `Server`
calls and destructors go on, loops that were told to end do (`ShutdownCompletes`
of `TcpServer`, `ShutdownReturns` of `UdpPoint`), and once the facade is gone the sessions of a
server that was told to stop end; for udp this says that the user lets go of
the sessions it kept.

**Properties that need a word.**

* `NoLostCallback` and `EveryCallbackFires` cover the calls that had returned
  when `OnClose` began. A `Send` that passed its test of the flags before and
  pushes after the drain leaves its message in the channel, and its callback is
  dropped with it. The code does not exclude this and no document promises it.
* `EveryCallbackFires` also excepts a message that `SendNoDelay` half sent and
  that is `Stranded` for ever: `goSend` waits on its empty channel and the rest is in
  the list (finding 2). The exception is needed; `session_half` is such a behaviour.
* `CloseReason` excepts the moment at which a `Shutdown` call has locked
  `close_ec_mutex_` and not yet written the code. Then the disconnect callback
  is given no error.
* `ChannelFifo` is about messages that pass through the channel; a `SendNoDelay`
  that writes at once may overtake them only as `Contiguous` shows.
* `Contiguous` is false (finding 1). `SendContiguous` is what is left of it, over the
  same calls: whatever stands between two parts of a message never went
  through the channel.
* A graceful `Shutdown` on a full socket gives up what is unsent (line 272); the
  callbacks then report `ec_shutdown`, which the contract allows.
* `ShutdownCompletes` of `TcpServer` is for a listening socket that `Shutdown`
  found. If `Shutdown` precedes `goStart`, the loop ends only with the next
  accept error.
* `RoomToRead` and `HardLimit` are about all 32-bit sizes and name where they end.
  A full buffer of 2^31 bytes or more that may still grow is resized to
  `2 * pos - 2^32`, less than it holds: with the hard limit 2^32 - 1 that
  test/test/bmserver.cpp 46 sets by `SetMaxPackSizeHard(-1)` the code gets there
  once a `receive_cb_` leaves that much. With a shrink limit of two thirds of the
  range or more, `shrink + shrink / 2` wraps and a small buffer is "shrunk" to that
  limit, past the hard one, and keeps what it holds.
* `ShutdownReturns` of `UdpPoint` is about each call of `Shutdown`. It excepts two
  things. Two calls may both find `shutdown_` unset (lines 96-98); `DoRecv` leaves one
  element in the channel, one call takes it and the other stays at line 103 for
  ever. With as many coroutines as such calls, or one call alone, every call
  returns. And a second `goStart` that has passed its test will replace the socket
  that `Shutdown` closes.
* `Reachable` and `RefusedOnlyWhenDown` call a session up while `close_ec_` is
  not set. A `Connect` may replace an old session that has its code and still
  has to call `disconnect_cb_`, so the new session's `connect_cb_` may come first.
* `ShutdownNotLost` is for sessions that were up when `Shutdown` was called. One
  that is still being dialled is missed.
* `Stoppable` and `ServersFreed` except a server that was running when a second
  `goStart` replaced it: nothing shuts it down, it runs until the process ends.
* `Agree` allows an object to differ from its parent in what was set on the
  object itself after it was linked.

**Findings.** (1) `goSend` gives the token back between two parts of a message,
and `SendNoDelay` can write there. It needs `SendNoDelay` on another scheduler
thread than `goSend`, or a switch between the two iterations. (2) The rest of a
half-sent `SendNoDelay` waits for the next `Send`, `Shutdown` or end of the
connection, because nothing wakes `goSend`. (3) `memcpy` on overlapping ranges.
(4) `~OptionsBase` of a `Server` and of its server object can run at once, on the
user's thread and on the thread of the accept loop or of the last session, and
change the same two pointers without a lock; the assertion in `Unlink` fails,
or, with other timing, a freed object is used. It needs several scheduler
threads.

## 4. Proofs

* **`TcpSessionProofs`**. `CloseInvariant` proves `CloseInv` with the types of the
  closing state; `SessionClosesOnce` and `SessionCloseNotMissed` follow. Neither
  property is inductive: that two coroutines which both return have not both
  missed the other's flag needs to know, in each state, where the other one can
  be. `CloseInv` says that (a) each flag is set exactly when its coroutine is
  past `SetFlag`; (b) at most one is inside `OnClose`, and `closed_` is locked
  then; (c) while `closed_` is free, a coroutine that has returned leaves the
  other before its flag or at its test, and the test will send it to `OnClose`.
  `TypeCorrect` proves `TypeOK` with `SendInv`, which relates `room`, `buffered`
  and the length of `msg_send_list_`: without it, `Take` could make `room`
  negative and `WriteSome` could read past the list; `SendPrefixKept` is that
  half. `CloseHasReason` needs `EcInv`: whoever locked `close_ec_mutex_` has
  written `close_ec_` or is a `Shutdown` between the two steps, and `goReceive`
  reaches `OnClose` only through `SetCloseEc`. Assumptions: the sizes are
  natural numbers, `c_multi` > 0, the shutdown message is no user's message.
* **`TcpMessageProofs`**. `MessageInvariant` proves `MsgInv`: a message is in one
  place at most, once (`OnePlace`: channel, `held`, list); a call that has yet to
  return has no callback, no place and, unless it wrote a part itself, no byte
  (`FreshCalls`); when it has returned, either its callback was called or its
  message still holds it, as what is queued does (`CallbackOwed`, `QueuedOwed`);
  only a half-sent message in the list has bytes on the wire and bytes left
  (`BytesInv`); and what is owed a callback is queued, or is where `OnClose` has
  yet to look (`NothingLost`). From it follow `CallbackOnce`,
  `CallbackTruth` and `CallbackNotLost`; none of the three is inductive, since who
  may still call back depends on where the message is. `SessionKeepsContract` is
  the refinement: each action maps to one action of `SessionContract` or to a
  stutter.
* **`TcpOrderProofs`**. `SendsInOrder` proves `ChannelFifo`: channel, `held` and
  list, read as one pipeline, never have a later push ahead of an earlier one
  (`OrderInv`), and goSend answers pushed messages with no error or a timeout only
  (`PushedCodes`). `OneHolder` is mutual exclusion by `send_mtx_` and `sending_`.
  `SendNeverSplits` proves `SendContiguous` from it and two facts: no pushed message
  stands in the list before one that is half sent (`HalfSentFirst`), and none is on
  the wire after a message of which more may come (`NothingBetween`).
* **`RecvBufferProofs`**. `BufferInvariant`, and from it `BufferSafe`, `BufferTypes`
  and `OverflowAtLimit`, for every value of the three sizes, those that wrap
  included. The three properties together are inductive; what each step needs is
  what doubling (`ExtendedRoom`) and shrinking (`ShrunkKeeps`) make of a size when
  the sum wraps once and when it does not. `NothingCutOff` adds that with hard
  limits up to 2^31 (`HardBelowHalf`; the default is 2^22) nothing is cut off at all,
  whatever the shrink limit.
* **`TcpServerProofs`**. `ServerInvariant`, `MaxConnectionKept` and
  `NoSessionForgotten`, for any finite set of connections, any set of `Shutdown`
  calls and any limit. The invariant is mutual exclusion by `sessions_mutex_`,
  plus: a coroutine between test and insertion knows that there is room and,
  since it holds the lock, that no `Shutdown` is past its loop.
* **`ClientProofs`**. `ClientInvariant`, `SessionReachable`, `SendNotRefused` and
  `ShutdownReaches`, for any sets of `Connect` calls and of users. The invariant
  says who holds `connect_mtx_`, that the holder past its test of `IsEstab` knows
  that no session is up (only it can make one), and that a call about to ask for
  its session, or shutting it down, has read the `impl_` of the session that was
  up when it began.
* **`UdpPointProofs`**. `PointTypes` and `PointDisconnects`, for any finite set of
  users and any set of `Shutdown` calls. Counting the ended coroutines needs that
  a call starts one coroutine at most (`LoopStarted`).
* **`ServerProofs`**, for any number of server objects, options, sessions and
  `goStart` calls, in three parts.
  *The facade.* `FacadeInvariant` holds on any number of threads: who may begin a
  destructor is decided by counting references, and only the tree is changed
  without a lock. It adds to `Lifetimes` and `Stoppable` what each step of `goStart`
  knows of its new object (`StartInv`: there is one, it is not yet or already
  `impl_`, and has no sessions before it listens) and what `~Server` knows when it
  lets `impl_` go (`ReleaseInv`: it was told to stop or does not listen).
  `ServersOutliveUse` and `ListenersStoppable` follow.
  *The tree.* `ServerInvariant` adds `TreeInv` and `Agree` and assumes `OneThread`;
  `NothingDangles`, `OptionsAgree` and `UnlinkOnOneThread` follow. The assumption is
  needed: `facade_threads` violates the last one. `Agree` rests on `SubtreeClosed`:
  what is below an object, other than itself, has its parent below it too.
  *URLs.* `ReadBack` says that `from_string` finds in a plain URL of any length what
  was meant by it (the host is the last place where one can begin, and neither
  port nor path has another), and `Printed` that `to_string` writes an endpoint as
  such a URL. With `EpInv`, which says that everything a program holds is an
  endpoint `from_string` or `bind` made, `ReadsWhatIsMeant` and `PrintsWhatItReads`
  follow. Assumptions: addresses resolve to themselves and have no `:` or `/` (so
  IPv6 is left out, as the expression leaves it out), and every port can be
  printed (`LookupAssumption`, `DigitsAssumption`, `UrlAssumption`).

Every safety property of the passing runs is so proved for every value of the
constants, under the hypotheses named above. Only model-checked: the liveness
properties (`ClosingCompletes`, `GracefulCompletes`, `EveryCallbackFires`,
`PlaceFreed`, `ShutdownCompletes`, `ShutdownReturns`, `CycleBroken`, `ServersFreed`),
since the prover has no fairness.

## 5. Not modelled

`recv_buf_` of `UdpPoint` is not modelled: `OnSetMaxPackSize` resizes it under a
`recvfrom` that may be writing to it, and `Link` does not call the hook, so it
keeps the default size when options were set before `goStart`. Processes after a
fork share the listening socket; one process is modelled. `Protocol` (abstract.cpp
77-128) answers constants to boost.asio. `SetSocketOptNoDelay` and the getters
change nothing the models have.
Several `Connect` calls on one `TcpClient` need direct use of the inner class.
ssl is third-party (`SendNoDelay` on an ssl session calls `Send`; `goSend` writes
to the raw descriptor whatever the socket type). The null session, error table,
factories and the udp session object keep no state.

Seen while reading, outside the models: `SessionEntry::operator==` is written
with `<` (abstract.h 192); `msg_id_` is never initialised (tcp_detail.h 79);
`UdpPoint` calls the connection callbacks that abstract.h 222 calls
"tcp protocol effect only". A udp session's `IsEstab` is always true, so after
a udp `Connect` that failed the next one on the same `Client` is refused with
`ec_estab`; and its `Shutdown` does nothing, so that not even `~Client` ends the
receive coroutine of a udp client. A `Shutdown` made while `Connect` is dialling
finds no session and is lost. The list of URL forms at abstract.h 105-113 has `tls://`,
which `str2proto` does not know, and a zk list of hosts with two ports, which
the expression does not match. A `goStart` that fails has already overwritten
`local_addr_` of a server that still runs.

## 6. Plan

Done: all the modules above, and the proofs of section 4. What remains:

1. The facts through which `TcpServer` and `Client` see a session (`told`, `ended`,
   one call of `OnSessionClose`) as a refinement by `TcpSession`.
2. `Client.PeerEnds` in the two steps of `SetCloseEc` (the lock, then the write),
   which no property of `Client` tells apart.
