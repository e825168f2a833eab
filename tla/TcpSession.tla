----------------------------- MODULE TcpSession -----------------------------
(***************************************************************************)
(* One TcpSession of libgonet/tcp_detail.cpp over a plain tcp socket: the  *)
(* send coroutine (goSend), the receive coroutine (goReceive), calls of    *)
(* Send, SendNoDelay and Shutdown made by any thread, the send timers, and *)
(* the closing protocol ShutdownSend / ShutdownRecv / OnClose.             *)
(*                                                                         *)
(* Every read or write of state another thread can touch is a step of its  *)
(* own; steps that touch only state guarded by the send token are merged.  *)
(* A message is a member of Msg, its bytes are counted, and the bytes on   *)
(* the connection are the history variable wire.  The sizes of the receive *)
(* buffer are modelled in RecvBuffer.                                      *)
(***************************************************************************)
EXTENDS Integers, Sequences, SequencesExt

CONSTANTS
    Msg,          \* calls of Send / SendNoDelay, one buffer each
    Size,         \* Size[m]: length of the buffer of call m
    Closer,       \* calls of Shutdown
    ShutdownMsg,  \* the Msg made from shutdown_msg_t, no call's buffer
    CMulti,       \* c_multi, the most buffers one writev takes
    SndTimeo,     \* opt_.sndtimeo_ > 0
    Api,          \* which of Send and SendNoDelay the calls use
    ShutdownArgs  \* which values of "immediately" the Shutdown calls pass

ASSUME SizeAssumption == Size \in [Msg -> Nat]
ASSUME ShutdownMsgAssumption == ShutdownMsg \notin Msg
ASSUME CMultiAssumption == CMulti \in Nat \ {0}
ASSUME SndTimeoAssumption == SndTimeo \in BOOLEAN
ASSUME ApiAssumption == Api \subseteq {"Send", "SendNoDelay"}
ASSUME ShutdownArgsAssumption == ShutdownArgs \subseteq BOOLEAN

VARIABLES
    pc,       \* where each coroutine is
    call,     \* where each Send / SendNoDelay call is
    closer,   \* where each Shutdown call is
    immediately,          \* the argument of each Shutdown call
    \* --- sending
    send_mtx,             \* the send token: "free", "snd" or "user"
    sending,              \* sending_
    msg_chan,             \* msg_chan_
    msg_send_list,        \* msg_send_list_
    held,                 \* what goSend took from msg_chan_ before it relocks
    room,                 \* remain - insert_c
    buffered,             \* buffer_size, also the position of "it"
    msg_shutdown,         \* local of goSend
    \* --- struct Msg
    timer,                \* tid and timeout: "off", "armed", "fired"
    send_half, pos,       \* Msg::send_half, bytes of the call on the wire
    has_cb,               \* the Msg still holds its SndCb
    \* --- closing
    initiative_shutdown, send_shutdown, recv_shutdown,
    close_ec_mutex, close_ec,
    recv_ec,              \* ec of goReceive
    closed,               \* closed_ is locked
    \* --- the socket (external): which directions are open, is the fd open,
    \*     has the peer sent FIN, has the connection been reset
    sock,
    \* --- history
    wire,                 \* chunks of bytes written, in order
    pushed,               \* messages pushed to msg_chan_, in order
    cbs,                  \* codes each call's SndCb was invoked with
    disc,                 \* codes disconnect_cb_ was invoked with
    settled               \* calls that had returned when OnClose began

control == <<pc, call, closer, immediately>>
sendVars == <<send_mtx, sending, msg_send_list, held, room, buffered, msg_shutdown>>
chanVars == <<msg_chan, pushed>>
msgVars == <<timer, send_half, has_cb, cbs>>
byteVars == <<pos, wire>>
ecVars == <<close_ec_mutex, close_ec>>
flagVars == <<initiative_shutdown, send_shutdown, recv_shutdown>>
closeVars == <<recv_ec, closed, disc, settled>>

vars == <<control, sendVars, chanVars, msgVars, byteVars, ecVars, flagVars,
          closeVars, sock>>

-----------------------------------------------------------------------------
(* Values *)

Coroutine == {"snd", "rcv"}

\* "io" is any system error of read, writev or poll, end of file included.
Ec == {"ok", "shutdown", "timeout", "parse", "overflow", "io"}

\* Steps of ShutdownSend, ShutdownRecv and OnClose.
ClosePc == {"shut", "flag", "test", "onclose", "drain", "clear", "erase", "notify", "exit"}
SndLoop == {"top", "pop", "empty", "wait", "relock", "build", "write", "poll"}
EcPc == {"try_ec", "set_ec"}
CoPc == {"off", "read", "push", "shut_wr"} \cup SndLoop \cup EcPc \cup ClosePc
CallPc == {"idle", "try", "token", "half", "send", "push", "push_token", "returned"}
CloserPc == {"idle", "flag", "shut", "push", "done"} \cup EcPc

Chunk == [msg : Msg, from : Nat, to : Nat]

\* The bytes of m that have not been written yet.
Rest(m) == [msg |-> m, from |-> pos[m], to |-> Size[m]]

\* A write on the socket can succeed.
CanWrite == sock.open /\ sock.wr /\ ~sock.rst

\* What Send and SendNoDelay test before they accept a buffer.
Stopping == recv_shutdown \/ send_shutdown \/ initiative_shutdown

Goto(co, where) == pc' = [pc EXCEPT ![co] = where]
GotoCall(m, where) == call' = [call EXCEPT ![m] = where]
GotoCloser(c, where) == closer' = [closer EXCEPT ![c] = where]

Init ==
    /\ pc = [co \in Coroutine |-> "off"]
    /\ call = [m \in Msg |-> "idle"]
    /\ closer = [c \in Closer |-> "idle"]
    /\ immediately = [c \in Closer |-> FALSE]
    /\ send_mtx = "free" /\ sending = FALSE
    /\ msg_chan = << >> /\ msg_send_list = << >>
    /\ held = ShutdownMsg /\ room = 0 /\ buffered = 0 /\ msg_shutdown = FALSE
    /\ timer = [m \in Msg |-> "off"]
    /\ send_half = [m \in Msg |-> FALSE]
    /\ pos = [m \in Msg |-> 0]
    /\ has_cb = [m \in Msg |-> FALSE]
    /\ initiative_shutdown = FALSE
    /\ send_shutdown = FALSE
    /\ recv_shutdown = FALSE
    /\ close_ec_mutex = FALSE /\ close_ec = "ok" /\ recv_ec = "ok"
    /\ closed = FALSE
    /\ sock = [rd |-> TRUE, wr |-> TRUE, open |-> TRUE, fin |-> FALSE, rst |-> FALSE]
    /\ wire = << >> /\ pushed = << >>
    /\ cbs = [m \in Msg |-> << >>]
    /\ disc = << >> /\ settled = {}

-----------------------------------------------------------------------------
(* struct Msg *)

\* SndCb called directly by Send or SendNoDelay, without a Msg.
CallCb(m, ec) == cbs' = [cbs EXCEPT ![m] = Append(@, ec)]

\* Msg::Done on every message of S: cancel the timer, call the SndCb the Msg
\* still holds and forget it.
Done(S, ec) ==
    /\ timer' = [m \in Msg |-> IF m \in S THEN "off" ELSE timer[m]]
    /\ has_cb' = [m \in Msg |-> has_cb[m] /\ m \notin S]
    /\ cbs' = [m \in Msg |-> IF m \in S /\ has_cb[m] THEN Append(cbs[m], ec)
                                                     ELSE cbs[m]]

\* make_shared<Msg> and, when a send timeout is set, co_timer_add.
NewMsg(m, half) ==
    /\ has_cb' = [has_cb EXCEPT ![m] = TRUE]
    /\ send_half' = [send_half EXCEPT ![m] = half]
    /\ timer' = [timer EXCEPT ![m] = IF SndTimeo THEN "armed" ELSE "off"]
    /\ UNCHANGED cbs

\* The timer's callback: msg->timeout = true.
TimerFires(m) ==
    /\ timer[m] = "armed"
    /\ timer' = [timer EXCEPT ![m] = "fired"]
    /\ UNCHANGED <<control, sendVars, chanVars, send_half, has_cb, cbs, byteVars,
                   ecVars, flagVars, closeVars, sock>>

-----------------------------------------------------------------------------
(* Send and SendNoDelay, called by any thread *)

\* Mutant: the test for a shutdown forgets to return.
AcceptMutant(m, next) ==
    \/ /\ Size[m] = 0
       /\ CallCb(m, "ok") /\ GotoCall(m, "returned")
    \/ /\ Size[m] > 0 /\ Stopping
       /\ CallCb(m, "shutdown") /\ GotoCall(m, next)
    \/ /\ Size[m] > 0 /\ ~Stopping
       /\ GotoCall(m, next) /\ UNCHANGED cbs

\* The early returns both functions begin with; otherwise go on at "next".
Accept(m, next) ==
    \/ /\ Size[m] = 0
       /\ CallCb(m, "ok") /\ GotoCall(m, "returned")
    \/ /\ Size[m] > 0 /\ Stopping
       /\ CallCb(m, "shutdown") /\ GotoCall(m, "returned")
    \/ /\ Size[m] > 0 /\ ~Stopping
       /\ GotoCall(m, next) /\ UNCHANGED cbs

Send(m) ==
    /\ "Send" \in Api
    /\ call[m] = "idle"
    /\ Accept(m, "push")
    /\ UNCHANGED <<pc, closer, immediately, sendVars, chanVars, timer, send_half,
                   has_cb, byteVars, ecVars, flagVars, closeVars, sock>>

SendNoDelay(m) ==
    /\ "SendNoDelay" \in Api
    /\ call[m] = "idle"
    /\ Accept(m, "try")
    /\ UNCHANGED <<pc, closer, immediately, sendVars, chanVars, timer, send_half,
                   has_cb, byteVars, ecVars, flagVars, closeVars, sock>>

\* send_token.try_lock(); without the token SendNoDelay calls Send.
TryToken(m) ==
    /\ call[m] = "try"
    /\ \/ /\ send_mtx = "free"
          /\ send_mtx' = "user" /\ GotoCall(m, "token")
       \/ /\ send_mtx # "free"
          /\ GotoCall(m, "send") /\ UNCHANGED send_mtx
    /\ UNCHANGED <<pc, closer, immediately, sending, msg_send_list, held, room,
                   buffered, msg_shutdown, chanVars, msgVars, byteVars, ecVars,
                   flagVars, closeVars, sock>>

\* SendNoDelay calls Send: with the token when sending_ is set, without it when
\* try_lock or the write failed.
SendFromNoDelay(m) ==
    /\ \/ /\ call[m] = "send"
          /\ Accept(m, "push")
          /\ UNCHANGED send_mtx
       \/ /\ call[m] = "token" /\ sending
          /\ Accept(m, "push_token")
          /\ send_mtx' = IF Stopping THEN "free" ELSE "user"
    /\ UNCHANGED <<pc, closer, immediately, sending, msg_send_list, held, room,
                   buffered, msg_shutdown, chanVars, timer, send_half, has_cb,
                   byteVars, ecVars, flagVars, closeVars, sock>>

\* The rest of Send: make the Msg and msg_chan_.TryPush it (the channel is
\* unbounded, so TryPush succeeds).
PushMsg(m) ==
    /\ call[m] \in {"push", "push_token"}
    /\ NewMsg(m, FALSE)
    /\ msg_chan' = Append(msg_chan, m)
    /\ pushed' = Append(pushed, m)
    /\ send_mtx' = IF call[m] = "push_token" THEN "free" ELSE send_mtx
    /\ GotoCall(m, "returned")
    /\ UNCHANGED <<pc, closer, immediately, sending, msg_send_list, held, room,
                   buffered, msg_shutdown, byteVars, ecVars, flagVars, closeVars,
                   sock>>

\* write_f on the caller's thread, under the token and not sending_: n bytes go
\* out, n = 0 standing for an error.
DirectWrite(m, n) ==
    /\ call[m] = "token" /\ ~sending
    /\ n \in 0..Size[m]
    /\ n > 0 => CanWrite
    /\ pos' = [pos EXCEPT ![m] = n]
    /\ wire' = IF n = 0 THEN wire
               ELSE Append(wire, [msg |-> m, from |-> 0, to |-> n])
    /\ \/ /\ n = 0
          /\ send_mtx' = "free" /\ GotoCall(m, "send") /\ UNCHANGED cbs
       \/ /\ n = Size[m]
          /\ send_mtx' = "free" /\ GotoCall(m, "returned") /\ CallCb(m, "ok")
       \/ /\ n \in 1..(Size[m] - 1)
          /\ GotoCall(m, "half") /\ UNCHANGED <<send_mtx, cbs>>
    /\ UNCHANGED <<pc, closer, immediately, sending, msg_send_list, held, room,
                   buffered, msg_shutdown, chanVars, timer, send_half, has_cb,
                   ecVars, flagVars, closeVars, sock>>

\* The half-sent message becomes the head of msg_send_list_, and sending_ is set;
\* the token is released when SendNoDelay returns.
PushFront(m) ==
    /\ call[m] = "half"
    /\ NewMsg(m, TRUE)
    /\ msg_send_list' = <<m>> \o msg_send_list
    /\ sending' = TRUE
    /\ send_mtx' = "free"
    /\ GotoCall(m, "returned")
    /\ UNCHANGED <<pc, closer, immediately, held, room, buffered, msg_shutdown,
                   chanVars, byteVars, ecVars, flagVars, closeVars, sock>>

-----------------------------------------------------------------------------
(* goStart and goSend *)

\* connect_cb_, then both coroutines are started.
Start ==
    /\ pc["snd"] = "off"
    /\ pc' = [co \in Coroutine |-> IF co = "snd" THEN "top" ELSE "read"]
    /\ UNCHANGED <<call, closer, immediately, sendVars, chanVars, msgVars, byteVars,
                   ecVars, flagVars, closeVars, sock>>

\* Mutant: buffer_size is not reset.
EndIterationMutant ==
    /\ send_mtx' = "free"
    /\ room' = 0 /\ UNCHANGED buffered
    /\ Goto("snd", "top")

\* The end of an iteration of the outer loop: the token's scope ends.
EndIteration ==
    /\ send_mtx' = "free"
    /\ room' = 0 /\ buffered' = 0
    /\ Goto("snd", "top")

\* The head of the outer loop: stop after a shutdown message, or lock the token
\* and see how many messages fit.
Top ==
    /\ pc["snd"] = "top"
    /\ \/ /\ msg_shutdown
          /\ Goto("snd", "shut") /\ UNCHANGED <<send_mtx, room>>
       \/ /\ ~msg_shutdown /\ send_mtx = "free"
          /\ send_mtx' = "snd"
          /\ room' = IF Len(msg_send_list) < CMulti THEN CMulti - Len(msg_send_list) ELSE 0
          /\ Goto("snd", "pop")
    /\ UNCHANGED <<call, closer, immediately, sending, msg_send_list, held, buffered,
                   msg_shutdown, chanVars, msgVars, byteVars, ecVars, flagVars,
                   closeVars, sock>>

\* goSend looks at the message x it took from the channel.
Take(x) ==
    \/ /\ x = ShutdownMsg
       /\ msg_shutdown' = TRUE
       /\ Goto("snd", "build")
       /\ UNCHANGED <<msg_send_list, room, msgVars>>
    \/ /\ x # ShutdownMsg /\ timer[x] = "fired"
       /\ Done({x}, "timeout")
       /\ Goto("snd", "pop")
       /\ UNCHANGED <<msg_send_list, room, msg_shutdown, send_half>>
    \/ /\ x # ShutdownMsg /\ timer[x] # "fired"
       /\ msg_send_list' = Append(msg_send_list, x)
       /\ room' = room - 1
       /\ Goto("snd", "pop")
       /\ UNCHANGED <<msg_shutdown, msgVars>>

\* Mutant: one message too many.
HasRoomMutant == room >= 0

\* insert_c < remain.
HasRoom == room > 0

\* msg_chan_.TryPop while there is room.
Pop ==
    /\ pc["snd"] = "pop"
    /\ \/ /\ HasRoom /\ msg_chan # << >>
          /\ msg_chan' = Tail(msg_chan)
          /\ Take(Head(msg_chan))
       \/ /\ ~HasRoom \/ (msg_chan = << >> /\ msg_send_list # << >>)
          /\ Goto("snd", "build")
          /\ UNCHANGED <<msg_chan, msg_send_list, room, msg_shutdown, msgVars>>
       \/ /\ HasRoom /\ msg_chan = << >> /\ msg_send_list = << >>
          /\ Goto("snd", "empty")
          /\ UNCHANGED <<msg_chan, msg_send_list, room, msg_shutdown, msgVars>>
    /\ UNCHANGED <<call, closer, immediately, send_mtx, sending, held, buffered, pushed,
                   byteVars, ecVars, flagVars, closeVars, sock>>

\* Nothing to send: ShutdownSend with the token if Shutdown was called, else
\* clear sending_, unlock the token and block on the channel.
Empty ==
    /\ pc["snd"] = "empty"
    /\ \/ /\ initiative_shutdown
          /\ Goto("snd", "shut") /\ UNCHANGED <<send_mtx, sending>>
       \/ /\ ~initiative_shutdown
          /\ sending' = FALSE /\ send_mtx' = "free"
          /\ Goto("snd", "wait")
    /\ UNCHANGED <<call, closer, immediately, msg_send_list, held, room, buffered,
                   msg_shutdown, chanVars, msgVars, byteVars, ecVars, flagVars,
                   closeVars, sock>>

\* Mutant: the last message of the channel is taken.
WaitMutant ==
    /\ pc["snd"] = "wait"
    /\ msg_chan # << >>
    /\ held' = Last(msg_chan) /\ msg_chan' = Front(msg_chan)
    /\ Goto("snd", "relock")
    /\ UNCHANGED <<call, closer, immediately, send_mtx, sending, msg_send_list, room,
                   buffered, msg_shutdown, pushed, msgVars, byteVars, ecVars,
                   flagVars, closeVars, sock>>

\* msg_chan_ >> msg returns.
Wait ==
    /\ pc["snd"] = "wait"
    /\ msg_chan # << >>
    /\ held' = Head(msg_chan) /\ msg_chan' = Tail(msg_chan)
    /\ Goto("snd", "relock")
    /\ UNCHANGED <<call, closer, immediately, send_mtx, sending, msg_send_list, room,
                   buffered, msg_shutdown, pushed, msgVars, byteVars, ecVars,
                   flagVars, closeVars, sock>>

\* send_token.lock(), and the message is looked at.
Relock ==
    /\ pc["snd"] = "relock"
    /\ send_mtx = "free"
    /\ send_mtx' = "snd"
    /\ held' = ShutdownMsg
    /\ Take(held)
    /\ UNCHANGED <<call, closer, immediately, sending, buffered, chanVars, byteVars,
                   ecVars, flagVars, closeVars, sock>>

\* Mutant: send_half is not looked at.
ExpiredMutant(m) == timer[m] = "fired"

\* The message is to be dropped: late, and none of it is on the wire.
Expired(m) == timer[m] = "fired" /\ ~send_half[m]

\* One turn of the loop that makes the buffers: a message whose timer has fired
\* is dropped unless part of it is already on the wire.  With no buffer the
\* outer loop continues.
Build ==
    /\ pc["snd"] = "build"
    /\ LET it == buffered + 1
           atEnd == it > Len(msg_send_list)
           m == msg_send_list[it]
           expired == Expired(m)
           full == ~atEnd /\ ~expired /\ buffered = CMulti
       IN \/ /\ ~atEnd /\ expired
             /\ Done({m}, "timeout")
             /\ msg_send_list' = RemoveAt(msg_send_list, it)
             /\ UNCHANGED <<pc, send_mtx, room, buffered, send_half>>
          \/ /\ ~atEnd /\ ~expired /\ buffered < CMulti
             /\ buffered' = buffered + 1
             /\ UNCHANGED <<pc, send_mtx, msg_send_list, room, msgVars>>
          \/ /\ atEnd \/ full
             /\ buffered > 0
             /\ Goto("snd", "write")
             /\ UNCHANGED <<send_mtx, msg_send_list, room, buffered, msgVars>>
          \/ /\ atEnd /\ buffered = 0
             /\ EndIteration
             /\ UNCHANGED <<msg_send_list, msgVars>>
    /\ UNCHANGED <<call, closer, immediately, sending, held, msg_shutdown, chanVars,
                   byteVars, ecVars, flagVars, closeVars, sock>>

\* How much of the buffer after the first k a write can take without finishing it.
PartAfter(k) ==
    IF k < buffered THEN 0..(Size[msg_send_list[k + 1]] - pos[msg_send_list[k + 1]] - 1)
                    ELSE {0}

\* Mutant: a half-sent message counts as sent.
SentMutant(k, r) == {msg_send_list[i] : i \in 1..(IF r > 0 THEN k + 1 ELSE k)}

\* Mutant: a half-sent message goes to the end of the list.
UnsentMutant(k, r) ==
    LET rest == SubSeq(msg_send_list, k + 1, Len(msg_send_list))
    IN IF r > 0 THEN Append(Tail(rest), Head(rest)) ELSE rest

\* The messages that goSend finds sent after a write of k buffers and r bytes
\* more, and the list it leaves.
Sent(k, r) == {msg_send_list[i] : i \in 1..k}
Unsent(k, r) == SubSeq(msg_send_list, k + 1, Len(msg_send_list))

\* writev_f takes the first k buffers and r bytes of the next one; the messages
\* sent are done with and the next one is half sent.
WriteSome(k, r) ==
    /\ pc["snd"] = "write"
    /\ CanWrite
    /\ k \in 0..buffered /\ r \in PartAfter(k) /\ k + r > 0
    /\ LET whole == {msg_send_list[i] : i \in 1..k}
           next == msg_send_list[k + 1]
       IN /\ Done(Sent(k, r), "ok")
          /\ send_half' = [m \in Msg |-> send_half[m] \/ (r > 0 /\ m = next)]
          /\ pos' = [m \in Msg |-> IF m \in whole THEN Size[m]
                                   ELSE IF r > 0 /\ m = next THEN pos[m] + r
                                   ELSE pos[m]]
          /\ wire' = wire \o [i \in 1..k |-> Rest(msg_send_list[i])]
                          \o (IF r = 0 THEN << >>
                              ELSE <<[msg |-> next, from |-> pos[next], to |-> pos[next] + r]>>)
    /\ msg_send_list' = Unsent(k, r)
    /\ EndIteration
    /\ UNCHANGED <<call, closer, immediately, sending, held, msg_shutdown, chanVars,
                   ecVars, flagVars, closeVars, sock>>

\* writev_f fails with EAGAIN: poll, unless the shutdown message was seen, when
\* what is left is given up.
WriteBlocked ==
    /\ pc["snd"] = "write"
    /\ CanWrite
    /\ \/ /\ msg_shutdown /\ EndIteration
       \/ /\ ~msg_shutdown /\ Goto("snd", "poll")
          /\ UNCHANGED <<send_mtx, room, buffered>>
    /\ UNCHANGED <<call, closer, immediately, sending, msg_send_list, held, msg_shutdown,
                   chanVars, msgVars, byteVars, ecVars, flagVars, closeVars, sock>>

\* writev_f, or poll on a connection that is gone, fails with another error.
WriteError ==
    /\ pc["snd"] \in {"write", "poll"}
    /\ ~CanWrite
    /\ Goto("snd", "try_ec")
    /\ UNCHANGED <<call, closer, immediately, sendVars, chanVars, msgVars, byteVars,
                   ecVars, flagVars, closeVars, sock>>

\* poll reports POLLOUT: retry_write.
PollWritable ==
    /\ pc["snd"] = "poll"
    /\ Goto("snd", "write")
    /\ UNCHANGED <<call, closer, immediately, sendVars, chanVars, msgVars, byteVars,
                   ecVars, flagVars, closeVars, sock>>

\* poll returns without POLLOUT alone: its timeout, sndtimeo_ / 2, or a hangup.
PollOther ==
    /\ pc["snd"] = "poll"
    /\ SndTimeo \/ ~CanWrite
    /\ EndIteration
    /\ UNCHANGED <<call, closer, immediately, sending, msg_send_list, held, msg_shutdown,
                   chanVars, msgVars, byteVars, ecVars, flagVars, closeVars, sock>>

-----------------------------------------------------------------------------
(* goReceive *)

\* read_some fails: end of file, a reset, or this side was shut down.
RecvFail ==
    /\ pc["rcv"] = "read"
    /\ ~sock.rd \/ sock.fin \/ sock.rst
    /\ recv_ec' = "io"
    /\ Goto("rcv", "try_ec")
    /\ UNCHANGED <<call, closer, immediately, sendVars, chanVars, msgVars, byteVars,
                   ecVars, flagVars, closed, disc, settled, sock>>

\* The peer's bytes overflow the buffer, or receive_cb_ rejects them.
RecvReject ==
    /\ pc["rcv"] = "read"
    /\ sock.rd /\ ~sock.rst
    /\ recv_ec' \in {"parse", "overflow"}
    /\ Goto("rcv", "try_ec")
    /\ UNCHANGED <<call, closer, immediately, sendVars, chanVars, msgVars, byteVars,
                   ecVars, flagVars, closed, disc, settled, sock>>

-----------------------------------------------------------------------------
(* SetCloseEc: close_ec_mutex_.try_lock() and the write of close_ec_ are two   *)
(* steps; the mutex is never unlocked.                                         *)

LockCloseEc(set, skip) ==
    \/ ~close_ec_mutex /\ close_ec_mutex' = TRUE /\ set
    \/ close_ec_mutex /\ UNCHANGED close_ec_mutex /\ skip

\* Mutant: the test of close_ec_ is inverted.
WriteCloseEcMutant(ec) == close_ec' = IF close_ec # "ok" THEN ec ELSE close_ec

WriteCloseEc(ec) == close_ec' = IF close_ec = "ok" THEN ec ELSE close_ec

\* The two steps of SetCloseEc in a coroutine.
TryEc(co) ==
    /\ pc[co] = "try_ec"
    /\ LockCloseEc(Goto(co, "set_ec"), Goto(co, "shut"))
    /\ UNCHANGED <<call, closer, immediately, sendVars, chanVars, msgVars, byteVars,
                   close_ec, flagVars, closeVars, sock>>

SetEc(co) ==
    /\ pc[co] = "set_ec"
    /\ WriteCloseEc(IF co = "snd" THEN "io" ELSE recv_ec)
    /\ Goto(co, "shut")
    /\ UNCHANGED <<call, closer, immediately, sendVars, chanVars, msgVars, byteVars,
                   close_ec_mutex, flagVars, closeVars, sock>>

-----------------------------------------------------------------------------
(* ShutdownSend (co = "snd"), ShutdownRecv (co = "rcv") and OnClose            *)

\* The coroutine returns; goSend's token, if it still holds it, is unlocked.
Return(co) ==
    /\ Goto(co, "exit")
    /\ send_mtx' = IF co = "snd" /\ send_mtx = "snd" THEN "free" ELSE send_mtx

\* socket_->shutdown of this coroutine's direction.
Shut(co) ==
    /\ pc[co] = "shut"
    /\ sock' = [sock EXCEPT !.wr = @ /\ co # "snd", !.rd = @ /\ co # "rcv"]
    /\ Goto(co, "flag")
    /\ UNCHANGED <<call, closer, immediately, sendVars, chanVars, msgVars, byteVars,
                   ecVars, flagVars, closeVars>>

\* send_shutdown_ = true, recv_shutdown_ = true.
SetFlag(co) ==
    /\ pc[co] = "flag"
    /\ send_shutdown' = (send_shutdown \/ co = "snd")
    /\ recv_shutdown' = (recv_shutdown \/ co = "rcv")
    /\ Goto(co, "test")
    /\ UNCHANGED <<call, closer, immediately, sendVars, chanVars, msgVars, byteVars,
                   ecVars, initiative_shutdown, closeVars, sock>>

\* Has the other direction been shut down?
TestSend ==
    /\ pc["snd"] = "test"
    /\ \/ recv_shutdown /\ Goto("snd", "onclose") /\ UNCHANGED send_mtx
       \/ ~recv_shutdown /\ Return("snd")
    /\ UNCHANGED <<call, closer, immediately, sending, msg_send_list, held, room,
                   buffered, msg_shutdown, chanVars, msgVars, byteVars, ecVars,
                   flagVars, closeVars, sock>>

\* Mutant: ShutdownRecv always leaves the closing to goSend.
TestRecvMutant ==
    /\ pc["rcv"] = "test"
    /\ Goto("rcv", "push")
    /\ UNCHANGED <<call, closer, immediately, sendVars, chanVars, msgVars, byteVars,
                   ecVars, flagVars, closeVars, sock>>

TestRecv ==
    /\ pc["rcv"] = "test"
    /\ Goto("rcv", IF send_shutdown THEN "onclose" ELSE "push")
    /\ UNCHANGED <<call, closer, immediately, sendVars, chanVars, msgVars, byteVars,
                   ecVars, flagVars, closeVars, sock>>

\* Mutant: goSend is not woken.
WakeSendMutant ==
    /\ pc["rcv"] = "push"
    /\ Goto("rcv", "shut_wr")
    /\ UNCHANGED <<call, closer, immediately, sendVars, chanVars, msgVars, byteVars,
                   ecVars, flagVars, closeVars, sock>>

\* ShutdownRecv's else branch: wake goSend, then shut the sending direction.
WakeSend ==
    /\ pc["rcv"] = "push"
    /\ msg_chan' = Append(msg_chan, ShutdownMsg)
    /\ Goto("rcv", "shut_wr")
    /\ UNCHANGED <<call, closer, immediately, sendVars, pushed, msgVars, byteVars,
                   ecVars, flagVars, closeVars, sock>>

ShutWr ==
    /\ pc["rcv"] = "shut_wr"
    /\ sock' = [sock EXCEPT !.wr = FALSE]
    /\ Goto("rcv", "exit")
    /\ UNCHANGED <<call, closer, immediately, sendVars, chanVars, msgVars, byteVars,
                   ecVars, flagVars, closeVars>>

\* Mutant: OnClose runs whoever calls it.
TryLockClosedMutant == TRUE

\* closed_.try_lock() succeeds.
TryLockClosed == ~closed

\* OnClose: closed_.try_lock(), and socket_->close() if it succeeds.
OnClose(co) ==
    /\ pc[co] = "onclose"
    /\ \/ /\ ~TryLockClosed
          /\ Return(co) /\ UNCHANGED <<closed, settled, sock>>
       \/ /\ TryLockClosed
          /\ closed' = TRUE
          /\ settled' = {m \in Msg : call[m] = "returned"}
          /\ sock' = [sock EXCEPT !.open = FALSE]
          /\ Goto(co, "drain") /\ UNCHANGED send_mtx
    /\ UNCHANGED <<call, closer, immediately, sending, msg_send_list, held, room,
                   buffered, msg_shutdown, chanVars, msgVars, byteVars, ecVars,
                   flagVars, recv_ec, disc>>

\* OnClose: the channel is emptied by TryPop.
Drain(co) ==
    /\ pc[co] = "drain"
    /\ \/ /\ msg_chan = << >>
          /\ Goto(co, "clear") /\ UNCHANGED <<msg_chan, msgVars>>
       \/ /\ msg_chan # << >>
          /\ msg_chan' = Tail(msg_chan)
          /\ Done({Head(msg_chan)}, "shutdown")
          /\ UNCHANGED <<pc, send_half>>
    /\ UNCHANGED <<call, closer, immediately, sendVars, pushed, byteVars, ecVars,
                   flagVars, closeVars, sock>>

\* Mutant: the list is thrown away.
DoneAllMutant(co) ==
    /\ pc[co] = "clear"
    /\ Goto(co, "erase")
    /\ UNCHANGED <<call, closer, immediately, sendVars, chanVars, msgVars, byteVars,
                   ecVars, flagVars, closeVars, sock>>

\* OnClose: every message of msg_send_list_ is done with, without the token.
DoneAll(co) ==
    /\ pc[co] = "clear"
    /\ Done(ToSet(msg_send_list), "shutdown")
    /\ Goto(co, "erase")
    /\ UNCHANGED <<call, closer, immediately, sendVars, chanVars, send_half, byteVars,
                   ecVars, flagVars, closeVars, sock>>

\* OnClose: msg_send_list_.clear().
Erase(co) ==
    /\ pc[co] = "erase"
    /\ msg_send_list' = << >>
    /\ Goto(co, "notify")
    /\ UNCHANGED <<call, closer, immediately, send_mtx, sending, held, room, buffered,
                   msg_shutdown, chanVars, msgVars, byteVars, ecVars, flagVars,
                   closeVars, sock>>

\* OnClose: disconnect_cb_ with the code close_ec_ holds now.
Notify(co) ==
    /\ pc[co] = "notify"
    /\ disc' = Append(disc, close_ec)
    /\ Return(co)
    /\ UNCHANGED <<call, closer, immediately, sending, msg_send_list, held, room,
                   buffered, msg_shutdown, chanVars, msgVars, byteVars, ecVars,
                   flagVars, recv_ec, closed, settled, sock>>

-----------------------------------------------------------------------------
(* Shutdown, called by any thread *)

Shutdown(c) ==
    /\ closer[c] = "idle"
    /\ \E arg \in ShutdownArgs : immediately' = [immediately EXCEPT ![c] = arg]
    /\ LockCloseEc(GotoCloser(c, "set_ec"), GotoCloser(c, "flag"))
    /\ UNCHANGED <<pc, call, sendVars, chanVars, msgVars, byteVars, close_ec, flagVars,
                   closeVars, sock>>

ShutdownSetEc(c) ==
    /\ closer[c] = "set_ec"
    /\ WriteCloseEc("shutdown")
    /\ GotoCloser(c, "flag")
    /\ UNCHANGED <<pc, call, immediately, sendVars, chanVars, msgVars, byteVars,
                   close_ec_mutex, flagVars, closeVars, sock>>

\* initiative_shutdown_ = true.
ShutdownSetFlag(c) ==
    /\ closer[c] = "flag"
    /\ initiative_shutdown' = TRUE
    /\ GotoCloser(c, IF immediately[c] THEN "shut" ELSE "push")
    /\ UNCHANGED <<pc, call, immediately, sendVars, chanVars, msgVars, byteVars, ecVars,
                   send_shutdown, recv_shutdown, closeVars, sock>>

\* socket_->shutdown(shutdown_both).
ShutdownBoth(c) ==
    /\ closer[c] = "shut"
    /\ sock' = [sock EXCEPT !.rd = FALSE, !.wr = FALSE]
    /\ GotoCloser(c, "push")
    /\ UNCHANGED <<pc, call, immediately, sendVars, chanVars, msgVars, byteVars, ecVars,
                   flagVars, closeVars>>

\* Mutant: goSend is not woken.
ShutdownPushMutant(c) ==
    /\ closer[c] = "push"
    /\ GotoCloser(c, "done")
    /\ UNCHANGED <<pc, call, immediately, sendVars, chanVars, msgVars, byteVars, ecVars,
                   flagVars, closeVars, sock>>

\* The shutdown message wakes goSend.
ShutdownPush(c) ==
    /\ closer[c] = "push"
    /\ msg_chan' = Append(msg_chan, ShutdownMsg)
    /\ GotoCloser(c, "done")
    /\ UNCHANGED <<pc, call, immediately, sendVars, pushed, msgVars, byteVars, ecVars,
                   flagVars, closeVars, sock>>

-----------------------------------------------------------------------------
(* The peer (external) *)

PeerFin ==
    /\ ~sock.fin
    /\ sock' = [sock EXCEPT !.fin = TRUE]
    /\ UNCHANGED <<control, sendVars, chanVars, msgVars, byteVars, ecVars, flagVars,
                   closeVars>>

PeerRst ==
    /\ ~sock.rst
    /\ sock' = [sock EXCEPT !.rst = TRUE]
    /\ UNCHANGED <<control, sendVars, chanVars, msgVars, byteVars, ecVars, flagVars,
                   closeVars>>

-----------------------------------------------------------------------------
(* The session *)

WriteSteps == pc["snd"] = "write" /\ \E k \in 0..buffered : \E r \in PartAfter(k) : WriteSome(k, r)

SndLoopStep ==
    \/ Top \/ Pop \/ Empty \/ Wait \/ Relock \/ Build
    \/ WriteSteps \/ WriteBlocked \/ WriteError \/ PollWritable \/ PollOther

CloseStep(co) ==
    \/ TryEc(co) \/ SetEc(co) \/ Shut(co) \/ SetFlag(co)
    \/ OnClose(co) \/ Drain(co) \/ DoneAll(co) \/ Erase(co) \/ Notify(co)

SndStep == SndLoopStep \/ CloseStep("snd") \/ TestSend
RcvStep == RecvFail \/ RecvReject \/ CloseStep("rcv") \/ TestRecv \/ WakeSend \/ ShutWr

\* The steps of a call of Send or SendNoDelay after its first one.
CallStep(m) ==
    \/ TryToken(m) \/ SendFromNoDelay(m) \/ PushMsg(m) \/ PushFront(m)
    \/ \E n \in 0..Size[m] : DirectWrite(m, n)

\* The steps of a call of Shutdown after its first one.
CloserStep(c) ==
    \/ ShutdownSetEc(c) \/ ShutdownSetFlag(c) \/ ShutdownBoth(c) \/ ShutdownPush(c)

Next ==
    \/ Start \/ SndStep \/ RcvStep
    \/ \E m \in Msg : Send(m) \/ SendNoDelay(m) \/ CallStep(m) \/ TimerFires(m)
    \/ \E c \in Closer : Shutdown(c) \/ CloserStep(c)
    \/ PeerFin \/ PeerRst

Spec == Init /\ [][Next]_vars

\* The scheduler runs every runnable coroutine and thread again and again.  A
\* coroutine that waits for the peer (read_some, or poll on a full socket) is
\* not runnable.
Fairness ==
    /\ WF_vars(Start)
    /\ WF_vars(SndStep /\ (pc["snd"] = "poll" => ~CanWrite))
    /\ WF_vars(RcvStep /\ (pc["rcv"] = "read" => RecvFail))
    /\ \A m \in Msg : WF_vars(CallStep(m))
    /\ \A c \in Closer : WF_vars(CloserStep(c))

\* A peer that keeps reading, so that a full socket drains, and that closes its
\* side once it has read our end of file.
PeerFairness ==
    /\ SF_vars(WriteSteps)
    /\ WF_vars(PollWritable)
    /\ WF_vars(PeerFin /\ ~sock.wr)

FairSpec == Spec /\ Fairness
PeerFairSpec == FairSpec /\ PeerFairness

-----------------------------------------------------------------------------
(* Properties *)

ControlType ==
    /\ pc \in [Coroutine -> CoPc]
    /\ call \in [Msg -> CallPc]
    /\ closer \in [Closer -> CloserPc]
    /\ immediately \in [Closer -> BOOLEAN]

SendType ==
    /\ send_mtx \in {"free", "snd", "user"}
    /\ sending \in BOOLEAN
    /\ msg_send_list \in Seq(Msg)
    /\ held \in Msg \cup {ShutdownMsg}
    /\ room \in Nat /\ buffered \in Nat
    /\ msg_shutdown \in BOOLEAN

ChanType ==
    /\ msg_chan \in Seq(Msg \cup {ShutdownMsg})
    /\ pushed \in Seq(Msg)

MsgType ==
    /\ timer \in [Msg -> {"off", "armed", "fired"}]
    /\ send_half \in [Msg -> BOOLEAN]
    /\ has_cb \in [Msg -> BOOLEAN]
    /\ cbs \in [Msg -> Seq(Ec)]

ByteType ==
    /\ pos \in [Msg -> Nat]
    /\ wire \in Seq(Chunk)

CloseType ==
    /\ initiative_shutdown \in BOOLEAN
    /\ send_shutdown \in BOOLEAN
    /\ recv_shutdown \in BOOLEAN
    /\ close_ec_mutex \in BOOLEAN
    /\ close_ec \in Ec
    /\ recv_ec \in Ec
    /\ closed \in BOOLEAN
    /\ sock \in [rd : BOOLEAN, wr : BOOLEAN, open : BOOLEAN, fin : BOOLEAN, rst : BOOLEAN]
    /\ disc \in Seq(Ec)
    /\ settled \in SUBSET Msg

TypeOK == ControlType /\ SendType /\ ChanType /\ MsgType /\ ByteType /\ CloseType

\* disconnect_cb_ is called at most once, and only when neither goSend nor
\* goReceive uses the session any more: both are in ShutdownSend / ShutdownRecv
\* past their flags.
CloseOnce ==
    /\ Len(disc) <= 1
    /\ closed => send_shutdown /\ recv_shutdown
    /\ disc # << >> => ~sock.open

\* The two flags of ShutdownSend and ShutdownRecv miss nothing: when both
\* coroutines have returned, one of them has run OnClose to its end.
NoMissedClose == (\A co \in Coroutine : pc[co] = "exit") => Len(disc) = 1

\* No SndCb is called twice, on whatever path its call ends.
CallbackAtMostOnce == \A m \in Msg : Len(cbs[m]) <= 1

\* What a SndCb reports agrees with the wire: no error means that all bytes
\* were written, ec_send_timeout that none was.
CallbackTellsTruth ==
    \A m \in Msg : /\ "ok" \in ToSet(cbs[m]) => pos[m] = Size[m]
                   /\ "timeout" \in ToSet(cbs[m]) => pos[m] = 0

\* Messages leave in the order Send queued them: a byte of a later one is on
\* the wire only if the earlier one was written whole or has timed out.
ChannelFifo ==
    \A i, j \in 1..Len(pushed) :
        i < j /\ pos[pushed[j]] > 0 =>
            \/ pos[pushed[i]] = Size[pushed[i]]
            \/ "timeout" \in ToSet(cbs[pushed[i]])

\* The bytes of a message are not interleaved with those of another.
Contiguous ==
    \A i, j, k \in 1..Len(wire) :
        i < j /\ j < k /\ wire[i].msg = wire[k].msg => wire[j].msg = wire[i].msg

\* What Send queues never splits another message: whatever lies between two
\* parts of a message was written by a SendNoDelay that found the token free.
SendContiguous ==
    \A i, j, k \in 1..Len(wire) :
        i < j /\ j < k /\ wire[i].msg = wire[k].msg /\ wire[j].msg # wire[i].msg
            => wire[j].msg \notin ToSet(pushed)

\* When disconnect_cb_ is called, every call that had returned before OnClose
\* began has had its SndCb.
NoLostCallback ==
    disc # << >> => \A m \in settled : cbs[m] # << >>

\* disconnect_cb_ is given a reason, unless a Shutdown call has taken
\* close_ec_mutex_ and not yet written close_ec_.
CloseReason ==
    [][disc' # disc => close_ec # "ok" \/ \E c \in Closer : closer[c] = "set_ec"]_vars

\* The end of a connection is noticed: after the peer's FIN, a reset or
\* Shutdown(true), disconnect_cb_ is called, whatever the sender waits for.
ClosingCompletes ==
    (sock.fin \/ sock.rst \/ \E c \in Closer : closer[c] = "done" /\ immediately[c])
        ~> disc # << >>

\* Shutdown(false) ends the session when the peer reads and answers our FIN.
GracefulCompletes ==
    PeerFairness => (\E c \in Closer : closer[c] = "done") ~> disc # << >>

\* goSend is blocked on an empty channel, and what SendNoDelay half sent of m is
\* in msg_send_list_.
Stranded(m) ==
    /\ pc["snd"] = "wait" /\ msg_chan = << >>
    /\ send_half[m] /\ m \notin Range(pushed)

\* Every SndCb is called in the end if the peer reads, with two exceptions: calls
\* that overlap OnClose, and a message SendNoDelay half sent (HalfSentCompletes),
\* which stays where it is as long as nothing wakes goSend.
EveryCallbackFires ==
    PeerFairness =>
        \A m \in Msg : call[m] = "returned"
            ~> cbs[m] # << >> \/ (closed /\ m \notin settled) \/ []Stranded(m)

\* A message SendNoDelay has put at the head of the list is completed, or the
\* session begins to close.
HalfSentCompletes ==
    \A m \in Msg : (send_half[m] /\ call[m] = "returned")
                       ~> (cbs[m] # << >> \/ recv_shutdown \/ send_shutdown)

-----------------------------------------------------------------------------
(* Inductive invariants *)

\* Where each coroutine is once its flag is set, and the part of OnClose that
\* closed_ protects.
SndFlagged == {"test", "onclose", "drain", "clear", "erase", "notify", "exit"}
RcvFlagged == SndFlagged \cup {"push", "shut_wr"}
Closing == {"drain", "clear", "erase", "notify"}

\* The flags say where the coroutines are; whoever is inside OnClose is alone
\* there; and a coroutine that returns without OnClose leaves the other one
\* before its test of the flags.
CloseInv ==
    /\ pc["snd"] = "off" <=> pc["rcv"] = "off"
    /\ send_shutdown <=> pc["snd"] \in SndFlagged
    /\ recv_shutdown <=> pc["rcv"] \in RcvFlagged
    /\ pc["snd"] \in Closing \cup {"onclose"} => recv_shutdown
    /\ pc["rcv"] \in Closing \cup {"onclose"} => send_shutdown
    /\ ~(pc["snd"] \in Closing /\ pc["rcv"] \in Closing)
    /\ closed => send_shutdown /\ recv_shutdown /\ ~sock.open
    /\ \A co \in Coroutine : pc[co] \in Closing => closed /\ disc = << >>
    /\ ~closed => disc = << >>
    /\ closed /\ (\A co \in Coroutine : pc[co] \notin Closing) => Len(disc) = 1
    /\ ~closed /\ pc["snd"] = "exit" => ~recv_shutdown \/ pc["rcv"] \in {"test", "onclose"}
    /\ ~closed /\ pc["rcv"] \in {"push", "shut_wr", "exit"} =>
           ~send_shutdown \/ pc["snd"] \in {"test", "onclose"}

\* goSend waits for a message only with room for it, and the buffers it has
\* made are a prefix of msg_send_list_.
SendInv ==
    /\ pc["snd"] \in {"empty", "wait", "relock"} => room > 0
    /\ pc["snd"] \in {"build", "write", "poll"} => buffered <= Len(msg_send_list)
    /\ pc["snd"] \notin {"build", "write", "poll"} \cup EcPc \cup ClosePc => buffered = 0

-----------------------------------------------------------------------------
(* What a session promises its user *)

Contract == INSTANCE SessionContract
    WITH wrote <- pos,
         outcome <- [m \in Msg |-> IF cbs[m] = << >> THEN "none" ELSE Last(cbs[m])],
         socketClosed <- ~sock.open,
         ended <- disc # << >>

\* A session keeps its contract.
RefinesContract == Contract!Spec
=============================================================================
