--------------------------- MODULE TcpConnection ----------------------------
(***************************************************************************)
(* One connection of linux/net/tcp_connection.c: its output buffer and     *)
(* EPOLLOUT handling, its callbacks, and its deferred destruction.  The    *)
(* users are the loop thread (in the connection's own callbacks, or in     *)
(* another channel's or a timer's, "user") and a client thread, whose      *)
(* calls go through the loop's task queue.  The peer and the kernel's send *)
(* buffer move at any time, between the steps of connection_onevent too.   *)
(*                                                                         *)
(* A byte sent is <<sender, i>>: the i-th that this sender handed to       *)
(* tcp_connection_send.  Bytes received are not told apart.                *)
(***************************************************************************)
EXTENDS Naturals, Sequences, FiniteSets, FiniteSetsExt

CONSTANTS MaxBytes,   \* bound: bytes each sender sends over the connection's life
          SockBuf,    \* capacity of the kernel's send buffer, in bytes
          Sizes,      \* sizes of one send
          MaxTasks    \* bound: client calls on their way

ASSUME BoundsAssumption == MaxBytes \in Nat /\ MaxTasks \in Nat
ASSUME SockBufAssumption == SockBuf \in Nat \ {0}
ASSUME SizesAssumption == Sizes \subseteq Nat \ {0}

VARIABLES mem,        \* "open" or "freed"
          loopSet,    \* connection->loop # NULL
          connected,  \* connection->is_connected
          alive,      \* connection->is_alive
          inCallback, \* connection->is_in_callback
          needClosed, \* connection->need_closed_after_sent_done
          mask,       \* the channel's events
          outBuffer,
          sent,       \* per sender: how many bytes tcp_connection_send has taken
          wire,       \* bytes write() has taken
          room,       \* free space in the kernel's send buffer
          peer,       \* "up", "fin" or "rst"
          readable,   \* the peer has sent data that was not read yet
          tasks,      \* the client's calls in the loop's task queue
          pc,         \* where the loop thread is
          revent,     \* what epoll_wait() reported for the connection
          released,   \* a user has called tcp_connection_destroy()
          gone,       \* do_tcp_connection_destroy() has run
          fault

object == <<mem, loopSet, connected, alive, inCallback, needClosed, mask>>
output == <<outBuffer, sent, wire, room>>
net    == <<peer, readable>>
vars == <<object, output, net, tasks, pc, revent, released, gone, fault>>

Sender == {"loop", "client"}

\* tcp_connection_new()
Init == /\ mem = "open" /\ loopSet = TRUE
        /\ connected = TRUE /\ alive = TRUE
        /\ inCallback = FALSE /\ needClosed = FALSE
        /\ mask = {"IN"}
        /\ outBuffer = <<>> /\ sent = [who \in Sender |-> 0] /\ wire = <<>> /\ room = SockBuf
        /\ peer = "up" /\ readable = FALSE
        /\ tasks = <<>>
        /\ pc = "user" /\ revent = {}
        /\ released = FALSE /\ gone = FALSE
        /\ fault = "none"

NextBytes(who, n) == [i \in 1 .. n |-> <<who, sent[who] + i>>]

-----------------------------------------------------------------------------
(***************************************************************************)
(* Writing.                                                                *)
(***************************************************************************)
\* A partial write that queues the whole of the new data again.
MutantSendInLoop(data) ==
    LET all == outBuffer \o data
        n   == Min({room, Len(all)})
    IN  IF peer = "rst" THEN UNCHANGED <<outBuffer, wire, room, mask>>
        ELSE /\ wire' = wire \o SubSeq(all, 1, n)
             /\ outBuffer' = IF n = Len(all) THEN <<>>
                             ELSE IF n < Len(outBuffer) THEN SubSeq(all, n + 1, Len(all))
                             ELSE data
             /\ room' = room - n
             /\ mask' = IF n = Len(all) THEN mask \ {"OUT"} ELSE mask \cup {"OUT"}

\* The event is armed only when nothing at all could be written.
MutantSendUnwatched(data) ==
    LET all == outBuffer \o data
        n   == Min({room, Len(all)})
    IN  IF peer = "rst" THEN UNCHANGED <<outBuffer, wire, room, mask>>
        ELSE /\ wire' = wire \o SubSeq(all, 1, n)
             /\ outBuffer' = SubSeq(all, n + 1, Len(all))
             /\ room' = room - n
             /\ mask' = IF n = Len(all) THEN mask \ {"OUT"}
                        ELSE IF n = 0 THEN mask \cup {"OUT"} ELSE mask

\* tcp_connection_sendInLoop(): write or writev of what is buffered and the new
\* data; what the kernel does not take is buffered and EPOLLOUT is watched.  On a
\* reset connection the new data is dropped.
SendInLoop(data) ==
    LET all == outBuffer \o data
        n   == Min({room, Len(all)})
    IN  IF peer = "rst" THEN UNCHANGED <<outBuffer, wire, room, mask>>
        ELSE /\ wire' = wire \o SubSeq(all, 1, n)
             /\ outBuffer' = SubSeq(all, n + 1, Len(all))
             /\ room' = room - n
             /\ mask' = IF n = Len(all) THEN mask \ {"OUT"} ELSE mask \cup {"OUT"}

-----------------------------------------------------------------------------
(***************************************************************************)
(* Destroying.                                                             *)
(***************************************************************************)
\* delete_connection()
Delete == /\ mem' = "freed"
          /\ mask' = {}
          /\ UNCHANGED <<alive, needClosed>>

\* A destroy that does not wait for the output buffer.
MutantDoDestroy ==
    /\ gone' = TRUE
    /\ IF inCallback
         THEN /\ alive' = FALSE
              /\ UNCHANGED <<mem, mask, needClosed>>
         ELSE Delete

\* A destroy that keeps the connection but does not watch EPOLLOUT.
MutantDoDestroyUnwatched ==
    /\ gone' = TRUE
    /\ IF outBuffer # <<>> /\ connected
         THEN /\ mask' = {}
              /\ needClosed' = TRUE
              /\ UNCHANGED <<mem, alive>>
         ELSE IF inCallback
         THEN /\ alive' = FALSE
              /\ UNCHANGED <<mem, mask, needClosed>>
         ELSE Delete

\* A destroy that frees the connection under its own callback.
MutantDoDestroyAtOnce ==
    /\ gone' = TRUE
    /\ IF outBuffer # <<>> /\ connected
         THEN /\ mask' = {"OUT"}
              /\ needClosed' = TRUE
              /\ UNCHANGED <<mem, alive>>
         ELSE Delete

\* do_tcp_connection_destroy(): a connection with pending output is kept until
\* the output is written; otherwise it is deleted now or, in its own callback,
\* when connection_onevent ends.
DoDestroy ==
    /\ gone' = TRUE
    /\ IF outBuffer # <<>> /\ connected
         THEN /\ mask' = {"OUT"}
              /\ needClosed' = TRUE
              /\ UNCHANGED <<mem, alive>>
         ELSE IF inCallback
         THEN /\ alive' = FALSE
              /\ UNCHANGED <<mem, mask, needClosed>>
         ELSE Delete

-----------------------------------------------------------------------------
(***************************************************************************)
(* The users.  Whoever destroys the connection has made sure that nobody   *)
(* uses it afterwards; a detached connection is only attached again.       *)
(***************************************************************************)
InOtherCallback == pc \in {"user", "done"} /\ fault = "none"

InUserCode == pc \in {"user", "done", "datacb", "closecb"} /\ fault = "none"

MayUse == ~released /\ loopSet

Send(n) ==
    /\ InUserCode /\ MayUse
    /\ connected
    /\ sent["loop"] + n <= MaxBytes
    /\ SendInLoop(NextBytes("loop", n))
    /\ sent' = [sent EXCEPT !["loop"] = @ + n]
    /\ UNCHANGED <<mem, loopSet, connected, alive, inCallback, needClosed, net,
                   tasks, pc, revent, released, gone, fault>>

Destroy ==
    /\ InUserCode /\ MayUse
    /\ tasks = <<>>
    /\ DoDestroy
    /\ released' = TRUE
    /\ UNCHANGED <<loopSet, connected, inCallback, output, net, tasks, pc, revent, fault>>

\* tcp_connection_detach() and, later, tcp_connection_attach() to the same loop:
\* anywhere in the loop thread, the connection's own callbacks included, and also
\* while an event that epoll_wait() has reported for it is still to be handled.
Detach ==
    /\ InUserCode /\ MayUse
    /\ tasks = <<>>
    /\ loopSet' = FALSE
    /\ UNCHANGED <<mem, connected, alive, inCallback, needClosed, mask, output, net,
                   tasks, pc, revent, released, gone, fault>>

Attach ==
    /\ InUserCode
    /\ ~loopSet /\ ~released
    /\ loopSet' = TRUE
    /\ UNCHANGED <<mem, connected, alive, inCallback, needClosed, mask, output, net,
                   tasks, pc, revent, released, gone, fault>>

\* The client's calls: is_connected is read when the call is made.
ClientSend(n) ==
    /\ MayUse /\ connected /\ fault = "none"
    /\ sent["client"] + n <= MaxBytes
    /\ Len(tasks) < MaxTasks
    /\ tasks' = Append(tasks, [op |-> "send", data |-> NextBytes("client", n)])
    /\ sent' = [sent EXCEPT !["client"] = @ + n]
    /\ UNCHANGED <<object, outBuffer, wire, room, net, pc, revent, released, gone, fault>>

ClientDestroy ==
    /\ MayUse /\ fault = "none"
    /\ Len(tasks) < MaxTasks
    /\ tasks' = Append(tasks, [op |-> "destroy", data |-> <<>>])
    /\ released' = TRUE
    /\ UNCHANGED <<object, output, net, pc, revent, gone, fault>>

\* A task of the client's runs.
RunTask ==
    /\ InOtherCallback
    /\ tasks # <<>>
    /\ tasks' = Tail(tasks)
    /\ IF mem = "freed"
         THEN /\ fault' = "a task used a freed connection"
              /\ UNCHANGED <<object, output, gone>>
         ELSE /\ IF Head(tasks).op = "send"
                   THEN /\ SendInLoop(Head(tasks).data)
                        /\ UNCHANGED <<mem, alive, needClosed, gone>>
                   ELSE DoDestroy /\ UNCHANGED <<outBuffer, wire, room>>
              /\ UNCHANGED <<loopSet, connected, inCallback, sent, fault>>
    /\ UNCHANGED <<net, pc, revent, released>>

User == \/ \E n \in Sizes : Send(n) \/ ClientSend(n)
        \/ Destroy
        \/ Detach
        \/ Attach
        \/ ClientDestroy

-----------------------------------------------------------------------------
(***************************************************************************)
(* The loop thread and connection_onevent(): "poll"; "user" and "done" for *)
(* the other callbacks, tasks and timers before and after this connection's*)
(* turn; "in" and "out" for the two parts of connection_onevent with its   *)
(* callbacks "datacb" and "closecb" in between, or "hup"; "finish" for its *)
(* last test of is_alive; and "aborted" when an assertion has failed.      *)
(***************************************************************************)
\* What epoll_wait() may report: hang-up always, the rest as watched.
Ready == IF mem = "freed" \/ ~loopSet \/ mask = {} THEN {}
         ELSE IF peer = "rst" THEN {"HUP"}
         ELSE {e \in mask : (e = "IN" => readable \/ peer = "fin") /\ (e = "OUT" => room > 0)}

Poll ==
    /\ pc = "poll"
    /\ revent' = Ready
    /\ pc' = "user"
    /\ UNCHANGED <<object, output, net, tasks, released, gone, fault>>

\* The connection's turn in the batch; the channel of a deleted connection is
\* skipped (channel_onevent).
Dispatch ==
    /\ pc = "user" /\ fault = "none"
    /\ pc' = IF revent = {} \/ mem = "freed" THEN "poll"
             ELSE IF revent = {"HUP"} THEN "hup" ELSE "in"
    /\ revent' = IF mem = "freed" THEN {} ELSE revent
    /\ UNCHANGED <<object, output, net, tasks, released, gone, fault>>

CloseCallback == /\ connected' = FALSE
                 /\ inCallback' = TRUE
                 /\ pc' = "closecb"

\* EPOLLHUP: a connection that only lives on to write its output is given up.
MutantHup ==
    /\ pc = "hup"
    /\ CloseCallback /\ UNCHANGED alive
    /\ UNCHANGED <<mem, loopSet, needClosed, mask, output, net, tasks, revent,
                   released, gone, fault>>

Hup ==
    /\ pc = "hup"
    /\ IF needClosed
         THEN /\ alive' = FALSE
              /\ pc' = "finish"
              /\ UNCHANGED <<connected, inCallback>>
         ELSE CloseCallback /\ UNCHANGED alive
    /\ UNCHANGED <<mem, loopSet, needClosed, mask, output, net, tasks, revent,
                   released, gone, fault>>

\* EPOLLIN: one read, and the callback for what it returned; a failed read (the
\* connection was reset meanwhile) is ignored.
In ==
    /\ pc = "in"
    /\ readable' = (readable /\ "IN" \notin revent)
    /\ CASE "IN" \notin revent \/ needClosed \/ peer = "rst" ->
              pc' = "out" /\ UNCHANGED <<connected, inCallback>>
         [] "IN" \in revent /\ ~needClosed /\ peer # "rst" /\ readable ->
              pc' = "datacb" /\ inCallback' = TRUE /\ UNCHANGED connected
         [] OTHER -> CloseCallback
    /\ UNCHANGED <<mem, loopSet, alive, needClosed, mask, output, peer, tasks, revent,
                   released, gone, fault>>

\* A callback of the connection returns.
CallbackReturn ==
    /\ pc \in {"datacb", "closecb"} /\ fault = "none"
    /\ IF mem = "freed"
         THEN /\ fault' = "returned into a freed connection"
              /\ UNCHANGED <<inCallback, pc>>
         ELSE /\ inCallback' = FALSE
              /\ pc' = IF revent = {"HUP"} THEN "finish" ELSE "out"
              /\ UNCHANGED fault
    /\ UNCHANGED <<mem, loopSet, connected, alive, needClosed, mask, output, net,
                   tasks, revent, released, gone>>

\* EPOLLOUT: write what is buffered.  A write error returns from
\* connection_onevent at once, past the test of is_alive.  When the last byte is
\* written to a connection that was detached since epoll_wait(), the assertion in
\* channel_clearevent() that the channel has a loop ends the program there.
AssertionFails == /\ "OUT" \in revent /\ peer # "rst"
                  /\ ~loopSet /\ "OUT" \in mask /\ room >= Len(outBuffer)

Out ==
    /\ pc = "out"
    /\ LET n == Min({room, Len(outBuffer)}) IN
         CASE "OUT" \notin revent ->
                pc' = "finish" /\ UNCHANGED <<outBuffer, wire, room, mask, alive>>
           [] "OUT" \in revent /\ peer = "rst" ->
                pc' = "done" /\ UNCHANGED <<outBuffer, wire, room, mask, alive>>
           [] AssertionFails ->
                pc' = "aborted" /\ UNCHANGED <<outBuffer, wire, room, mask, alive>>
           [] "OUT" \in revent /\ peer # "rst" /\ ~AssertionFails ->
                /\ wire' = wire \o SubSeq(outBuffer, 1, n)
                /\ outBuffer' = SubSeq(outBuffer, n + 1, Len(outBuffer))
                /\ room' = room - n
                /\ mask' = IF outBuffer' = <<>> THEN mask \ {"OUT"} ELSE mask
                /\ alive' = (alive /\ ~(needClosed /\ outBuffer' = <<>>))
                /\ pc' = "finish"
    /\ UNCHANGED <<mem, loopSet, connected, inCallback, needClosed, sent, net, tasks,
                   revent, released, gone, fault>>

Finish ==
    /\ pc = "finish"
    /\ IF alive THEN UNCHANGED <<mem, mask, alive, needClosed>> ELSE Delete
    /\ pc' = "done"
    /\ UNCHANGED <<loopSet, connected, inCallback, output, net, tasks, revent,
                   released, gone, fault>>

Done ==
    /\ pc = "done" /\ fault = "none"
    /\ pc' = "poll"
    /\ revent' = {}
    /\ UNCHANGED <<object, output, net, tasks, released, gone, fault>>

LoopStep == RunTask \/ Poll \/ Dispatch \/ Hup \/ In \/ CallbackReturn \/ Out \/ Finish \/ Done

-----------------------------------------------------------------------------
(***************************************************************************)
(* The peer and the kernel.                                                *)
(***************************************************************************)
PeerSends == /\ mem = "open" /\ peer = "up" /\ ~readable
             /\ readable' = TRUE
             /\ UNCHANGED <<object, output, peer, tasks, pc, revent, released, gone, fault>>

PeerCloses == /\ mem = "open" /\ peer = "up"
              /\ peer' = "fin"
              /\ UNCHANGED <<object, output, readable, tasks, pc, revent, released, gone, fault>>

PeerResets == /\ mem = "open" /\ peer # "rst"
              /\ peer' = "rst"
              /\ UNCHANGED <<object, output, readable, tasks, pc, revent, released, gone, fault>>

\* The kernel gets rid of what it holds.
PeerReads == /\ mem = "open" /\ peer # "rst" /\ room < SockBuf
             /\ room' = SockBuf
             /\ UNCHANGED <<object, outBuffer, sent, wire, net, tasks, pc, revent,
                            released, gone, fault>>

Net == PeerSends \/ PeerCloses \/ PeerResets \/ PeerReads

Next == User \/ LoopStep \/ Net

Spec == Init /\ [][Next]_vars

\* The loop thread goes on, it runs the tasks in its queue (EventLoop's
\* WaitingTasksRun) and the kernel's buffer is emptied in the end; users need
\* not do anything and the peer need neither send nor close.
FairSpec == Spec /\ WF_vars(LoopStep) /\ SF_vars(RunTask) /\ WF_vars(PeerReads)

-----------------------------------------------------------------------------
\* Type invariant.
TypeOK ==
    /\ mem \in {"open", "freed"}
    /\ {loopSet, connected, alive, inCallback, needClosed, readable,
        released, gone} \subseteq BOOLEAN
    /\ mask \subseteq {"IN", "OUT"}
    /\ outBuffer \in Seq(Sender \X (1 .. MaxBytes))
    /\ wire \in Seq(Sender \X (1 .. MaxBytes))
    /\ sent \in [Sender -> 0 .. MaxBytes]
    /\ room \in 0 .. SockBuf
    /\ peer \in {"up", "fin", "rst"}
    /\ tasks \in Seq([op : {"send", "destroy"}, data : Seq(Sender \X (1 .. MaxBytes))])
    /\ pc \in {"poll", "user", "hup", "in", "datacb", "closecb", "out", "finish", "done",
              "aborted"}
    /\ inCallback <=> pc \in {"datacb", "closecb"}
    /\ revent \subseteq {"IN", "OUT", "HUP"}

\* No callback or task runs into a connection that has been freed; with the type
\* invariant.
NoFault == TypeOK /\ fault = "none"

\* The stream: the kernel gets each sender's bytes in the order in which they were
\* sent, none twice and none skipped (a byte's number is how many of its sender's
\* bytes stand up to it), and as long as the connection is whole every byte is with
\* the kernel, in the output buffer or, a client's, in the task queue, whose sends go
\* on where the output stops.
UpTo(n, who, bytes) == Cardinality({i \in 1 .. n : bytes[i][1] = who})

InOrder(bytes) == \A i \in DOMAIN bytes : bytes[i][2] = UpTo(i, bytes[i][1], bytes)

Stream == wire \o outBuffer

Taken(who) == UpTo(Len(Stream), who, Stream)

\* The data of the tasks in this queue numbers the client's bytes on, after the first
\* from of them and up to the last.
Continue(queue, from, last) ==
    \E before \in [1 .. Len(queue) + 1 -> 0 .. MaxBytes] :
        /\ before[1] = from
        /\ before[Len(queue) + 1] = last
        /\ \A i \in DOMAIN queue :
              /\ before[i + 1] = before[i] + Len(queue[i].data)
              /\ \A j \in DOMAIN queue[i].data : queue[i].data[j] = <<"client", before[i] + j>>

StreamInOrder ==
    /\ InOrder(wire)
    /\ mem = "open" /\ peer # "rst" => /\ InOrder(Stream)
                                       /\ Taken("loop") = sent["loop"]
                                       /\ Continue(tasks, Taken("client"), sent["client"])

\* EPOLLOUT is watched exactly while there is output to write: no busy loop on a
\* writable socket, and no output left behind.
PendingIsWatched ==
    mem = "open" => (("OUT" \in mask) <=> (outBuffer # <<>>))

\* tcp_connection_destroy() does not cut off what was sent before it, unless the
\* connection was lost or its close had been reported.
DestroyFlushes ==
    mem = "freed" /\ connected /\ peer # "rst" =>
        Len(wire) = sent["loop"] + sent["client"]

\* A destroyed connection is freed in the end, its pending output written or lost.
DestroyedIsFreed == released ~> (mem = "freed")

\* After tcp_connection_destroy() has run the user is not called back: that is why
\* connection_onevent tests need_closed_after_sent_done.  It does not hold: a write
\* that fails leaves connection_onevent before it tests is_alive.
EntersCallback == pc \notin {"datacb", "closecb"} /\ pc' \in {"datacb", "closecb"}

NoCallbackAfterDestroy == [][EntersCallback => ~gone]_vars

\* The same for a connection kept only to write its output.
NoCallbackWhileDraining == [][EntersCallback => ~needClosed]_vars
=============================================================================
