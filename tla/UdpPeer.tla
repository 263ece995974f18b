------------------------------ MODULE UdpPeer -------------------------------
(***************************************************************************)
(* UDP peers, linux/net/udp_peer.c.  A peer is used by the loop thread and *)
(* by client threads: onmessage, onwrite and destroy of a client become    *)
(* tasks of the loop, those of the loop thread are carried out at once     *)
(* (loop_run_inloop; its queue is the first-in first-out one that module   *)
(* EventLoop implements).  A reference count keeps the peer for the tasks  *)
(* on their way; whoever takes it from one to zero frees the peer.         *)
(*                                                                         *)
(* A step that uses a freed peer or calls through a null pointer sets      *)
(* fault, and nothing follows it.                                          *)
(***************************************************************************)
EXTENDS Naturals, FiniteSets, Sequences

CONSTANTS Peer,      \* peers' memory, each allocated at most once
          Port,
          Client,    \* client threads
          Loop,      \* the loop thread
          None,
          MaxTasks,  \* bound: tasks in the queue when another is submitted
          MaxChunks, \* bound: datagrams taken in by one event
          Careless   \* users also destroy a peer, or clear its message callback,
                     \* in its own callbacks, and use one on the loop thread
                     \* before the queued init_udp_peer_event has run

Task == [op : {"init", "onmessage", "onwrite", "destroy"}, peer : Peer, cb : BOOLEAN]

ASSUME ThreadsAssumption == Loop \notin Client
ASSUME NoneAssumption == None \notin Peer /\ None \notin Task
ASSUME UdpBoundsAssumption == MaxTasks \in Nat \ {0} /\ MaxChunks \in Nat \ {0}
ASSUME CarelessAssumption == Careless \in BOOLEAN

VARIABLES peers,     \* struct udp_peer, per peer
          tasks,     \* the loop's task queue
          sending,   \* per client, the request between its atomic_inc and its append
          handler,   \* the udp_peer_onevent() in progress, or None
          destroyed, \* peers that udp_peer_destroy() has been called on
          fault

udpVars == <<peers, tasks, sending, handler, destroyed, fault>>

NoPeer == [mem |-> "unused", port |-> None, ref |-> 0, messagecb |-> FALSE,
           writecb |-> FALSE, interest |-> {}]

UdpInit == /\ peers = [p \in Peer |-> NoPeer]
           /\ tasks = <<>>
           /\ sending = [c \in Client |-> None]
           /\ handler = None
           /\ destroyed = {}
           /\ fault = FALSE

Thread == Client \cup {Loop}

Live(p) == peers[p].mem = "live"

-----------------------------------------------------------------------------
(***************************************************************************)
(* What the functions that run on the loop thread do to a peer r.          *)
(***************************************************************************)
\* delete_udp_peer(): the channel is detached and the socket closed.
Deleted == [NoPeer EXCEPT !.mem = "freed"]

\* init_udp_peer_event()
InitEvent(r) == [r EXCEPT !.interest = @ \cup {"in"} \cup IF r.writecb THEN {"out"} ELSE {}]

Watch(r, event, on) == [r EXCEPT !.interest = IF on THEN @ \cup {event} ELSE @ \ {event}]

\* do_udp_peer_onmessage() and do_udp_peer_onwrite(); cb tells whether there is a
\* callback to set.
DoRequest(r, op, cb) ==
    LET s == IF op = "onmessage" THEN [r EXCEPT !.messagecb = cb] ELSE [r EXCEPT !.writecb = cb]
    IN  IF r.ref > 1
          THEN [Watch(s, IF op = "onmessage" THEN "in" ELSE "out", cb) EXCEPT !.ref = @ - 1]
          ELSE Deleted

\* A destroy that frees whatever the count.
MutantDoDestroy(r) == Deleted

\* do_udp_peer_destroy()
DoDestroy(r) == IF r.ref = 1 THEN Deleted ELSE [r EXCEPT !.ref = @ - 1]

-----------------------------------------------------------------------------
(***************************************************************************)
(* The interface.                                                          *)
(***************************************************************************)
InitQueued(p) == \E i \in DOMAIN tasks : tasks[i].op = "init" /\ tasks[i].peer = p

\* The loop thread may use p: it is initialised, unless users are careless.
UsableInLoop(p) == InitQueued(p) => Careless

InCallbackOf(p) == handler # None /\ handler.peer = p

Room == Len(tasks) < MaxTasks

\* bind() in create_udp_socket(): one socket per port.
PortFree(port) == \A p \in Peer : Live(p) => peers[p].port # port

\* The peer malloc() returns.
FreshPeer == CHOOSE p \in Peer : peers[p].mem = "unused"

\* udp_peer_new(), by thread th, when the socket can be had; events on writing are
\* watched when writecb says so.
New(th, port, writecb) ==
    /\ \E p \in Peer : peers[p].mem = "unused"
    /\ PortFree(port)
    /\ LET p == FreshPeer
           r == [NoPeer EXCEPT !.mem = "live", !.port = port, !.ref = 1, !.messagecb = TRUE,
                               !.writecb = writecb]
       IN  IF th = Loop
             THEN /\ peers' = [peers EXCEPT ![p] = InitEvent(r)]
                  /\ UNCHANGED tasks
             ELSE /\ Room
                  /\ peers' = [peers EXCEPT ![p] = r]
                  /\ tasks' = Append(tasks, [op |-> "init", peer |-> p, cb |-> TRUE])
    /\ UNCHANGED <<sending, handler, destroyed, fault>>

\* udp_peer_destroy(), by thread th
DestroyPeer(th, p) ==
    /\ IF th = Loop
         THEN /\ UsableInLoop(p)
              /\ InCallbackOf(p) => Careless
              /\ peers' = IF Live(p) THEN [peers EXCEPT ![p] = DoDestroy(@)] ELSE peers
              /\ UNCHANGED tasks
         ELSE /\ Room
              /\ tasks' = Append(tasks, [op |-> "destroy", peer |-> p, cb |-> TRUE])
              /\ UNCHANGED peers
    /\ fault' = ~Live(p)
    /\ destroyed' = destroyed \cup {p}
    /\ UNCHANGED <<sending, handler>>

\* udp_peer_onmessage() and udp_peer_onwrite() on the loop thread
LoopRequest(p, op, cb) ==
    /\ ~fault /\ Live(p) /\ p \notin destroyed /\ UsableInLoop(p)
    /\ InCallbackOf(p) /\ handler.at = "message" /\ op = "onmessage" /\ ~cb => Careless
    /\ peers' = [peers EXCEPT ![p] = DoRequest([@ EXCEPT !.ref = peers[p].ref + 1], op, cb)]
    /\ UNCHANGED <<tasks, sending, handler, destroyed, fault>>

\* A request that does not hold on to the peer while it is on its way.
MutantClientRequest(c, p, op, cb) ==
    /\ ~fault /\ Live(p) /\ p \notin destroyed
    /\ sending[c] = None /\ Room
    /\ sending' = [sending EXCEPT ![c] = [op |-> op, peer |-> p, cb |-> cb]]
    /\ UNCHANGED <<peers, tasks, handler, destroyed, fault>>

\* The same by a client thread: atomic_inc() ...
ClientRequest(c, p, op, cb) ==
    /\ ~fault /\ Live(p) /\ p \notin destroyed
    /\ sending[c] = None /\ Room
    /\ peers' = [peers EXCEPT ![p].ref = @ + 1]
    /\ sending' = [sending EXCEPT ![c] = [op |-> op, peer |-> p, cb |-> cb]]
    /\ UNCHANGED <<tasks, handler, destroyed, fault>>

\* ... and loop_run_inloop().  The loop may destroy the peer in between.
ClientAppend(c) ==
    /\ ~fault /\ sending[c] # None
    /\ tasks' = Append(tasks, sending[c])
    /\ sending' = [sending EXCEPT ![c] = None]
    /\ UNCHANGED <<peers, handler, destroyed, fault>>

-----------------------------------------------------------------------------
(***************************************************************************)
(* The loop thread.                                                        *)
(***************************************************************************)
\* The next task runs.
RunTask ==
    /\ ~fault /\ handler = None /\ tasks # <<>>
    /\ tasks' = Tail(tasks)
    /\ LET t == Head(tasks) IN
       IF Live(t.peer)
         THEN /\ peers' = [peers EXCEPT ![t.peer] =
                              CASE t.op = "init"    -> InitEvent(@)
                                [] t.op = "destroy" -> DoDestroy(@)
                                [] OTHER            -> DoRequest(@, t.op, t.cb)]
              /\ UNCHANGED fault
         ELSE /\ fault' = TRUE
              /\ UNCHANGED peers
    /\ UNCHANGED <<sending, handler, destroyed>>

\* udp_peer_onevent() takes in what has arrived (nothing, when another reader or
\* a bad checksum took it) and calls back for the first datagram; without a message
\* callback everything is dropped.
Receive(p) ==
    IF Live(p)
      THEN /\ handler' \in {None} \cup
                 (IF peers[p].messagecb
                    THEN {[peer |-> p, at |-> "message", in |-> TRUE, left |-> n] : n \in 1 .. MaxChunks}
                    ELSE {})
           /\ UNCHANGED fault
      ELSE /\ fault' = TRUE
           /\ UNCHANGED handler

\* epoll reports events of p.
Event(p, events) ==
    /\ ~fault /\ handler = None
    /\ events \subseteq peers[p].interest /\ events # {}
    /\ IF "out" \in events /\ peers[p].writecb
         THEN /\ handler' = [peer |-> p, at |-> "write", in |-> "in" \in events, left |-> 0]
              /\ UNCHANGED fault
         ELSE IF "in" \in events THEN Receive(p) ELSE UNCHANGED <<handler, fault>>
    /\ UNCHANGED <<peers, tasks, sending, destroyed>>

\* The write callback returns.
WriteReturn ==
    /\ ~fault /\ handler # None /\ handler.at = "write"
    /\ IF handler.in THEN Receive(handler.peer)
                     ELSE /\ handler' = None
                          /\ UNCHANGED fault
    /\ UNCHANGED <<peers, tasks, sending, destroyed>>

\* A message callback returns, and the next datagram's is called.
MessageReturn ==
    /\ ~fault /\ handler # None /\ handler.at = "message"
    /\ LET r == peers[handler.peer] IN
       IF r.mem # "live" \/ (handler.left > 1 /\ ~r.messagecb)
         THEN /\ fault' = TRUE
              /\ UNCHANGED handler
         ELSE /\ handler' = IF handler.left > 1 THEN [handler EXCEPT !.left = @ - 1] ELSE None
              /\ UNCHANGED fault
    /\ UNCHANGED <<peers, tasks, sending, destroyed>>

-----------------------------------------------------------------------------
Events == SUBSET {"in", "out"}

\* Type invariant.
UdpTypeOK ==
    /\ \A p \in Peer : /\ peers[p].mem \in {"unused", "live", "freed"}
                       /\ peers[p].port \in Port \cup {None}
                       /\ peers[p].ref \in Nat
                       /\ {peers[p].messagecb, peers[p].writecb} \subseteq BOOLEAN
                       /\ peers[p].interest \in Events
    /\ tasks \in Seq(Task)
    /\ \A c \in Client : sending[c] = None \/ sending[c] \in Task
    /\ handler = None \/ handler \in [peer : Peer, at : {"write", "message"},
                                      in : BOOLEAN, left : 0 .. MaxChunks]
    /\ destroyed \subseteq Peer
    /\ fault \in BOOLEAN

\* No step uses a freed peer, whatever is on its way when it is destroyed, and none
\* calls a message callback that has been cleared.
NoFault == ~fault

\* ref_count is the number of those who may still use the peer: its owner, or the
\* destroy on its way, and the requests on theirs.  Nobody frees a peer another
\* holds, and none is kept that nobody holds.
Queued(p, ops) == Cardinality({i \in DOMAIN tasks : tasks[i].peer = p /\ tasks[i].op \in ops})

Holders(p) == (IF p \in destroyed THEN Queued(p, {"destroy"}) ELSE 1)
              + Queued(p, {"onmessage", "onwrite"})
              + Cardinality({c \in Client : sending[c] # None /\ sending[c].peer = p})

RefCountsHolders ==
    \A p \in Peer : /\ Live(p) => peers[p].ref = Holders(p) /\ Holders(p) > 0
                    /\ peers[p].mem = "freed" => Holders(p) = 0
=============================================================================
