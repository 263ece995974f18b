---------------------------- MODULE RtpPeerPool -----------------------------
(***************************************************************************)
(* RTP peers, rtp/rtp_peer.c: pairs of UDP peers on adjacent ports.  The   *)
(* pairs are handed out by a bitmap that threads claim an index of with a  *)
(* compare-and-swap; the sockets, opened after the claim and closed by     *)
(* tasks of the loop, come and go apart from it.  Composes module UdpPeer. *)
(***************************************************************************)
EXTENDS UdpPeer

CONSTANT PairCount  \* g_rtp_peer_pool.peer_count

ASSUME PortsAssumption == PairCount \in Nat \ {0} /\ Port = 0 .. 2 * PairCount - 1

VARIABLES bitmap, \* peer_bitmap
          job,    \* per thread, where it is in rtp_peer_alloc() or rtp_peer_free()
          pairs   \* struct rtp_peer: those handed out and not yet given back

poolVars == <<bitmap, job, pairs>>
vars == <<peers, tasks, sending, handler, destroyed, fault, bitmap, job, pairs>>

Index == 0 .. PairCount - 1

Idle == [pc |-> "idle", index |-> 0, rtp |-> None, rtcp |-> None]

\* rtp_peer_pool_init()
Init == /\ UdpInit
        /\ bitmap = [i \in Index |-> 0]
        /\ job = [th \in Thread |-> Idle]
        /\ pairs = {}

-----------------------------------------------------------------------------
\* The thread is at its own disposal: a client between two calls, or the loop
\* thread in any callback.
Free(th) == /\ ~fault /\ job[th] = Idle
            /\ th \in Client => sending[th] = None

At(th, pc) == ~fault /\ job[th].pc = pc

Goto(th, pc) == job' = [job EXCEPT ![th].pc = pc]

NextIndex(th) == job' = [job EXCEPT ![th] = [Idle EXCEPT !.pc = "claim", !.index = job[th].index + 1]]

\* rtp_peer_alloc() is called.
AllocStart(th) ==
    /\ Free(th)
    /\ Goto(th, "claim")
    /\ UNCHANGED <<udpVars, bitmap, pairs>>

\* The compare-and-swap on the next bit.
Claim(th) ==
    /\ At(th, "claim")
    /\ job[th].index < PairCount
    /\ IF bitmap[job[th].index] = 0
         THEN /\ bitmap' = [bitmap EXCEPT ![job[th].index] = 1]
              /\ Goto(th, "rtp")
         ELSE /\ NextIndex(th)
              /\ UNCHANGED bitmap
    /\ UNCHANGED <<udpVars, pairs>>

\* No pair could be had: NULL is returned.
AllocFails(th) ==
    /\ At(th, "claim")
    /\ job[th].index = PairCount
    /\ job' = [job EXCEPT ![th] = Idle]
    /\ UNCHANGED <<udpVars, bitmap, pairs>>

\* The rtp socket is opened ...
OpenRtp(th, writecb) ==
    /\ At(th, "rtp")
    /\ New(th, 2 * job[th].index, writecb)
    /\ job' = [job EXCEPT ![th].pc = "rtcp", ![th].rtp = FreshPeer]
    /\ UNCHANGED <<bitmap, pairs>>

\* The claim is kept when the port cannot be had.
MutantRtpFails(th) ==
    /\ At(th, "rtp")
    /\ NextIndex(th)
    /\ UNCHANGED <<udpVars, bitmap, pairs>>

\* ... or cannot be: the port is another program's, or still that of a peer whose
\* destruction is on its way.
RtpFails(th) ==
    /\ At(th, "rtp")
    /\ bitmap' = [bitmap EXCEPT ![job[th].index] = 0]
    /\ NextIndex(th)
    /\ UNCHANGED <<udpVars, pairs>>

\* The rtcp socket is opened, and the pair is returned ...
OpenRtcp(th, writecb) ==
    /\ At(th, "rtcp")
    /\ New(th, 2 * job[th].index + 1, writecb)
    /\ pairs' = pairs \cup {[index |-> job[th].index, rtp |-> job[th].rtp, rtcp |-> FreshPeer]}
    /\ job' = [job EXCEPT ![th] = Idle]
    /\ UNCHANGED bitmap

\* ... or cannot be: the rtp peer is destroyed,
RtcpFails(th) ==
    /\ At(th, "rtcp")
    /\ DestroyPeer(th, job[th].rtp)
    /\ job' = [job EXCEPT ![th].pc = "giveback", ![th].rtp = None]
    /\ UNCHANGED <<bitmap, pairs>>

\* and the bit cleared.
GiveBack(th) ==
    /\ At(th, "giveback")
    /\ bitmap' = [bitmap EXCEPT ![job[th].index] = 0]
    /\ NextIndex(th)
    /\ UNCHANGED <<udpVars, pairs>>

-----------------------------------------------------------------------------
\* rtp_peer_free(), by any thread: the rtp peer is destroyed,
FreeStart(th, pair) ==
    /\ Free(th)
    /\ th = Loop => UsableInLoop(pair.rtcp) /\ (InCallbackOf(pair.rtcp) => Careless)
    /\ DestroyPeer(th, pair.rtp)
    /\ pairs' = pairs \ {pair}
    /\ job' = [job EXCEPT ![th] = [pc |-> "freeRtcp", index |-> pair.index,
                                   rtp |-> None, rtcp |-> pair.rtcp]]
    /\ UNCHANGED bitmap

\* the rtcp peer,
FreeRtcp(th) ==
    /\ At(th, "freeRtcp")
    /\ DestroyPeer(th, job[th].rtcp)
    /\ job' = [job EXCEPT ![th].pc = "freeBit", ![th].rtcp = None]
    /\ UNCHANGED <<bitmap, pairs>>

\* and the bit is cleared.
FreeBit(th) ==
    /\ At(th, "freeBit")
    /\ bitmap' = [bitmap EXCEPT ![job[th].index] = 0]
    /\ job' = [job EXCEPT ![th] = Idle]
    /\ UNCHANGED <<udpVars, pairs>>

-----------------------------------------------------------------------------
\* A thread goes on with its call.
Continue(th) == \/ Claim(th)
                \/ AllocFails(th)
                \/ \E writecb \in BOOLEAN : OpenRtp(th, writecb) \/ OpenRtcp(th, writecb)
                \/ RtpFails(th)
                \/ RtcpFails(th)
                \/ GiveBack(th)
                \/ FreeRtcp(th)
                \/ FreeBit(th)

\* Users call.
Call(th) == AllocStart(th) \/ \E pair \in pairs : FreeStart(th, pair)

Requests == {"onmessage", "onwrite"}

Request == \E p \in Peer, op \in Requests, cb \in BOOLEAN :
              \/ /\ Free(Loop)
                 /\ LoopRequest(p, op, cb)
              \/ \E c \in Client : /\ Free(c)
                                   /\ ClientRequest(c, p, op, cb)

LoopStep(A) == Free(Loop) /\ A /\ UNCHANGED poolVars

Next == \/ \E th \in Thread : Call(th) \/ Continue(th)
        \/ Request /\ UNCHANGED poolVars
        \/ \E c \in Client : ClientAppend(c) /\ UNCHANGED poolVars
        \/ \E p \in Peer, events \in Events : LoopStep(Event(p, events))
        \/ LoopStep(RunTask)
        \/ LoopStep(WriteReturn)
        \/ LoopStep(MessageReturn)

Spec == Init /\ [][Next]_vars

-----------------------------------------------------------------------------
Pcs == {"idle", "claim", "rtp", "rtcp", "giveback", "freeRtcp", "freeBit"}

\* Type invariant.
TypeOK ==
    /\ UdpTypeOK
    /\ bitmap \in [Index -> {0, 1}]
    /\ job \in [Thread -> [pc : Pcs, index : 0 .. PairCount,
                           rtp : Peer \cup {None}, rtcp : Peer \cup {None}]]
    /\ pairs \subseteq [index : Index, rtp : Peer, rtcp : Peer]

\* A bit is set exactly while one owner has the index: a pair handed out, or a
\* thread that is opening or closing one.  Every UDP peer that has not been
\* destroyed belongs to one owner, on its port, and is there to be used.  With the
\* type invariant.
Working == {"rtp", "rtcp", "giveback", "freeRtcp", "freeBit"}

Owners(i) == Cardinality({pair \in pairs : pair.index = i})
             + Cardinality({th \in Thread : job[th].pc \in Working /\ job[th].index = i})

PeerOwners(p) == Cardinality({pair \in pairs : p \in {pair.rtp, pair.rtcp}})
                 + Cardinality({th \in Thread : p \in {job[th].rtp, job[th].rtcp}})

OwnedOnce ==
    /\ TypeOK
    /\ \A i \in Index : Owners(i) = bitmap[i]
    /\ \A p \in Peer : PeerOwners(p) = IF peers[p].mem # "unused" /\ p \notin destroyed THEN 1 ELSE 0
    /\ \A pair \in pairs : /\ Live(pair.rtp) /\ peers[pair.rtp].port = 2 * pair.index
                           /\ Live(pair.rtcp) /\ peers[pair.rtcp].port = 2 * pair.index + 1
=============================================================================
