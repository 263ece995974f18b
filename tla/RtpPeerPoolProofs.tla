------------------------- MODULE RtpPeerPoolProofs --------------------------
(***************************************************************************)
(* Theorems about UDP peers and the pool of RTP peers built from them, for *)
(* any number of peers, ports, client threads and tasks on their way: no   *)
(* step uses a freed peer, the reference count is the number of those who  *)
(* may still use the peer, and bit, port and peers of a pair have one      *)
(* owner.                                                                  *)
(*                                                                         *)
(* They are about users who do not destroy a peer or clear its message     *)
(* callback in its own callbacks, and do not use one on the loop thread    *)
(* before its queued initialisation (Careless = FALSE).                    *)
(***************************************************************************)
EXTENDS RtpPeerPool, FiniteSetTheorems, SequenceTheorems, TLAPS

-----------------------------------------------------------------------------
(***************************************************************************)
(* The inductive invariant: the peers.                                     *)
(***************************************************************************)
PeerType == [mem : {"unused", "live", "freed"}, port : Port \cup {None}, ref : Nat,
             messagecb : BOOLEAN, writecb : BOOLEAN, interest : Events]

HandlerType == [peer : Peer, at : {"write", "message"}, in : BOOLEAN, left : 0 .. MaxChunks]

\* The clients between the atomic_inc and the append of a request for p.
Askers(p) == {c \in Client : sending[c] # None /\ sending[c].peer = p}

\* UdpTypeOK with the domains of the functions.
UdpTypes == /\ peers \in [Peer -> PeerType]
            /\ tasks \in Seq(Task)
            /\ sending \in [Client -> Task \cup {None}]
            /\ handler \in HandlerType \cup {None}
            /\ destroyed \subseteq Peer
            /\ fault \in BOOLEAN
            /\ \A p \in Peer : IsFiniteSet(Askers(p))

\* Nothing refers to a peer before it is made, and epoll to none that is not there.
Known(p) ==
    /\ peers[p].mem = "unused" => /\ p \notin destroyed
                                  /\ \A i \in DOMAIN tasks : tasks[i].peer # p
                                  /\ Askers(p) = {}
    /\ peers[p].mem # "live" => peers[p].interest = {}

Counted(p) == /\ Live(p) => peers[p].ref = Holders(p) /\ Holders(p) > 0
              /\ peers[p].mem = "freed" => Holders(p) = 0

\* The initialisation of a peer comes before every other task of it, and if it waits
\* when the peer is destroyed, the destroy waits behind it.
Queue ==
    /\ \A i \in DOMAIN tasks : tasks[i].op = "destroy" => tasks[i].peer \in destroyed
    /\ \A i, j \in DOMAIN tasks :
          tasks[i].op = "init" /\ tasks[j].peer = tasks[i].peer => i <= j
    /\ \A i \in DOMAIN tasks :
          tasks[i].op = "init" /\ tasks[i].peer \in destroyed
             => \E j \in DOMAIN tasks : tasks[j].peer = tasks[i].peer /\ tasks[j].op = "destroy"
    /\ \A c \in Client : sending[c] # None => sending[c].op \in Requests

\* The peer whose event is handled stays, and so does the callback that is called.
InCall == handler # None => /\ Live(handler.peer)
                            /\ handler.at = "message" => peers[handler.peer].messagecb

UdpInv == /\ UdpTypes
          /\ ~fault /\ Queue /\ InCall
          /\ \A p \in Peer : Known(p) /\ Counted(p)

-----------------------------------------------------------------------------
(***************************************************************************)
(* The inductive invariant: the pool.                                      *)
(***************************************************************************)
PoolTypes == /\ bitmap \in [Index -> {0, 1}]
             /\ job \in [Thread -> [pc : Pcs, index : 0 .. PairCount,
                                    rtp : Peer \cup {None}, rtcp : Peer \cup {None}]]
             /\ pairs \subseteq [index : Index, rtp : Peer, rtcp : Peer]

Busy(th) == job[th].pc \in Working

\* What a thread holds where.
Shape(th) == /\ (job[th].rtp # None) <=> (job[th].pc = "rtcp")
             /\ (job[th].rtcp # None) <=> (job[th].pc = "freeRtcp")
             /\ Busy(th) => job[th].index \in Index

\* An index has one owner, and its bit says whether it has.
Claims == /\ \A th, uh \in Thread : Busy(th) /\ Busy(uh) /\ job[th].index = job[uh].index => th = uh
          /\ \A a, b \in pairs : a.index = b.index => a = b
          /\ \A th \in Thread, a \in pairs : Busy(th) => job[th].index # a.index
          /\ \A i \in Index :
                (bitmap[i] = 1) <=> (\/ \E a \in pairs : a.index = i
                                     \/ \E th \in Thread : Busy(th) /\ job[th].index = i)

Of(a) == {a.rtp, a.rtcp}

Held(th) == {job[th].rtp, job[th].rtcp}

\* A peer has one owner from its creation to its destruction.
InUse(p) == peers[p].mem # "unused" /\ p \notin destroyed

Owned(p) == /\ InUse(p) <=> (\/ \E a \in pairs : p \in Of(a)
                             \/ \E th \in Thread : p \in Held(th))
            /\ \A a, b \in pairs : p \in Of(a) /\ p \in Of(b) => a = b
            /\ \A th, uh \in Thread : p \in Held(th) /\ p \in Held(uh) => th = uh
            /\ \A th \in Thread, a \in pairs : ~(p \in Held(th) /\ p \in Of(a))

Ports == /\ \A a \in pairs : /\ peers[a.rtp].port = 2 * a.index
                             /\ peers[a.rtcp].port = 2 * a.index + 1
         /\ \A th \in Thread : job[th].pc = "rtcp" => peers[job[th].rtp].port = 2 * job[th].index

PoolInv == /\ PoolTypes
           /\ \A th \in Thread : Shape(th)
           /\ Claims /\ Ports
           /\ \A p \in Peer : Owned(p)

Inv == UdpInv /\ PoolInv

-----------------------------------------------------------------------------
(***************************************************************************)
(* The tasks and the requests that are on their way.                       *)
(***************************************************************************)
Marks(seq, p, ops) == {i \in DOMAIN seq : seq[i].peer = p /\ seq[i].op \in ops}

LEMMA MarksAreFinite ==
    ASSUME NEW seq \in Seq(Task), NEW p, NEW ops
    PROVE  IsFiniteSet(Marks(seq, p, ops)) /\ Cardinality(Marks(seq, p, ops)) \in Nat
<1>1. IsFiniteSet(1 .. Len(seq))
  BY FS_Interval
<1>2. Marks(seq, p, ops) \in SUBSET (1 .. Len(seq))
  BY DEF Marks
<1>3. IsFiniteSet(Marks(seq, p, ops))
  BY <1>1, <1>2, FS_Subset
<1>. QED
  BY <1>3, FS_CardinalityType

LEMMA MarksOfAppend ==
    ASSUME NEW seq \in Seq(Task), NEW t \in Task, NEW p, NEW ops
    PROVE  Cardinality(Marks(Append(seq, t), p, ops)) =
             Cardinality(Marks(seq, p, ops)) + IF t.peer = p /\ t.op \in ops THEN 1 ELSE 0
<1>1. /\ Len(seq) \in Nat /\ DOMAIN seq = 1 .. Len(seq)
      /\ DOMAIN Append(seq, t) = 1 .. Len(seq) + 1
      /\ \A i \in 1 .. Len(seq) : Append(seq, t)[i] = seq[i]
      /\ Append(seq, t)[Len(seq) + 1] = t
  BY AppendProperties
<1>2. Len(seq) + 1 \notin Marks(seq, p, ops)
  BY <1>1 DEF Marks
<1>3. CASE t.peer = p /\ t.op \in ops
  <2>1. Marks(Append(seq, t), p, ops) = Marks(seq, p, ops) \cup {Len(seq) + 1}
    BY <1>1, <1>3 DEF Marks
  <2>2. IsFiniteSet(Marks(seq, p, ops))
    BY MarksAreFinite
  <2>3. Cardinality(Marks(seq, p, ops) \cup {Len(seq) + 1}) = Cardinality(Marks(seq, p, ops)) + 1
    BY <1>2, <2>2, FS_AddElement
  <2>. QED
    BY <1>3, <2>1, <2>3
<1>4. CASE ~(t.peer = p /\ t.op \in ops)
  <2>1. Marks(Append(seq, t), p, ops) = Marks(seq, p, ops)
    BY <1>1, <1>4 DEF Marks
  <2>. QED
    BY <1>4, <2>1, MarksAreFinite
<1>. QED
  BY <1>3, <1>4

LEMMA MarksOfTail ==
    ASSUME NEW seq \in Seq(Task), seq # <<>>, NEW p, NEW ops
    PROVE  Cardinality(Marks(seq, p, ops)) =
             Cardinality(Marks(Tail(seq), p, ops))
             + IF Head(seq).peer = p /\ Head(seq).op \in ops THEN 1 ELSE 0
<1> DEFINE later == Marks(seq, p, ops) \ {1}
           shift == [i \in Marks(Tail(seq), p, ops) |-> i + 1]
<1>1. /\ Len(seq) \in Nat \ {0} /\ DOMAIN seq = 1 .. Len(seq) /\ Head(seq) = seq[1]
      /\ DOMAIN Tail(seq) = 1 .. Len(seq) - 1
      /\ \A i \in 1 .. Len(seq) - 1 : Tail(seq)[i] = seq[i + 1]
      /\ Tail(seq) \in Seq(Task)
  BY HeadTailProperties
<1>2. shift \in Bijection(Marks(Tail(seq), p, ops), later)
  <2>1. \A i \in Marks(Tail(seq), p, ops) : i \in Nat /\ i + 1 \in later
    BY <1>1 DEF Marks
  <2>2. ASSUME NEW j \in later
        PROVE  \E i \in Marks(Tail(seq), p, ops) : shift[i] = j
    <3>1. j \in 2 .. Len(seq) /\ seq[j].peer = p /\ seq[j].op \in ops
      BY <1>1, <2>2 DEF Marks
    <3>2. j - 1 \in 1 .. Len(seq) - 1 /\ (j - 1) + 1 = j
      BY <1>1, <3>1
    <3>3. j - 1 \in Marks(Tail(seq), p, ops)
      BY <1>1, <3>1, <3>2 DEF Marks
    <3>. QED
      BY <3>2, <3>3
  <2>3. \A i, j \in Marks(Tail(seq), p, ops) : shift[i] = shift[j] => i = j
    BY <2>1
  <2>4. shift \in [Marks(Tail(seq), p, ops) -> later]
    BY <2>1
  <2> HIDE DEF shift, later
  <2>. QED
    BY <2>2, <2>3, <2>4 DEF Bijection, Injection, Surjection, IsInjective
<1>3. Cardinality(later) = Cardinality(Marks(Tail(seq), p, ops))
  <2> HIDE DEF shift, later
  <2>. QED
    BY <1>1, <1>2, MarksAreFinite, FS_Bijection DEF ExistsBijection
<1>4. Cardinality(later) =
        IF 1 \in Marks(seq, p, ops) THEN Cardinality(Marks(seq, p, ops)) - 1
                                    ELSE Cardinality(Marks(seq, p, ops))
  BY MarksAreFinite, FS_RemoveElement
<1>5. 1 \in Marks(seq, p, ops) <=> Head(seq).peer = p /\ Head(seq).op \in ops
  BY <1>1 DEF Marks
<1> HIDE DEF shift, later
<1>. QED
  BY <1>1, <1>3, <1>4, <1>5, MarksAreFinite

LEMMA QueueGrows ==
    ASSUME UdpTypes, NEW t \in Task, tasks' = Append(tasks, t), NEW p, NEW ops
    PROVE  /\ Queued(p, ops) \in Nat
           /\ Queued(p, ops)' = Queued(p, ops) + IF t.peer = p /\ t.op \in ops THEN 1 ELSE 0
<1>1. Queued(p, ops) = Cardinality(Marks(tasks, p, ops))
  BY DEF Queued, Marks
<1>2. Queued(p, ops)' = Cardinality(Marks(Append(tasks, t), p, ops))
  BY DEF Queued, Marks
<1>. QED
  BY <1>1, <1>2, MarksAreFinite, MarksOfAppend DEF UdpTypes

LEMMA QueueShrinks ==
    ASSUME UdpTypes, tasks # <<>>, tasks' = Tail(tasks), NEW p, NEW ops
    PROVE  /\ Queued(p, ops)' \in Nat
           /\ Queued(p, ops) = Queued(p, ops)'
                               + IF Head(tasks).peer = p /\ Head(tasks).op \in ops THEN 1 ELSE 0
<1>1. Queued(p, ops) = Cardinality(Marks(tasks, p, ops))
  BY DEF Queued, Marks
<1>2. Queued(p, ops)' = Cardinality(Marks(Tail(tasks), p, ops))
  BY DEF Queued, Marks
<1>3. tasks \in Seq(Task) /\ Tail(tasks) \in Seq(Task)
  BY HeadTailProperties DEF UdpTypes
<1>4. Cardinality(Marks(Tail(tasks), p, ops)) \in Nat
  BY <1>3, MarksAreFinite
<1>5. Cardinality(Marks(tasks, p, ops)) =
        Cardinality(Marks(Tail(tasks), p, ops))
        + IF Head(tasks).peer = p /\ Head(tasks).op \in ops THEN 1 ELSE 0
  BY <1>3, MarksOfTail
<1>. QED
  BY ONLY <1>1, <1>2, <1>4, <1>5

LEMMA QueuedIsNat ==
    ASSUME UdpTypes, NEW p, NEW ops
    PROVE  Queued(p, ops) \in Nat
<1>1. Queued(p, ops) = Cardinality(Marks(tasks, p, ops))
  BY DEF Queued, Marks
<1>. QED
  BY <1>1, MarksAreFinite DEF UdpTypes

LEMMA CountOfNone ==
    ASSUME NEW S, IsFiniteSet(S)
    PROVE  Cardinality(S) \in Nat /\ (Cardinality(S) = 0 <=> S = {})
BY FS_CardinalityType, FS_EmptySet

\* A waiting task of p is counted.
LEMMA QueuedWhenThere ==
    ASSUME UdpTypes, NEW i \in DOMAIN tasks, NEW p, tasks[i].peer = p,
           NEW ops, tasks[i].op \in ops
    PROVE  Queued(p, ops) > 0
<1>1. Queued(p, ops) = Cardinality(Marks(tasks, p, ops))
  BY DEF Queued, Marks
<1>2. IsFiniteSet(Marks(tasks, p, ops))
  BY MarksAreFinite DEF UdpTypes
<1>3. Marks(tasks, p, ops) # {}
  BY DEF Marks
<1>4. Cardinality(Marks(tasks, p, ops)) \in Nat /\ Cardinality(Marks(tasks, p, ops)) # 0
  BY <1>2, <1>3, CountOfNone
<1>. QED
  BY <1>1, <1>4

LEMMA QueuedNone ==
    ASSUME NEW p, NEW ops, \A i \in DOMAIN tasks : tasks[i].peer = p => tasks[i].op \notin ops
    PROVE  Queued(p, ops) = 0
<1>1. {i \in DOMAIN tasks : tasks[i].peer = p /\ tasks[i].op \in ops} = {}
  OBVIOUS
<1>. QED
  BY <1>1, FS_EmptySet DEF Queued

LEMMA HoldersSum ==
    ASSUME UdpTypes, NEW p \in Peer
    PROVE  /\ Queued(p, {"destroy"}) \in Nat
           /\ Queued(p, {"onmessage", "onwrite"}) \in Nat
           /\ Cardinality(Askers(p)) \in Nat
           /\ p \in destroyed => Holders(p) = Queued(p, {"destroy"})
                                  + Queued(p, {"onmessage", "onwrite"}) + Cardinality(Askers(p))
           /\ p \notin destroyed => Holders(p) = 1
                                  + Queued(p, {"onmessage", "onwrite"}) + Cardinality(Askers(p))
           /\ Holders(p) \in Nat
<1>1. IsFiniteSet(Askers(p))
  BY DEF UdpTypes
<1>2. Cardinality(Askers(p)) \in Nat
  BY <1>1, FS_CardinalityType
<1>3. Queued(p, {"destroy"}) \in Nat /\ Queued(p, {"onmessage", "onwrite"}) \in Nat
  BY QueuedIsNat
<1>4. Holders(p) = (IF p \in destroyed THEN Queued(p, {"destroy"}) ELSE 1)
                   + Queued(p, {"onmessage", "onwrite"}) + Cardinality(Askers(p))
  BY DEF Holders, Askers
<1>. QED
  BY <1>2, <1>3, <1>4

\* While the owner has not destroyed it, a peer that was made is alive.
LEMMA InUseIsLive ==
    ASSUME UdpInv, NEW p \in Peer, InUse(p)
    PROVE  Live(p) /\ peers[p].ref = Holders(p) /\ Holders(p) > 0
<1>1. Holders(p) > 0
  BY HoldersSum DEF UdpInv, InUse
<1>2. peers[p].mem \in {"unused", "live", "freed"}
  BY DEF UdpInv, UdpTypes, PeerType
<1>. QED
  BY <1>1, <1>2 DEF UdpInv, Counted, InUse, Live

\* A task finds its peer alive.
LEMMA TaskPeerIsLive ==
    ASSUME UdpInv, NEW i \in DOMAIN tasks, NEW p \in Peer, tasks[i].peer = p
    PROVE  Live(p) /\ peers[p].ref = Holders(p) /\ Holders(p) > 0
<1>1. tasks[i] \in Task
  BY DEF UdpInv, UdpTypes
<1>2. peers[p].mem # "unused"
  BY DEF UdpInv, Known
<1>3. CASE p \notin destroyed
  BY <1>2, <1>3, InUseIsLive DEF InUse
<1>4. CASE p \in destroyed
  <2>1. Holders(p) > 0
    <3>1. CASE tasks[i].op \in {"onmessage", "onwrite"}
      <4>1. Queued(p, {"onmessage", "onwrite"}) > 0
        BY <3>1, QueuedWhenThere DEF UdpInv
      <4>. QED
        BY <1>4, <4>1, HoldersSum DEF UdpInv
    <3>2. CASE tasks[i].op \in {"init", "destroy"}
      <4>1. PICK j \in DOMAIN tasks : tasks[j].peer = p /\ tasks[j].op = "destroy"
        BY <1>4, <3>2 DEF UdpInv, Queue
      <4>2. Queued(p, {"destroy"}) > 0
        BY <4>1, QueuedWhenThere DEF UdpInv
      <4>. QED
        BY <1>4, <4>2, HoldersSum DEF UdpInv
    <3>. QED
      BY <1>1, <3>1, <3>2 DEF Task
  <2>2. peers[p].mem \in {"unused", "live", "freed"}
    BY DEF UdpInv, UdpTypes, PeerType
  <2>. QED
    BY <1>2, <2>1, <2>2 DEF UdpInv, Counted, Live
<1>. QED
  BY <1>3, <1>4

\* What an append leaves of the queue's order.
LEMMA QueueAfterAppend ==
    ASSUME UdpTypes, Queue, NEW t \in Task, tasks' = Append(tasks, t),
           destroyed \subseteq destroyed',
           \A p \in destroyed' \ destroyed : t.op = "destroy" /\ t.peer = p,
           t.op = "destroy" => t.peer \in destroyed',
           t.op = "init" => t.peer \notin destroyed' /\ \A i \in DOMAIN tasks : tasks[i].peer # t.peer,
           \A c \in Client : sending'[c] # None => sending'[c].op \in Requests
    PROVE  Queue' /\ tasks' \in Seq(Task)
<1>1. /\ Len(tasks) \in Nat /\ DOMAIN tasks = 1 .. Len(tasks)
      /\ tasks' \in Seq(Task)
      /\ DOMAIN tasks' = 1 .. Len(tasks) + 1
      /\ \A i \in 1 .. Len(tasks) : tasks'[i] = tasks[i]
      /\ tasks'[Len(tasks) + 1] = t
  BY AppendProperties DEF UdpTypes
<1>2. \A i \in DOMAIN tasks' : i \in 1 .. Len(tasks) \/ i = Len(tasks) + 1
  BY <1>1
<1>3. \A i \in DOMAIN tasks' : tasks'[i].op = "destroy" => tasks'[i].peer \in destroyed'
  BY <1>1, <1>2 DEF Queue
<1>4. ASSUME NEW i \in DOMAIN tasks', NEW j \in DOMAIN tasks',
             tasks'[i].op = "init", tasks'[j].peer = tasks'[i].peer
      PROVE  i <= j
  <2>1. CASE j = Len(tasks) + 1
    BY <1>1, <1>2, <2>1
  <2>2. CASE j \in 1 .. Len(tasks) /\ i = Len(tasks) + 1
    BY <1>1, <1>4, <2>2
  <2>3. CASE j \in 1 .. Len(tasks) /\ i \in 1 .. Len(tasks)
    BY <1>1, <1>4, <2>3 DEF Queue
  <2>. QED
    BY <1>2, <1>4, <2>1, <2>2, <2>3
<1>5. ASSUME NEW i \in DOMAIN tasks', tasks'[i].op = "init", tasks'[i].peer \in destroyed'
      PROVE  \E j \in DOMAIN tasks' : tasks'[j].peer = tasks'[i].peer /\ tasks'[j].op = "destroy"
  <2>1. i \in 1 .. Len(tasks) /\ tasks'[i] = tasks[i]
    BY <1>1, <1>2, <1>5
  <2>2. CASE tasks[i].peer \in destroyed
    <3>1. PICK j \in DOMAIN tasks : tasks[j].peer = tasks[i].peer /\ tasks[j].op = "destroy"
      BY <1>1, <1>5, <2>1, <2>2 DEF Queue
    <3>. QED
      BY <1>1, <2>1, <3>1
  <2>3. CASE tasks[i].peer \notin destroyed
    BY <1>1, <1>5, <2>1, <2>3
  <2>. QED
    BY <2>2, <2>3
<1>. QED
  BY <1>1, <1>3, <1>4, <1>5 DEF Queue

-----------------------------------------------------------------------------
(***************************************************************************)
(* What the loop's functions make of a peer.                               *)
(***************************************************************************)
LEMMA DeletedPeer ==
    /\ Deleted \in PeerType
    /\ Deleted.mem = "freed" /\ Deleted.interest = {}
BY DEF Deleted, NoPeer, PeerType, Events

LEMMA InitEventPeer ==
    ASSUME NEW r \in PeerType
    PROVE  /\ InitEvent(r) \in PeerType
           /\ InitEvent(r).mem = r.mem /\ InitEvent(r).port = r.port
           /\ InitEvent(r).ref = r.ref /\ InitEvent(r).messagecb = r.messagecb
<1>1. r.interest \cup {"in"} \cup (IF r.writecb THEN {"out"} ELSE {}) \in Events
  BY DEF PeerType, Events
<1>. QED
  BY <1>1 DEF InitEvent, PeerType

LEMMA DoDestroyPeer ==
    ASSUME NEW r \in PeerType, r.ref > 0
    PROVE  /\ DoDestroy(r) \in PeerType
           /\ r.ref = 1 => DoDestroy(r) = Deleted
           /\ r.ref > 1 => /\ DoDestroy(r).mem = r.mem /\ DoDestroy(r).port = r.port
                           /\ DoDestroy(r).ref = r.ref - 1
                           /\ DoDestroy(r).messagecb = r.messagecb
<1>1. r.ref \in Nat
  BY DEF PeerType
<1>2. r.ref = 1 => DoDestroy(r) = Deleted
  BY DEF DoDestroy
<1>3. r.ref > 1 => r.ref - 1 \in Nat /\ DoDestroy(r) = [r EXCEPT !.ref = r.ref - 1]
  BY <1>1 DEF DoDestroy
<1>. QED
  BY <1>1, <1>2, <1>3, DeletedPeer DEF PeerType

LEMMA DoRequestPeer ==
    ASSUME NEW r \in PeerType, r.ref > 0, NEW op \in Requests, NEW cb \in BOOLEAN
    PROVE  /\ DoRequest(r, op, cb) \in PeerType
           /\ r.ref = 1 => DoRequest(r, op, cb) = Deleted
           /\ r.ref > 1 => /\ DoRequest(r, op, cb).mem = r.mem
                           /\ DoRequest(r, op, cb).port = r.port
                           /\ DoRequest(r, op, cb).ref = r.ref - 1
                           /\ DoRequest(r, op, cb).messagecb =
                                IF op = "onmessage" THEN cb ELSE r.messagecb
<1> DEFINE s == IF op = "onmessage" THEN [r EXCEPT !.messagecb = cb] ELSE [r EXCEPT !.writecb = cb]
           e == IF op = "onmessage" THEN "in" ELSE "out"
           i == IF cb THEN s.interest \cup {e} ELSE s.interest \ {e}
<1>1. r.ref \in Nat /\ s \in PeerType /\ s.ref = r.ref /\ s.mem = r.mem /\ s.port = r.port
      /\ s.messagecb = (IF op = "onmessage" THEN cb ELSE r.messagecb)
  BY DEF PeerType
<1>2. i \in Events
  BY <1>1 DEF PeerType, Events
<1>3. DoRequest(r, op, cb) = IF r.ref > 1 THEN [Watch(s, e, cb) EXCEPT !.ref = @ - 1] ELSE Deleted
  BY DEF DoRequest
<1>4. Watch(s, e, cb) = [s EXCEPT !.interest = i]
  BY DEF Watch
<1> HIDE DEF s, e, i
<1>5. r.ref > 1 => DoRequest(r, op, cb) = [s EXCEPT !.interest = i, !.ref = r.ref - 1]
  BY <1>1, <1>3, <1>4 DEF PeerType
<1>6. r.ref = 1 => DoRequest(r, op, cb) = Deleted
  BY <1>3
<1>7. r.ref > 1 => r.ref - 1 \in Nat
  BY <1>1
<1>8. r.ref > 1 => /\ DoRequest(r, op, cb) \in PeerType
                   /\ DoRequest(r, op, cb).mem = s.mem
                   /\ DoRequest(r, op, cb).port = s.port
                   /\ DoRequest(r, op, cb).ref = r.ref - 1
                   /\ DoRequest(r, op, cb).messagecb = s.messagecb
  BY <1>1, <1>2, <1>5, <1>7 DEF PeerType
<1>9. r.ref = 1 \/ r.ref > 1
  BY <1>1
<1>. QED
  BY <1>1, <1>6, <1>8, <1>9, DeletedPeer

-----------------------------------------------------------------------------
(***************************************************************************)
(* Every operation on the peers keeps their invariant.                     *)
(***************************************************************************)
\* Nothing else is known of a peer that a step leaves alone.
Untouched(p) == /\ peers'[p] = peers[p]
                /\ Holders(p)' = Holders(p)
                /\ peers[p].mem = "unused" => /\ p \notin destroyed'
                                              /\ \A i \in DOMAIN tasks' : tasks'[i].peer # p
                                              /\ Askers(p)' = {}

LEMMA UntouchedKeeps ==
    ASSUME UdpInv, NEW p \in Peer, Untouched(p)
    PROVE  (Known(p) /\ Counted(p))'
<1>1. Known(p) /\ Counted(p)
  BY DEF UdpInv
<1>2. Known(p)'
  BY <1>1 DEF Untouched, Known
<1>3. Counted(p)'
  BY <1>1 DEF Untouched, Counted, Live
<1>. QED
  BY <1>2, <1>3

LEMMA NewKeeps ==
    ASSUME UdpInv, NEW th \in Thread, NEW port \in Port, NEW writecb \in BOOLEAN,
           New(th, port, writecb)
    PROVE  /\ UdpInv' /\ destroyed' = destroyed
           /\ FreshPeer \in Peer /\ peers[FreshPeer].mem = "unused"
           /\ peers'[FreshPeer].mem = "live" /\ peers'[FreshPeer].port = port
           /\ \A q \in Peer : q # FreshPeer => peers'[q] = peers[q]
<1>1. PICK p \in Peer : p = FreshPeer /\ peers[p].mem = "unused"
  BY DEF New, FreshPeer
<1>2. PICK r : r = [NoPeer EXCEPT !.mem = "live", !.port = port, !.ref = 1, !.messagecb = TRUE,
                                  !.writecb = writecb]
  OBVIOUS
<1>3. /\ r \in PeerType /\ r.mem = "live" /\ r.port = port /\ r.ref = 1
  BY <1>2 DEF NoPeer, PeerType, Events
<1>4. PICK s \in PeerType : /\ s.mem = "live" /\ s.port = port /\ s.ref = 1
                            /\ peers' = [peers EXCEPT ![p] = s]
  <2>1. peers' = [peers EXCEPT ![p] = InitEvent(r)] \/ peers' = [peers EXCEPT ![p] = r]
    BY <1>1, <1>2 DEF New
  <2>2. /\ InitEvent(r) \in PeerType
        /\ InitEvent(r).mem = "live" /\ InitEvent(r).port = port /\ InitEvent(r).ref = 1
    BY <1>3, InitEventPeer
  <2>. QED
    BY <1>3, <2>1, <2>2
<1>5. PICK t \in Task : t.op = "init" /\ t.peer = p /\ t = [op |-> "init", peer |-> p, cb |-> TRUE]
  BY DEF Task
<1>6. /\ tasks' = tasks \/ tasks' = Append(tasks, t)
      /\ sending' = sending /\ handler' = handler /\ destroyed' = destroyed /\ fault' = fault
  BY <1>1, <1>5 DEF New
<1>7. /\ p \notin destroyed /\ Askers(p) = {}
      /\ \A i \in DOMAIN tasks : tasks[i].peer # p
  BY <1>1 DEF UdpInv, Known
<1>8. Queue' /\ tasks' \in Seq(Task)
  <2>1. CASE tasks' = tasks
    BY <1>6, <2>1 DEF UdpInv, UdpTypes, Queue
  <2>2. CASE tasks' = Append(tasks, t)
    <3>1. \A c \in Client : sending'[c] # None => sending'[c].op \in Requests
      BY <1>6 DEF UdpInv, Queue
    <3>. QED
      BY <1>5, <1>6, <1>7, <2>2, <3>1, QueueAfterAppend DEF UdpInv
  <2>. QED
    BY <1>6, <2>1, <2>2
<1>9. \A q : Askers(q)' = Askers(q)
  BY <1>6 DEF Askers
<1>10. UdpTypes'
  BY <1>4, <1>6, <1>8, <1>9 DEF UdpInv, UdpTypes
<1>11. ASSUME NEW q \in Peer PROVE Holders(q)' = Holders(q)
  <2>1. /\ Queued(q, {"destroy"})' = Queued(q, {"destroy"})
        /\ Queued(q, {"onmessage", "onwrite"})' = Queued(q, {"onmessage", "onwrite"})
    <3>1. CASE tasks' = tasks
      BY <3>1 DEF Queued
    <3>2. CASE tasks' = Append(tasks, t)
      <4>1. t.op \notin {"destroy"} /\ t.op \notin {"onmessage", "onwrite"}
        BY <1>5
      <4>2. Queued(q, {"destroy"})' = Queued(q, {"destroy"})
        BY <1>5, <3>2, <4>1, QueueGrows DEF UdpInv
      <4>3. Queued(q, {"onmessage", "onwrite"})' = Queued(q, {"onmessage", "onwrite"})
        BY <1>5, <3>2, <4>1, QueueGrows DEF UdpInv
      <4>. QED
        BY <4>2, <4>3
    <3>. QED
      BY <1>6, <3>1, <3>2
  <2>. QED
    BY <1>6, <1>9, <2>1 DEF Holders, Askers
<1>12. ASSUME NEW q \in Peer PROVE (Known(q) /\ Counted(q))'
  <2>1. CASE q = p
    <3>1. Queued(p, {"onmessage", "onwrite"}) = 0
      BY <1>7, QueuedNone
    <3>2. Cardinality(Askers(p)) = 0
      BY <1>7, FS_EmptySet
    <3>3. Holders(p) = 1
      <4>1. Holders(p) = 1 + Queued(p, {"onmessage", "onwrite"}) + Cardinality(Askers(p))
        BY <1>7, HoldersSum DEF UdpInv
      <4>. QED
        BY <3>1, <3>2, <4>1
    <3>4. peers'[p] = s
      BY <1>4 DEF UdpInv, UdpTypes
    <3>. QED
      BY <1>4, <1>11, <2>1, <3>3, <3>4 DEF Known, Counted, Live
  <2>2. CASE q # p
    <3>1. peers'[q] = peers[q]
      BY <1>4, <2>2 DEF UdpInv, UdpTypes
    <3>2. ASSUME peers[q].mem = "unused", NEW i \in DOMAIN tasks' PROVE tasks'[i].peer # q
      <4>1. \A j \in DOMAIN tasks : tasks[j].peer # q
        BY <3>2 DEF UdpInv, Known
      <4>2. CASE tasks' = tasks
        BY <4>1, <4>2
      <4>3. CASE tasks' = Append(tasks, t)
        BY <1>5, <2>2, <4>1, <4>3 DEF UdpInv, UdpTypes
      <4>. QED
        BY <1>6, <4>2, <4>3
    <3>3. peers[q].mem = "unused" => q \notin destroyed' /\ Askers(q)' = {}
      BY <1>6, <1>9 DEF UdpInv, Known
    <3>. QED
      BY <1>11, <3>1, <3>2, <3>3, UntouchedKeeps DEF Untouched
  <2>. QED
    BY <2>1, <2>2
<1>13. InCall'
  <2>1. handler # None => handler.peer \in Peer /\ handler.peer # p
    BY <1>1 DEF UdpInv, UdpTypes, InCall, Live, HandlerType
  <2>2. handler # None => peers'[handler.peer] = peers[handler.peer]
    BY <1>4, <2>1 DEF UdpInv, UdpTypes
  <2>. QED
    BY <1>6, <2>2 DEF UdpInv, InCall, Live
<1>14. UdpInv'
  BY <1>6, <1>8, <1>10, <1>12, <1>13 DEF UdpInv
<1>. QED
  BY <1>1, <1>4, <1>6, <1>14 DEF UdpInv, UdpTypes

\* The number of holders after a step.
LEMMA HoldersNext ==
    ASSUME NEW p
    PROVE  /\ p \in destroyed' => Holders(p)' = Queued(p, {"destroy"})'
                + Queued(p, {"onmessage", "onwrite"})' + Cardinality(Askers(p)')
           /\ p \notin destroyed' => Holders(p)' = 1
                + Queued(p, {"onmessage", "onwrite"})' + Cardinality(Askers(p)')
BY DEF Holders, Askers

LEMMA DestroyKeeps ==
    ASSUME Careless = FALSE, UdpInv, NEW th \in Thread, NEW p \in Peer, InUse(p),
           DestroyPeer(th, p)
    PROVE  /\ UdpInv' /\ destroyed' = destroyed \cup {p}
           /\ peers'[p].mem # "unused"
           /\ \A q \in Peer : q # p => peers'[q] = peers[q]
<1>1. Live(p) /\ peers[p].ref = Holders(p) /\ Holders(p) > 0
  BY InUseIsLive
<1>2. /\ peers[p] \in PeerType /\ peers[p].mem = "live" /\ p \notin destroyed
  BY <1>1 DEF Live, InUse, UdpInv, UdpTypes
<1>3. /\ sending' = sending /\ handler' = handler /\ destroyed' = destroyed \cup {p}
      /\ fault' = FALSE
  BY <1>1 DEF DestroyPeer
<1>4. \A q : Askers(q)' = Askers(q)
  BY <1>3 DEF Askers
<1>5. /\ Queued(p, {"destroy"}) = 0
      /\ Holders(p) = 1 + Queued(p, {"onmessage", "onwrite"}) + Cardinality(Askers(p))
  <2>1. \A i \in DOMAIN tasks : tasks[i].peer = p => tasks[i].op \notin {"destroy"}
    BY <1>2 DEF UdpInv, Queue
  <2>2. Queued(p, {"destroy"}) = 0
    BY <2>1, QueuedNone
  <2>. QED
    BY <1>2, <2>2, HoldersSum DEF UdpInv
<1>6. \A c \in Client : sending'[c] # None => sending'[c].op \in Requests
  BY <1>3 DEF UdpInv, Queue
<1>7. /\ Queued(p, {"onmessage", "onwrite"}) \in Nat /\ Cardinality(Askers(p)) \in Nat
  BY HoldersSum DEF UdpInv
<1>8. CASE th = Loop
  <2>1. /\ tasks' = tasks /\ peers' = [peers EXCEPT ![p] = DoDestroy(peers[p])]
        /\ ~InitQueued(p) /\ ~InCallbackOf(p)
    BY <1>1, <1>8 DEF DestroyPeer, UsableInLoop
  <2>2. PICK r : r = DoDestroy(peers[p])
    OBVIOUS
  <2>3. /\ r \in PeerType
        /\ peers[p].ref = 1 => r.mem = "freed" /\ r.interest = {}
        /\ peers[p].ref > 1 => r.mem = "live" /\ r.ref = peers[p].ref - 1
    BY <1>1, <1>2, <2>2, DoDestroyPeer, DeletedPeer
  <2>4. /\ peers' \in [Peer -> PeerType] /\ peers'[p] = r
        /\ \A q \in Peer : q # p => peers'[q] = peers[q]
    BY <2>1, <2>2, <2>3 DEF UdpInv, UdpTypes
  <2>5. UdpTypes'
    BY <1>3, <1>4, <2>1, <2>4 DEF UdpInv, UdpTypes
  <2>6. \A q, ops : Queued(q, ops)' = Queued(q, ops)
    BY <2>1 DEF Queued
  <2>7. Holders(p)' = Queued(p, {"onmessage", "onwrite"}) + Cardinality(Askers(p))
    <3>1. Holders(p)' = Queued(p, {"destroy"})'
                + Queued(p, {"onmessage", "onwrite"})' + Cardinality(Askers(p)')
      BY <1>3, HoldersNext
    <3>2. Holders(p)' = 0 + Queued(p, {"onmessage", "onwrite"}) + Cardinality(Askers(p))
      BY <1>4, <1>5, <2>6, <3>1
    <3>. QED
      BY <1>7, <3>2
  <2>8. (Known(p) /\ Counted(p))'
    <3>1. Holders(p) = 1 + Holders(p)' /\ Holders(p)' \in Nat
      BY <1>5, <1>7, <2>7
    <3>2. CASE peers[p].ref = 1
      BY <1>1, <2>3, <2>4, <3>1, <3>2 DEF Known, Counted, Live
    <3>3. CASE peers[p].ref > 1
      BY <1>1, <2>3, <2>4, <3>1, <3>3 DEF Known, Counted, Live
    <3>. QED
      BY <1>1, <3>1, <3>2, <3>3
  <2>9. ASSUME NEW q \in Peer, q # p PROVE (Known(q) /\ Counted(q))'
    <3>1. Holders(q)' = Holders(q)
      BY <1>3, <1>4, <2>6, <2>9 DEF Holders, Askers
    <3>2. peers[q].mem = "unused" => /\ q \notin destroyed'
                                     /\ \A i \in DOMAIN tasks' : tasks'[i].peer # q
                                     /\ Askers(q)' = {}
      BY <1>3, <1>4, <2>1, <2>9 DEF UdpInv, Known
    <3>. QED
      BY <2>4, <2>9, <3>1, <3>2, UntouchedKeeps DEF Untouched
  <2>10. Queue'
    BY <1>3, <1>6, <2>1 DEF UdpInv, Queue, InitQueued
  <2>11. InCall'
    <3>1. handler # None => handler.peer \in Peer /\ handler.peer # p
      BY <2>1 DEF UdpInv, UdpTypes, HandlerType, InCallbackOf
    <3>. QED
      BY <1>3, <2>4, <3>1 DEF UdpInv, InCall, Live
  <2>12. peers'[p].mem # "unused"
    <3>1. peers[p].ref = 1 \/ peers[p].ref > 1
      BY <1>1, <1>2 DEF PeerType
    <3>. QED
      BY <2>3, <2>4, <3>1
  <2>13. UdpInv'
    BY <1>3, <2>5, <2>8, <2>9, <2>10, <2>11 DEF UdpInv
  <2>. QED
    BY <1>3, <2>4, <2>12, <2>13
<1>9. CASE th # Loop
  <2>1. PICK t \in Task : t.op = "destroy" /\ t.peer = p /\ t = [op |-> "destroy", peer |-> p, cb |-> TRUE]
    BY DEF Task
  <2>2. tasks' = Append(tasks, t) /\ peers' = peers
    BY <1>9, <2>1 DEF DestroyPeer
  <2>3. Queue' /\ tasks' \in Seq(Task)
    BY <1>3, <1>6, <2>1, <2>2, QueueAfterAppend DEF UdpInv
  <2>4. UdpTypes'
    BY <1>3, <1>4, <2>2, <2>3 DEF UdpInv, UdpTypes
  <2>5. ASSUME NEW q \in Peer PROVE Holders(q)' = Holders(q)
    <3>1. Queued(q, {"onmessage", "onwrite"})' = Queued(q, {"onmessage", "onwrite"})
      <4>1. t.op \notin {"onmessage", "onwrite"}
        BY <2>1
      <4>. QED
        BY <2>1, <2>2, <4>1, QueueGrows DEF UdpInv
    <3>2. CASE q = p
      <4>1. Queued(p, {"destroy"})' = 1
        BY <1>5, <2>1, <2>2, QueueGrows DEF UdpInv
      <4>2. Holders(p)' = Queued(p, {"destroy"})'
                + Queued(p, {"onmessage", "onwrite"})' + Cardinality(Askers(p)')
        BY <1>3, HoldersNext
      <4>. QED
        BY <1>4, <1>5, <3>1, <3>2, <4>1, <4>2
    <3>3. CASE q # p
      <4>1. Queued(q, {"destroy"})' = Queued(q, {"destroy"})
        BY <2>1, <2>2, <3>3, QueueGrows DEF UdpInv
      <4>. QED
        BY <1>3, <1>4, <3>1, <3>3, <4>1 DEF Holders, Askers
    <3>. QED
      BY <3>2, <3>3
  <2>6. (Known(p) /\ Counted(p))'
    BY <1>1, <1>2, <2>2, <2>5 DEF Known, Counted, Live
  <2>7. ASSUME NEW q \in Peer, q # p PROVE (Known(q) /\ Counted(q))'
    <3>1. ASSUME peers[q].mem = "unused", NEW i \in DOMAIN tasks' PROVE tasks'[i].peer # q
      <4>1. \A j \in DOMAIN tasks : tasks[j].peer # q
        BY <3>1 DEF UdpInv, Known
      <4>. QED
        BY <2>1, <2>2, <2>7, <4>1 DEF UdpInv, UdpTypes
    <3>2. peers[q].mem = "unused" => q \notin destroyed' /\ Askers(q)' = {}
      BY <1>3, <1>4, <2>7 DEF UdpInv, Known
    <3>. QED
      BY <2>2, <2>5, <3>1, <3>2, UntouchedKeeps DEF Untouched
  <2>8. InCall'
    BY <1>3, <2>2 DEF UdpInv, InCall, Live
  <2>9. UdpInv'
    BY <1>3, <2>3, <2>4, <2>6, <2>7, <2>8 DEF UdpInv
  <2>. QED
    BY <1>2, <1>3, <2>2, <2>9
<1>. QED
  BY <1>8, <1>9

\* What the pool sees of a step on the peers that it does not take itself: no peer comes or
\* goes, and those in use stay on their ports.
Steady == /\ destroyed' = destroyed
          /\ \A q \in Peer : /\ (peers'[q].mem = "unused") <=> (peers[q].mem = "unused")
                             /\ InUse(q) => peers'[q].port = peers[q].port

LEMMA LoopRequestKeeps ==
    ASSUME Careless = FALSE, UdpInv, NEW p \in Peer, NEW op \in Requests, NEW cb \in BOOLEAN,
           LoopRequest(p, op, cb)
    PROVE  UdpInv' /\ Steady
<1>1. /\ peers[p] \in PeerType /\ peers[p].mem = "live" /\ peers[p].ref \in Nat
      /\ peers[p].ref = Holders(p) /\ peers[p].ref > 0
  BY DEF LoopRequest, Live, UdpInv, UdpTypes, Counted, PeerType
<1>2. /\ tasks' = tasks /\ sending' = sending /\ handler' = handler
      /\ destroyed' = destroyed /\ fault' = FALSE
  BY DEF LoopRequest, UdpInv
<1>3. PICK r : r = [peers[p] EXCEPT !.ref = @ + 1]
  OBVIOUS
<1>4. /\ r \in PeerType /\ r.ref \in Nat /\ r.ref > 0 /\ r.ref > 1 /\ r.ref - 1 = peers[p].ref
      /\ r.mem = "live" /\ r.port = peers[p].port /\ r.messagecb = peers[p].messagecb
  BY <1>1, <1>3 DEF PeerType
<1>5. PICK s : s = DoRequest(r, op, cb)
  OBVIOUS
<1>6. /\ s \in PeerType /\ s.mem = "live" /\ s.port = peers[p].port /\ s.ref = peers[p].ref
      /\ s.messagecb = IF op = "onmessage" THEN cb ELSE peers[p].messagecb
  BY <1>4, <1>5, DoRequestPeer
<1>7. peers' = [peers EXCEPT ![p] = s]
  BY <1>3, <1>5 DEF LoopRequest
<1>8. /\ peers' \in [Peer -> PeerType] /\ peers'[p] = s
      /\ \A q \in Peer : q # p => peers'[q] = peers[q]
  BY <1>6, <1>7 DEF UdpInv, UdpTypes
<1>9. \A q : Askers(q)' = Askers(q) /\ Holders(q)' = Holders(q)
  BY <1>2 DEF Askers, Holders, Queued
<1>10. UdpTypes'
  BY <1>2, <1>8, <1>9 DEF UdpInv, UdpTypes
<1>11. ASSUME NEW q \in Peer PROVE (Known(q) /\ Counted(q))'
  <2>1. CASE q = p
    BY <1>1, <1>6, <1>8, <1>9, <2>1 DEF Known, Counted, Live, UdpInv
  <2>2. CASE q # p
    <3>1. Untouched(q)
      BY <1>2, <1>8, <1>9, <2>2 DEF Untouched, UdpInv, Known
    <3>. QED
      BY <3>1, UntouchedKeeps
  <2>. QED
    BY <2>1, <2>2
<1>12. InCall'
  <2>1. handler # None => handler.peer \in Peer
    BY DEF UdpInv, UdpTypes, HandlerType
  <2>2. CASE handler # None /\ handler.peer = p
    <3>1. ~(handler.at = "message" /\ op = "onmessage" /\ ~cb)
      BY <2>2 DEF LoopRequest, InCallbackOf
    <3>2. handler.at = "message" => s.messagecb
      BY <1>6, <2>2, <3>1 DEF UdpInv, InCall
    <3>. QED
      BY <1>2, <1>6, <1>8, <2>2, <3>2 DEF InCall, Live
  <2>3. CASE handler # None => handler.peer # p
    BY <1>2, <1>8, <2>1, <2>3 DEF UdpInv, InCall, Live
  <2>. QED
    BY <2>2, <2>3
<1>13. Queue'
  BY <1>2 DEF UdpInv, Queue
<1>14. UdpInv'
  BY <1>2, <1>10, <1>11, <1>12, <1>13 DEF UdpInv
<1>15. Steady
  BY <1>1, <1>2, <1>6, <1>8 DEF Steady
<1>. QED
  BY <1>14, <1>15

LEMMA ClientRequestKeeps ==
    ASSUME UdpInv, NEW c \in Client, NEW p \in Peer, NEW op \in Requests, NEW cb \in BOOLEAN,
           ClientRequest(c, p, op, cb)
    PROVE  UdpInv' /\ Steady
<1>1. /\ peers[p] \in PeerType /\ peers[p].mem = "live" /\ peers[p].ref \in Nat
      /\ peers[p].ref = Holders(p) /\ peers[p].ref > 0
  BY DEF ClientRequest, Live, UdpInv, UdpTypes, Counted, PeerType
<1>2. /\ tasks' = tasks /\ handler' = handler
      /\ destroyed' = destroyed /\ fault' = FALSE
  BY DEF ClientRequest, UdpInv
<1>3. PICK t \in Task : t.op = op /\ t.peer = p /\ t = [op |-> op, peer |-> p, cb |-> cb]
  BY DEF Task, Requests
<1>4. sending[c] = None /\ sending' = [sending EXCEPT ![c] = t] /\ t # None
  BY <1>3, NoneAssumption DEF ClientRequest
<1>5. PICK s : s = [peers[p] EXCEPT !.ref = @ + 1]
  OBVIOUS
<1>6. /\ s \in PeerType /\ s.ref = peers[p].ref + 1
      /\ s.mem = "live" /\ s.port = peers[p].port /\ s.messagecb = peers[p].messagecb
  BY <1>1, <1>5 DEF PeerType
<1>7. peers' = [peers EXCEPT ![p] = s]
  BY <1>5 DEF ClientRequest, UdpInv, UdpTypes
<1>8. /\ peers' \in [Peer -> PeerType] /\ peers'[p] = s
      /\ \A q \in Peer : q # p => peers'[q] = peers[q]
  BY <1>6, <1>7 DEF UdpInv, UdpTypes
<1>9. /\ c \notin Askers(p) /\ Askers(p)' = Askers(p) \cup {c}
      /\ \A q \in Peer : q # p => Askers(q)' = Askers(q)
  BY <1>3, <1>4 DEF Askers, UdpInv, UdpTypes
<1>10. /\ IsFiniteSet(Askers(p)')
       /\ Cardinality(Askers(p)') = Cardinality(Askers(p)) + 1
  <2>1. IsFiniteSet(Askers(p))
    BY DEF UdpInv, UdpTypes
  <2>. QED
    BY <1>9, <2>1, FS_AddElement
<1>11. UdpTypes'
  <2>1. ASSUME NEW q \in Peer PROVE IsFiniteSet(Askers(q)')
    BY <1>9, <1>10 DEF UdpInv, UdpTypes
  <2>2. sending' \in [Client -> Task \cup {None}]
    BY <1>4 DEF UdpInv, UdpTypes
  <2>. QED
    BY <1>2, <1>8, <2>1, <2>2 DEF UdpInv, UdpTypes
<1>12. \A q, ops : Queued(q, ops)' = Queued(q, ops)
  BY <1>2 DEF Queued
<1>13. Holders(p)' = Holders(p) + 1
  <2>1. /\ Queued(p, {"destroy"}) \in Nat /\ Queued(p, {"onmessage", "onwrite"}) \in Nat
        /\ Cardinality(Askers(p)) \in Nat
    BY HoldersSum DEF UdpInv
  <2>2. CASE p \in destroyed
    <3>1. Holders(p) = Queued(p, {"destroy"})
                + Queued(p, {"onmessage", "onwrite"}) + Cardinality(Askers(p))
      BY <2>2, HoldersSum DEF UdpInv
    <3>2. Holders(p)' = Queued(p, {"destroy"})'
                + Queued(p, {"onmessage", "onwrite"})' + Cardinality(Askers(p)')
      BY <1>2, <2>2, HoldersNext
    <3>. QED
      BY <1>10, <1>12, <2>1, <3>1, <3>2
  <2>3. CASE p \notin destroyed
    <3>1. Holders(p) = 1 + Queued(p, {"onmessage", "onwrite"}) + Cardinality(Askers(p))
      BY <2>3, HoldersSum DEF UdpInv
    <3>2. Holders(p)' = 1 + Queued(p, {"onmessage", "onwrite"})' + Cardinality(Askers(p)')
      BY <1>2, <2>3, HoldersNext
    <3>. QED
      BY <1>10, <1>12, <2>1, <3>1, <3>2
  <2>. QED
    BY <2>2, <2>3
<1>14. ASSUME NEW q \in Peer PROVE (Known(q) /\ Counted(q))'
  <2>1. CASE q = p
    <3>1. Holders(p)' = s.ref /\ s.ref > 0
      BY <1>1, <1>6, <1>13
    <3>. QED
      BY <1>6, <1>8, <2>1, <3>1 DEF Known, Counted, Live
  <2>2. CASE q # p
    <3>1. Holders(q)' = Holders(q)
      <4>1. Cardinality(Askers(q))' = Cardinality(Askers(q))
        BY <1>9, <2>2
      <4>. QED
        BY <1>2, <1>12, <4>1 DEF Holders, Askers
    <3>2. Untouched(q)
      BY <1>2, <1>8, <1>9, <2>2, <3>1 DEF Untouched, UdpInv, Known
    <3>. QED
      BY <3>2, UntouchedKeeps
  <2>. QED
    BY <2>1, <2>2
<1>15. InCall'
  <2>1. handler # None => handler.peer \in Peer
    BY DEF UdpInv, UdpTypes, HandlerType
  <2>2. \A q \in Peer : /\ peers'[q].mem = peers[q].mem
                        /\ peers'[q].messagecb = peers[q].messagecb
    BY <1>1, <1>6, <1>8
  <2>. QED
    BY <1>2, <2>1, <2>2 DEF UdpInv, InCall, Live
<1>16. Queue'
  BY <1>2, <1>3, <1>4 DEF UdpInv, UdpTypes, Queue
<1>17. UdpInv'
  BY <1>2, <1>11, <1>14, <1>15, <1>16 DEF UdpInv
<1>18. Steady
  BY <1>1, <1>2, <1>6, <1>8 DEF Steady
<1>. QED
  BY <1>17, <1>18

LEMMA ClientAppendKeeps ==
    ASSUME UdpInv, NEW c \in Client, ClientAppend(c)
    PROVE  UdpInv' /\ Steady
<1>1. PICK t \in Task : t = sending[c] /\ t # None /\ t.op \in Requests
  BY DEF ClientAppend, UdpInv, UdpTypes, Queue
<1>2. /\ tasks' = Append(tasks, t) /\ sending' = [sending EXCEPT ![c] = None]
      /\ peers' = peers /\ handler' = handler /\ destroyed' = destroyed /\ fault' = FALSE
  BY <1>1 DEF ClientAppend, UdpInv
<1>3. PICK p \in Peer : p = t.peer
  BY DEF Task
<1>4. /\ c \in Askers(p) /\ Askers(p)' = Askers(p) \ {c}
      /\ \A q \in Peer : q # p => Askers(q)' = Askers(q)
  BY <1>1, <1>2, <1>3 DEF Askers, UdpInv, UdpTypes
<1>5. /\ IsFiniteSet(Askers(p)')
      /\ Cardinality(Askers(p)') = Cardinality(Askers(p)) - 1
  <2>1. IsFiniteSet(Askers(p))
    BY DEF UdpInv, UdpTypes
  <2>. QED
    BY <1>4, <2>1, FS_RemoveElement
<1>6. Queue' /\ tasks' \in Seq(Task)
  <2>1. \A d \in Client : sending'[d] # None => sending'[d].op \in Requests
    BY <1>2 DEF UdpInv, UdpTypes, Queue
  <2>2. t.op # "init" /\ t.op # "destroy"
    BY <1>1 DEF Requests
  <2>. QED
    BY <1>2, <2>1, <2>2, QueueAfterAppend DEF UdpInv
<1>7. UdpTypes'
  <2>1. ASSUME NEW q \in Peer PROVE IsFiniteSet(Askers(q)')
    BY <1>4, <1>5 DEF UdpInv, UdpTypes
  <2>2. sending' \in [Client -> Task \cup {None}]
    BY <1>2 DEF UdpInv, UdpTypes
  <2>. QED
    BY <1>2, <1>6, <2>1, <2>2 DEF UdpInv, UdpTypes
<1>8. ASSUME NEW q \in Peer
      PROVE  /\ Queued(q, {"destroy"})' = Queued(q, {"destroy"})
             /\ Queued(q, {"onmessage", "onwrite"})' =
                  Queued(q, {"onmessage", "onwrite"}) + IF q = p THEN 1 ELSE 0
  <2>1. t.op \notin {"destroy"} /\ t.op \in {"onmessage", "onwrite"}
    BY <1>1 DEF Requests
  <2>2. Queued(q, {"destroy"})' = Queued(q, {"destroy"})
    BY <1>2, <2>1, QueueGrows DEF UdpInv
  <2>3. Queued(q, {"onmessage", "onwrite"})' =
          Queued(q, {"onmessage", "onwrite"}) + IF q = p THEN 1 ELSE 0
    BY <1>2, <1>3, <2>1, QueueGrows DEF UdpInv
  <2>. QED
    BY <2>2, <2>3
<1>9. ASSUME NEW q \in Peer PROVE Holders(q)' = Holders(q)
  <2>1. /\ Queued(q, {"destroy"}) \in Nat /\ Queued(q, {"onmessage", "onwrite"}) \in Nat
        /\ Cardinality(Askers(q)) \in Nat
    BY HoldersSum DEF UdpInv
  <2>2. Queued(q, {"onmessage", "onwrite"})' + Cardinality(Askers(q)')
          = Queued(q, {"onmessage", "onwrite"}) + Cardinality(Askers(q))
    <3>1. CASE q = p
      BY <1>5, <1>8, <2>1, <3>1
    <3>2. CASE q # p
      <4>1. Cardinality(Askers(q)') = Cardinality(Askers(q))
        BY <1>4, <3>2
      <4>2. Queued(q, {"onmessage", "onwrite"})' = Queued(q, {"onmessage", "onwrite"})
        BY <1>8, <2>1, <3>2
      <4>. QED
        BY <4>1, <4>2
    <3>. QED
      BY <3>1, <3>2
  <2>3. /\ Queued(q, {"onmessage", "onwrite"})' \in Nat
        /\ Cardinality(Askers(q)') \in Nat
    <3>1. IsFiniteSet(Askers(q)')
      BY <1>7 DEF UdpTypes
    <3>2. Cardinality(Askers(q)') \in Nat
      BY <3>1, FS_CardinalityType
    <3>. QED
      BY <1>8, <2>1, <3>2
  <2>4. CASE q \in destroyed
    <3>1. Holders(q) = Queued(q, {"destroy"})
                + Queued(q, {"onmessage", "onwrite"}) + Cardinality(Askers(q))
      BY <2>4, HoldersSum DEF UdpInv
    <3>2. Holders(q)' = Queued(q, {"destroy"})'
                + Queued(q, {"onmessage", "onwrite"})' + Cardinality(Askers(q)')
      BY <1>2, <2>4, HoldersNext
    <3>. QED
      BY <1>8, <2>1, <2>2, <2>3, <3>1, <3>2
  <2>5. CASE q \notin destroyed
    <3>1. Holders(q) = 1 + Queued(q, {"onmessage", "onwrite"}) + Cardinality(Askers(q))
      BY <2>5, HoldersSum DEF UdpInv
    <3>2. Holders(q)' = 1 + Queued(q, {"onmessage", "onwrite"})' + Cardinality(Askers(q)')
      BY <1>2, <2>5, HoldersNext
    <3>. QED
      BY <2>1, <2>2, <2>3, <3>1, <3>2
  <2>. QED
    BY <2>4, <2>5
<1>10. ASSUME NEW q \in Peer PROVE (Known(q) /\ Counted(q))'
  <2>1. CASE q = p
    <3>1. peers[p].mem # "unused"
      BY <1>4 DEF UdpInv, Known
    <3>. QED
      BY <1>2, <1>9, <2>1, <3>1 DEF UdpInv, Known, Counted, Live
  <2>2. CASE q # p
    <3>1. ASSUME peers[q].mem = "unused", NEW i \in DOMAIN tasks' PROVE tasks'[i].peer # q
      <4>1. \A j \in DOMAIN tasks : tasks[j].peer # q
        BY <3>1 DEF UdpInv, Known
      <4>. QED
        BY <1>2, <1>3, <2>2, <4>1 DEF UdpInv, UdpTypes
    <3>2. peers[q].mem = "unused" => q \notin destroyed' /\ Askers(q)' = {}
      BY <1>2, <1>4, <2>2 DEF UdpInv, Known
    <3>. QED
      BY <1>2, <1>9, <3>1, <3>2, UntouchedKeeps DEF Untouched
  <2>. QED
    BY <2>1, <2>2
<1>11. InCall'
  BY <1>2 DEF UdpInv, InCall, Live
<1>12. UdpInv'
  BY <1>2, <1>6, <1>7, <1>10, <1>11 DEF UdpInv
<1>13. Steady
  BY <1>2 DEF Steady
<1>. QED
  BY <1>12, <1>13

\* What is left of the queue's order when its first task is taken.
LEMMA QueueAfterTake ==
    ASSUME UdpTypes, Queue, tasks # <<>>, tasks' = Tail(tasks),
           destroyed' = destroyed, sending' = sending
    PROVE  /\ Queue' /\ tasks' \in Seq(Task)
           /\ \A i \in DOMAIN tasks' : \E j \in DOMAIN tasks : tasks'[i] = tasks[j]
<1>1. /\ Len(tasks) \in Nat \ {0} /\ DOMAIN tasks = 1 .. Len(tasks)
      /\ tasks' \in Seq(Task)
      /\ DOMAIN tasks' = 1 .. Len(tasks) - 1
      /\ \A i \in 1 .. Len(tasks) - 1 : tasks'[i] = tasks[i + 1]
  BY HeadTailProperties DEF UdpTypes
<1>2. \A i \in DOMAIN tasks' : i + 1 \in DOMAIN tasks /\ tasks'[i] = tasks[i + 1] /\ i \in Nat
  BY <1>1
<1>3. \A i \in DOMAIN tasks' : tasks'[i].op = "destroy" => tasks'[i].peer \in destroyed'
  BY <1>2 DEF Queue
<1>4. ASSUME NEW i \in DOMAIN tasks', NEW j \in DOMAIN tasks',
             tasks'[i].op = "init", tasks'[j].peer = tasks'[i].peer
      PROVE  i <= j
  <2>1. i + 1 <= j + 1
    BY <1>2, <1>4 DEF Queue
  <2>. QED
    BY <1>2, <2>1
<1>5. ASSUME NEW i \in DOMAIN tasks', tasks'[i].op = "init", tasks'[i].peer \in destroyed'
      PROVE  \E j \in DOMAIN tasks' : tasks'[j].peer = tasks'[i].peer /\ tasks'[j].op = "destroy"
  <2>1. i + 1 \in DOMAIN tasks /\ tasks'[i] = tasks[i + 1]
    BY <1>2
  <2>2. PICK j \in DOMAIN tasks : tasks[j].peer = tasks[i + 1].peer /\ tasks[j].op = "destroy"
    BY <1>5, <2>1 DEF Queue
  <2>3. i + 1 <= j
    BY <1>5, <2>1, <2>2 DEF Queue
  <2>4. j - 1 \in 1 .. Len(tasks) - 1 /\ (j - 1) + 1 = j
    BY <1>1, <1>2, <2>2, <2>3
  <2>5. tasks'[j - 1] = tasks[j]
    BY <1>1, <2>4
  <2>. QED
    BY <1>1, <2>1, <2>2, <2>4, <2>5
<1>6. \A c \in Client : sending'[c] # None => sending'[c].op \in Requests
  BY DEF Queue
<1>. QED
  BY <1>1, <1>2, <1>3, <1>4, <1>5, <1>6 DEF Queue

LEMMA RunTaskKeeps ==
    ASSUME UdpInv, RunTask
    PROVE  UdpInv' /\ Steady
<1>1. /\ tasks # <<>> /\ tasks \in Seq(Task) /\ tasks' = Tail(tasks)
      /\ sending' = sending /\ handler = None /\ handler' = None /\ destroyed' = destroyed
  BY DEF RunTask, UdpInv, UdpTypes
<1>2. 1 \in DOMAIN tasks /\ Head(tasks) = tasks[1] /\ Head(tasks) \in Task
  BY <1>1, HeadTailProperties
<1>3. PICK t \in Task : t = Head(tasks) /\ t = tasks[1]
  BY <1>2
<1>4. PICK p \in Peer : p = t.peer
  BY DEF Task
<1>5. Live(p) /\ peers[p].ref = Holders(p) /\ Holders(p) > 0
  BY <1>2, <1>3, <1>4, TaskPeerIsLive
<1>6. /\ peers[p] \in PeerType /\ peers[p].mem = "live" /\ peers[p].ref \in Nat
      /\ peers[p].ref > 0
  BY <1>5 DEF Live, UdpInv, UdpTypes, PeerType
<1>7. PICK s : s = CASE t.op = "init"    -> InitEvent(peers[p])
                     [] t.op = "destroy" -> DoDestroy(peers[p])
                     [] OTHER            -> DoRequest(peers[p], t.op, t.cb)
  OBVIOUS
<1>8. peers' = [peers EXCEPT ![p] = s] /\ fault' = FALSE
  BY <1>3, <1>4, <1>5, <1>7 DEF RunTask, UdpInv
<1>9. /\ s \in PeerType
      /\ t.op = "init" => s.mem = "live" /\ s.ref = peers[p].ref /\ s.port = peers[p].port
      /\ t.op # "init" /\ peers[p].ref = 1 => s.mem = "freed" /\ s.interest = {}
      /\ t.op # "init" /\ peers[p].ref > 1
           => s.mem = "live" /\ s.ref = peers[p].ref - 1 /\ s.port = peers[p].port
  <2>1. CASE t.op = "init"
    BY <1>6, <1>7, <2>1, InitEventPeer
  <2>2. CASE t.op = "destroy"
    BY <1>6, <1>7, <2>2, DoDestroyPeer, DeletedPeer
  <2>3. CASE t.op \in Requests
    <3>1. s = DoRequest(peers[p], t.op, t.cb) /\ t.cb \in BOOLEAN /\ t.op # "init"
      BY <1>7, <2>3 DEF Requests, Task
    <3>. QED
      BY <1>6, <2>3, <3>1, DoRequestPeer, DeletedPeer
  <2>. QED
    BY <2>1, <2>2, <2>3 DEF Task, Requests
<1>10. /\ peers' \in [Peer -> PeerType] /\ peers'[p] = s
       /\ \A q \in Peer : q # p => peers'[q] = peers[q]
  BY <1>8, <1>9 DEF UdpInv, UdpTypes
<1>11. /\ Queue' /\ tasks' \in Seq(Task)
       /\ \A i \in DOMAIN tasks' : \E j \in DOMAIN tasks : tasks'[i] = tasks[j]
  BY <1>1, QueueAfterTake DEF UdpInv
<1>12. \A q : Askers(q)' = Askers(q)
  BY <1>1 DEF Askers
<1>13. UdpTypes'
  BY <1>1, <1>8, <1>10, <1>11, <1>12 DEF UdpInv, UdpTypes
<1>14. ASSUME NEW q \in Peer, NEW ops
       PROVE  /\ Queued(q, ops)' \in Nat
              /\ Queued(q, ops) = Queued(q, ops)' + IF p = q /\ t.op \in ops THEN 1 ELSE 0
  BY <1>1, <1>3, <1>4, QueueShrinks DEF UdpInv
<1>15. ASSUME NEW q \in Peer, q # p PROVE Holders(q)' = Holders(q)
  <2>1. /\ Queued(q, {"destroy"})' = Queued(q, {"destroy"})
        /\ Queued(q, {"onmessage", "onwrite"})' = Queued(q, {"onmessage", "onwrite"})
    <3>1. Queued(q, {"destroy"})' = Queued(q, {"destroy"})
      BY <1>14, <1>15
    <3>2. Queued(q, {"onmessage", "onwrite"})' = Queued(q, {"onmessage", "onwrite"})
      BY <1>14, <1>15
    <3>. QED
      BY <3>1, <3>2
  <2>. QED
    BY <1>1, <1>12, <2>1 DEF Holders, Askers
<1>16. /\ t.op = "init" => Holders(p)' = Holders(p)
       /\ t.op # "init" => Holders(p)' = Holders(p) - 1
  <2>1. /\ Queued(p, {"destroy"})' \in Nat
        /\ Queued(p, {"destroy"}) = Queued(p, {"destroy"})' + IF t.op = "destroy" THEN 1 ELSE 0
    BY <1>14
  <2>2. /\ Queued(p, {"onmessage", "onwrite"})' \in Nat
        /\ Queued(p, {"onmessage", "onwrite"}) = Queued(p, {"onmessage", "onwrite"})'
             + IF t.op \in {"onmessage", "onwrite"} THEN 1 ELSE 0
    BY <1>14
  <2>3. Cardinality(Askers(p)') = Cardinality(Askers(p)) /\ Cardinality(Askers(p)) \in Nat
    BY <1>12, HoldersSum DEF UdpInv
  <2>4. t.op = "destroy" => p \in destroyed
    BY <1>2, <1>3, <1>4 DEF UdpInv, Queue
  <2>5. t.op \in {"init", "destroy", "onmessage", "onwrite"}
    BY DEF Task
  <2>6. CASE p \in destroyed
    <3>1. Holders(p) = Queued(p, {"destroy"})
                + Queued(p, {"onmessage", "onwrite"}) + Cardinality(Askers(p))
      BY <2>6, HoldersSum DEF UdpInv
    <3>2. Holders(p)' = Queued(p, {"destroy"})'
                + Queued(p, {"onmessage", "onwrite"})' + Cardinality(Askers(p)')
      BY <1>1, <2>6, HoldersNext
    <3>. QED
      BY ONLY <2>1, <2>2, <2>3, <2>5, <3>1, <3>2
  <2>7. CASE p \notin destroyed
    <3>1. Holders(p) = 1 + Queued(p, {"onmessage", "onwrite"}) + Cardinality(Askers(p))
      BY <2>7, HoldersSum DEF UdpInv
    <3>2. Holders(p)' = 1 + Queued(p, {"onmessage", "onwrite"})' + Cardinality(Askers(p)')
      BY <1>1, <2>7, HoldersNext
    <3>3. t.op # "destroy"
      BY <2>4, <2>7
    <3>. QED
      BY ONLY <2>2, <2>3, <2>5, <3>1, <3>2, <3>3
  <2>. QED
    BY <2>6, <2>7
<1>17. ASSUME NEW q \in Peer PROVE (Known(q) /\ Counted(q))'
  <2>1. CASE q = p
    <3>1. CASE t.op = "init"
      BY <1>5, <1>6, <1>9, <1>10, <1>16, <2>1, <3>1 DEF Known, Counted, Live
    <3>2. CASE t.op # "init" /\ peers[p].ref = 1
      <4>1. Holders(p)' = 0
        BY <1>5, <1>16, <3>2
      <4>. QED
        BY <1>9, <1>10, <2>1, <3>2, <4>1 DEF Known, Counted, Live
    <3>3. CASE t.op # "init" /\ peers[p].ref > 1
      <4>1. Holders(p)' = s.ref /\ s.ref > 0
        BY <1>5, <1>6, <1>9, <1>16, <3>3
      <4>. QED
        BY <1>9, <1>10, <2>1, <3>3, <4>1 DEF Known, Counted, Live
    <3>. QED
      BY <1>6, <3>1, <3>2, <3>3
  <2>2. CASE q # p
    <3>1. peers[q].mem = "unused" => /\ q \notin destroyed'
                                     /\ \A i \in DOMAIN tasks' : tasks'[i].peer # q
                                     /\ Askers(q)' = {}
      BY <1>1, <1>11, <1>12 DEF UdpInv, Known
    <3>. QED
      BY <1>10, <1>15, <2>2, <3>1, UntouchedKeeps DEF Untouched
  <2>. QED
    BY <2>1, <2>2
<1>18. InCall'
  BY <1>1 DEF InCall
<1>19. UdpInv'
  BY <1>8, <1>11, <1>13, <1>17, <1>18 DEF UdpInv
<1>20. Steady
  <2>1. InUse(p) => s.port = peers[p].port
    <3>1. CASE t.op # "init" /\ peers[p].ref = 1
      <4>1. Holders(p)' = 0
        BY <1>5, <1>16, <3>1
      <4>2. p \notin destroyed => Holders(p)' > 0
        <5>1. /\ Queued(p, {"onmessage", "onwrite"})' \in Nat
              /\ Cardinality(Askers(p)') \in Nat
          BY <1>12, <1>14, HoldersSum DEF UdpInv
        <5>. QED
          BY <1>1, <5>1, HoldersNext
      <4>. QED
        BY <4>1, <4>2 DEF InUse
    <3>. QED
      BY <1>6, <1>9, <3>1
  <2>2. s.mem # "unused"
    BY <1>6, <1>9
  <2>. QED
    BY <1>1, <1>6, <1>10, <2>1, <2>2 DEF Steady
<1>. QED
  BY <1>19, <1>20

\* The event handler takes in what has arrived for a peer that is there.
LEMMA ReceiveKeeps ==
    ASSUME UdpInv, NEW p \in Peer, Live(p), Receive(p),
           UNCHANGED <<peers, tasks, sending, destroyed>>
    PROVE  fault' = FALSE /\ InCall' /\ handler' \in HandlerType \cup {None}
<1>1. CASE handler' = None
  BY <1>1 DEF Receive, UdpInv, InCall
<1>2. CASE handler' # None
  <2>1. PICK n \in 1 .. MaxChunks :
           handler' = [peer |-> p, at |-> "message", in |-> TRUE, left |-> n]
    BY <1>2 DEF Receive
  <2>2. peers[p].messagecb /\ fault' = FALSE
    BY <1>2 DEF Receive, UdpInv
  <2>3. n \in 0 .. MaxChunks
    BY <2>1, UdpBoundsAssumption
  <2>4. handler' \in HandlerType
    BY <2>1, <2>3 DEF HandlerType
  <2>5. handler'.peer = p /\ handler'.at = "message"
    BY <2>1
  <2>. QED
    BY <2>2, <2>4, <2>5 DEF InCall, Live
<1>. QED
  BY <1>1, <1>2

\* A step of the event handler that goes on with a peer that is there.
LEMMA HandlerStepKeeps ==
    ASSUME UdpInv, UNCHANGED <<peers, tasks, sending, destroyed>>,
           fault' = FALSE, InCall', handler' \in HandlerType \cup {None}
    PROVE  UdpInv' /\ Steady
<1>1. \A q : Askers(q)' = Askers(q) /\ Holders(q)' = Holders(q)
  BY DEF Askers, Holders, Queued
<1>2. UdpTypes'
  BY <1>1 DEF UdpInv, UdpTypes
<1>3. Queue'
  BY DEF UdpInv, Queue
<1>4. ASSUME NEW q \in Peer PROVE (Known(q) /\ Counted(q))'
  <2>1. Untouched(q)
    BY <1>1 DEF Untouched, UdpInv, Known
  <2>. QED
    BY <2>1, UntouchedKeeps
<1>5. UdpInv'
  BY <1>2, <1>3, <1>4 DEF UdpInv
<1>. QED
  BY <1>5 DEF Steady

LEMMA EventKeeps ==
    ASSUME UdpInv, NEW p \in Peer, NEW events \in Events, Event(p, events)
    PROVE  UdpInv' /\ Steady
<1>1. Live(p)
  BY DEF Event, UdpInv, Known, Live
<1>2. UNCHANGED <<peers, tasks, sending, destroyed>> /\ handler = None
  BY DEF Event
<1>3. fault' = FALSE /\ InCall' /\ handler' \in HandlerType \cup {None}
  <2>1. CASE "out" \in events /\ peers[p].writecb
    <3>1. handler' = [peer |-> p, at |-> "write", in |-> "in" \in events, left |-> 0]
          /\ fault' = FALSE
      BY <2>1 DEF Event, UdpInv
    <3>2. handler' \in HandlerType
      BY <3>1, UdpBoundsAssumption DEF HandlerType
    <3>3. handler'.peer = p /\ handler'.at = "write"
      BY <3>1
    <3>. QED
      BY <1>1, <1>2, <3>1, <3>2, <3>3 DEF InCall, Live
  <2>2. CASE ~("out" \in events /\ peers[p].writecb) /\ "in" \in events
    <3>1. Receive(p)
      BY <2>2 DEF Event
    <3>. QED
      BY <1>1, <1>2, <3>1, ReceiveKeeps
  <2>3. CASE ~("out" \in events /\ peers[p].writecb) /\ "in" \notin events
    <3>1. handler' = None /\ fault' = FALSE
      BY <1>2, <2>3 DEF Event, UdpInv
    <3>. QED
      BY <3>1 DEF InCall
  <2>. QED
    BY <2>1, <2>2, <2>3
<1>. QED
  BY <1>2, <1>3, HandlerStepKeeps

LEMMA WriteReturnKeeps ==
    ASSUME UdpInv, WriteReturn
    PROVE  UdpInv' /\ Steady
<1>1. handler # None /\ handler.peer \in Peer /\ Live(handler.peer)
      /\ UNCHANGED <<peers, tasks, sending, destroyed>>
  BY DEF WriteReturn, UdpInv, UdpTypes, HandlerType, InCall
<1>2. PICK p \in Peer : p = handler.peer
  BY <1>1
<1>3. fault' = FALSE /\ InCall' /\ handler' \in HandlerType \cup {None}
  <2>1. CASE handler.in
    <3>1. Receive(p)
      BY <1>2, <2>1 DEF WriteReturn
    <3>. QED
      BY <1>1, <1>2, <3>1, ReceiveKeeps
  <2>2. CASE ~handler.in
    <3>1. handler' = None /\ fault' = FALSE
      BY <2>2 DEF WriteReturn, UdpInv
    <3>. QED
      BY <3>1 DEF InCall
  <2>. QED
    BY <2>1, <2>2
<1>. QED
  BY <1>1, <1>3, HandlerStepKeeps

LEMMA MessageReturnKeeps ==
    ASSUME UdpInv, MessageReturn
    PROVE  UdpInv' /\ Steady
<1>1. /\ handler # None /\ handler \in HandlerType /\ Live(handler.peer)
      /\ peers[handler.peer].messagecb
      /\ UNCHANGED <<peers, tasks, sending, destroyed>>
  BY DEF MessageReturn, UdpInv, UdpTypes, InCall
<1>2. /\ fault' = FALSE
      /\ handler' = IF handler.left > 1 THEN [handler EXCEPT !.left = @ - 1] ELSE None
  BY <1>1 DEF MessageReturn, Live, UdpInv
<1>3. InCall' /\ handler' \in HandlerType \cup {None}
  <2>1. CASE handler.left > 1
    <3>1. handler.left - 1 \in 0 .. MaxChunks
      BY <1>1, <2>1, UdpBoundsAssumption DEF HandlerType
    <3>2. handler' = [handler EXCEPT !.left = @ - 1]
      BY <1>2, <2>1
    <3>3. handler' \in HandlerType /\ handler'.peer = handler.peer /\ handler'.at = handler.at
      BY <1>1, <3>1, <3>2 DEF HandlerType
    <3>. QED
      BY <1>1, <3>3 DEF InCall, Live
  <2>2. CASE ~(handler.left > 1)
    BY <1>2, <2>2 DEF InCall
  <2>. QED
    BY <2>1, <2>2
<1>. QED
  BY <1>1, <1>2, <1>3, HandlerStepKeeps

-----------------------------------------------------------------------------
(***************************************************************************)
(* Every step keeps the pool's invariant.                                  *)
(***************************************************************************)
JobType == [pc : Pcs, index : 0 .. PairCount, rtp : Peer \cup {None}, rtcp : Peer \cup {None}]

\* A step on the peers that leaves those in use where they are.
LEMMA SteadyKeeps ==
    ASSUME PoolInv, Steady, UNCHANGED poolVars
    PROVE  PoolInv'
<1>1. bitmap' = bitmap /\ job' = job /\ pairs' = pairs
  BY DEF poolVars
<1>2. \A q \in Peer : InUse(q)' <=> InUse(q)
  BY DEF Steady, InUse
<1>3. ASSUME NEW q \in Peer PROVE Owned(q)'
  <2>1. Owned(q)
    BY DEF PoolInv
  <2>. QED
    BY <1>1, <1>2, <2>1 DEF Owned, Of, Held
<1>4. Ports'
  <2>1. ASSUME NEW a \in pairs
        PROVE  peers'[a.rtp].port = peers[a.rtp].port /\ peers'[a.rtcp].port = peers[a.rtcp].port
    <3>1. a.rtp \in Peer /\ a.rtcp \in Peer
      BY DEF PoolInv, PoolTypes
    <3>2. InUse(a.rtp) /\ InUse(a.rtcp)
      BY <3>1 DEF PoolInv, Owned, Of
    <3>. QED
      BY <3>1, <3>2 DEF Steady
  <2>2. ASSUME NEW th \in Thread, job[th].pc = "rtcp"
        PROVE  peers'[job[th].rtp].port = peers[job[th].rtp].port
    <3>1. job[th].rtp \in Peer
      BY <2>2 DEF PoolInv, PoolTypes, Shape
    <3>2. InUse(job[th].rtp)
      BY <3>1 DEF PoolInv, Owned, Held
    <3>. QED
      BY <3>1, <3>2 DEF Steady
  <2>. QED
    BY <1>1, <2>1, <2>2 DEF PoolInv, Ports
<1>5. PoolTypes' /\ Claims' /\ \A th \in Thread : Shape(th)'
  BY <1>1 DEF PoolInv, PoolTypes, Claims, Shape, Busy
<1>. QED
  BY <1>3, <1>4, <1>5 DEF PoolInv

\* A thread that holds no peer goes on, and gives or takes no pair.
LEMMA JobMoves ==
    ASSUME PoolInv, UNCHANGED udpVars, pairs' = pairs,
           NEW th \in Thread, NEW j \in JobType, job' = [job EXCEPT ![th] = j],
           job[th].pc \notin {"rtcp", "freeRtcp"}, j.pc \notin {"rtcp", "freeRtcp"},
           j.rtp = None, j.rtcp = None,
           j.pc \in Working => j.index \in Index,
           Claims', bitmap' \in [Index -> {0, 1}]
    PROVE  PoolInv'
<1>1. /\ job \in [Thread -> JobType] /\ job[th].rtp = None /\ job[th].rtcp = None
  BY DEF PoolInv, PoolTypes, JobType, Shape
<1>2. /\ job' \in [Thread -> JobType] /\ job'[th] = j
      /\ \A uh \in Thread : uh # th => job'[uh] = job[uh]
  BY <1>1
<1>3. \A uh \in Thread : /\ job'[uh].rtp = job[uh].rtp /\ job'[uh].rtcp = job[uh].rtcp
                         /\ job'[uh].pc = "rtcp" <=> job[uh].pc = "rtcp"
                         /\ job'[uh].pc = "rtcp" => job'[uh].index = job[uh].index
  BY <1>1, <1>2
<1>4. peers' = peers /\ destroyed' = destroyed
  BY DEF udpVars
<1>5. ASSUME NEW q \in Peer PROVE Owned(q)'
  <2>1. Owned(q)
    BY DEF PoolInv
  <2>2. \A uh \in Thread : q \in Held(uh)' <=> q \in Held(uh)
    BY <1>3 DEF Held
  <2>3. InUse(q)' <=> InUse(q)
    BY <1>4 DEF InUse
  <2>. QED
    BY <2>1, <2>2, <2>3 DEF Owned, Of
<1>6. Ports'
  BY <1>3, <1>4 DEF PoolInv, Ports
<1>7. ASSUME NEW uh \in Thread PROVE Shape(uh)'
  <2>1. Shape(uh)
    BY DEF PoolInv
  <2>2. CASE uh = th
    BY <1>2, <2>2 DEF Shape, Busy
  <2>3. CASE uh # th
    BY <1>2, <2>1, <2>3 DEF Shape, Busy
  <2>. QED
    BY <2>2, <2>3
<1>8. PoolTypes'
  BY <1>2 DEF PoolInv, PoolTypes, JobType
<1>. QED
  BY <1>5, <1>6, <1>7, <1>8 DEF PoolInv

\* A thread takes a free index.
LEMMA ClaimTaken ==
    ASSUME PoolInv, NEW th \in Thread, NEW i \in Index, ~Busy(th), bitmap[i] = 0,
           bitmap' = [bitmap EXCEPT ![i] = 1], pairs' = pairs,
           job'[th].pc \in Working, job'[th].index = i,
           \A uh \in Thread : uh # th => job'[uh] = job[uh]
    PROVE  Claims' /\ bitmap' \in [Index -> {0, 1}]
<1>1. /\ bitmap' \in [Index -> {0, 1}] /\ bitmap'[i] = 1
      /\ \A k \in Index : k # i => bitmap'[k] = bitmap[k]
  BY DEF PoolInv, PoolTypes
<1>2. /\ \A a \in pairs : a.index # i
      /\ \A uh \in Thread : Busy(uh) => job[uh].index # i
  BY DEF PoolInv, Claims
<1>3. /\ Busy(th)'
      /\ \A uh \in Thread : uh # th => (Busy(uh)' <=> Busy(uh))
  BY DEF Busy
<1>4. \A uh, vh \in Thread : Busy(uh)' /\ Busy(vh)' /\ job'[uh].index = job'[vh].index => uh = vh
  BY <1>2, <1>3 DEF PoolInv, Claims
<1>5. \A uh \in Thread, a \in pairs : Busy(uh)' => job'[uh].index # a.index
  BY <1>2, <1>3 DEF PoolInv, Claims
<1>6. ASSUME NEW k \in Index
      PROVE  (bitmap'[k] = 1) <=> (\/ \E a \in pairs : a.index = k
                                   \/ \E uh \in Thread : Busy(uh)' /\ job'[uh].index = k)
  <2>1. CASE k = i
    BY <1>1, <1>3, <2>1
  <2>2. CASE k # i
    <3>1. \A uh \in Thread :
             Busy(uh)' /\ job'[uh].index = k <=> Busy(uh) /\ job[uh].index = k
      BY <1>3, <2>2
    <3>. QED
      BY <1>1, <2>2, <3>1 DEF PoolInv, Claims
  <2>. QED
    BY <2>1, <2>2
<1>. QED
  BY <1>1, <1>4, <1>5, <1>6 DEF PoolInv, Claims

\* A thread gives its index back.
LEMMA ClaimGiven ==
    ASSUME PoolInv, NEW th \in Thread, NEW i \in Index, Busy(th), job[th].index = i,
           bitmap' = [bitmap EXCEPT ![i] = 0], pairs' = pairs,
           job'[th].pc \notin Working,
           \A uh \in Thread : uh # th => job'[uh] = job[uh]
    PROVE  Claims' /\ bitmap' \in [Index -> {0, 1}]
<1>1. /\ bitmap' \in [Index -> {0, 1}] /\ bitmap'[i] = 0
      /\ \A k \in Index : k # i => bitmap'[k] = bitmap[k]
  BY DEF PoolInv, PoolTypes
<1>2. /\ \A a \in pairs : a.index # i
      /\ \A uh \in Thread : uh # th /\ Busy(uh) => job[uh].index # i
  BY DEF PoolInv, Claims
<1>3. /\ ~Busy(th)'
      /\ \A uh \in Thread : uh # th => (Busy(uh)' <=> Busy(uh))
  BY DEF Busy
<1>4. \A uh, vh \in Thread : Busy(uh)' /\ Busy(vh)' /\ job'[uh].index = job'[vh].index => uh = vh
  BY <1>2, <1>3 DEF PoolInv, Claims
<1>5. \A uh \in Thread, a \in pairs : Busy(uh)' => job'[uh].index # a.index
  BY <1>2, <1>3 DEF PoolInv, Claims
<1>6. ASSUME NEW k \in Index
      PROVE  (bitmap'[k] = 1) <=> (\/ \E a \in pairs : a.index = k
                                   \/ \E uh \in Thread : Busy(uh)' /\ job'[uh].index = k)
  <2>1. CASE k = i
    BY <1>1, <1>2, <1>3, <2>1
  <2>2. CASE k # i
    <3>1. \A uh \in Thread :
             Busy(uh)' /\ job'[uh].index = k <=> Busy(uh) /\ job[uh].index = k
      BY <1>3, <2>2
    <3>. QED
      BY <1>1, <2>2, <3>1 DEF PoolInv, Claims
  <2>. QED
    BY <2>1, <2>2
<1>. QED
  BY <1>1, <1>4, <1>5, <1>6 DEF PoolInv, Claims

\* An index passes from a thread to the pair it makes, or from a pair to the thread that
\* frees it, or stays with whom it is.
LEMMA ClaimPasses ==
    ASSUME PoolInv, NEW th \in Thread, bitmap' = bitmap,
           \A uh \in Thread : uh # th => job'[uh] = job[uh],
           \/ /\ pairs' = pairs /\ (Busy(th)' <=> Busy(th))
              /\ Busy(th) => job'[th].index = job[th].index
           \/ \E a : /\ pairs' = pairs \cup {a} /\ a.index = job[th].index
                     /\ Busy(th) /\ ~Busy(th)'
           \/ \E a \in pairs : /\ pairs' = pairs \ {a} /\ a.index = job'[th].index
                               /\ ~Busy(th) /\ Busy(th)'
    PROVE  Claims' /\ bitmap' \in [Index -> {0, 1}]
<1>1. \A uh \in Thread : uh # th => (Busy(uh)' <=> Busy(uh)) /\ job'[uh].index = job[uh].index
  BY DEF Busy
<1>2. Claims /\ bitmap \in [Index -> {0, 1}]
  BY DEF PoolInv, PoolTypes
<1>3. Claims'
  <2>1. CASE /\ pairs' = pairs /\ (Busy(th)' <=> Busy(th))
             /\ Busy(th) => job'[th].index = job[th].index
    <3>1. \A uh \in Thread : /\ Busy(uh)' <=> Busy(uh)
                             /\ Busy(uh) => job'[uh].index = job[uh].index
      BY <1>1, <2>1
    <3>. QED
      BY <1>2, <2>1, <3>1 DEF Claims
  <2>2. CASE \E a : /\ pairs' = pairs \cup {a} /\ a.index = job[th].index
                    /\ Busy(th) /\ ~Busy(th)'
    <3>1. PICK a : /\ pairs' = pairs \cup {a} /\ a.index = job[th].index
                   /\ Busy(th) /\ ~Busy(th)'
      BY <2>2
    <3>2. \A uh, vh \in Thread :
             Busy(uh)' /\ Busy(vh)' /\ job'[uh].index = job'[vh].index => uh = vh
      BY <1>1, <1>2, <3>1 DEF Claims
    <3>3. \A b, c \in pairs' : b.index = c.index => b = c
      BY <1>2, <3>1 DEF Claims
    <3>4. \A uh \in Thread, b \in pairs' : Busy(uh)' => job'[uh].index # b.index
      BY <1>1, <1>2, <3>1 DEF Claims
    <3>5. ASSUME NEW k \in Index
          PROVE  (\/ \E b \in pairs' : b.index = k
                  \/ \E uh \in Thread : Busy(uh)' /\ job'[uh].index = k)
                 <=> (\/ \E b \in pairs : b.index = k
                      \/ \E uh \in Thread : Busy(uh) /\ job[uh].index = k)
      BY <1>1, <3>1
    <3>. QED
      BY <1>2, <3>2, <3>3, <3>4, <3>5 DEF Claims
  <2>3. CASE \E a \in pairs : /\ pairs' = pairs \ {a} /\ a.index = job'[th].index
                              /\ ~Busy(th) /\ Busy(th)'
    <3>1. PICK a \in pairs : /\ pairs' = pairs \ {a} /\ a.index = job'[th].index
                             /\ ~Busy(th) /\ Busy(th)'
      BY <2>3
    <3>2. \A uh, vh \in Thread :
             Busy(uh)' /\ Busy(vh)' /\ job'[uh].index = job'[vh].index => uh = vh
      BY <1>1, <1>2, <3>1 DEF Claims
    <3>3. \A b, c \in pairs' : b.index = c.index => b = c
      BY <1>2, <3>1 DEF Claims
    <3>4. \A uh \in Thread, b \in pairs' : Busy(uh)' => job'[uh].index # b.index
      BY <1>1, <1>2, <3>1 DEF Claims
    <3>5. ASSUME NEW k \in Index
          PROVE  (\/ \E b \in pairs' : b.index = k
                  \/ \E uh \in Thread : Busy(uh)' /\ job'[uh].index = k)
                 <=> (\/ \E b \in pairs : b.index = k
                      \/ \E uh \in Thread : Busy(uh) /\ job[uh].index = k)
      BY <1>1, <3>1
    <3>. QED
      BY <1>2, <3>2, <3>3, <3>4, <3>5 DEF Claims
  <2>. QED
    BY <2>1, <2>2, <2>3
<1>. QED
  BY <1>2, <1>3

LEMMA PeersUnchanged ==
    ASSUME UdpInv, UNCHANGED udpVars
    PROVE  UdpInv' /\ Steady
<1>1. UNCHANGED <<peers, tasks, sending, destroyed>> /\ handler' = handler /\ fault' = FALSE
  BY DEF udpVars, UdpInv
<1>2. InCall' /\ handler' \in HandlerType \cup {None}
  BY <1>1 DEF UdpInv, UdpTypes, InCall, Live
<1>. QED
  BY <1>1, <1>2, HandlerStepKeeps

\* What the thread that takes a step is at.
LEMMA JobOf ==
    ASSUME PoolInv, NEW th \in Thread
    PROVE  /\ job \in [Thread -> JobType] /\ job[th] \in JobType
           /\ Idle \in JobType /\ Idle.pc = "idle" /\ Idle.index = 0
           /\ Idle.rtp = None /\ Idle.rtcp = None
           /\ Busy(th) => job[th].index \in Index
           /\ job[th].pc # "rtcp" => job[th].rtp = None
           /\ job[th].pc # "freeRtcp" => job[th].rtcp = None
<1>1. 0 \in 0 .. PairCount
  BY PortsAssumption
<1>. QED
  BY <1>1 DEF PoolInv, PoolTypes, JobType, Shape, Idle, Pcs

\* The job of a thread that goes on to the next index.
LEMMA NextIndexJob ==
    ASSUME PoolInv, NEW th \in Thread, NextIndex(th),
           Busy(th) \/ job[th].index < PairCount
    PROVE  \E j \in JobType : /\ job' = [job EXCEPT ![th] = j] /\ j.pc = "claim"
                              /\ j.rtp = None /\ j.rtcp = None
<1>1. job[th].index + 1 \in 0 .. PairCount
  BY JobOf, PortsAssumption DEF JobType, Index
<1>2. PICK j : j = [Idle EXCEPT !.pc = "claim", !.index = job[th].index + 1]
  OBVIOUS
<1>3. j \in JobType /\ j.pc = "claim" /\ j.rtp = None /\ j.rtcp = None
  BY <1>1, <1>2 DEF Idle, JobType, Pcs
<1>. QED
  BY <1>2, <1>3 DEF NextIndex

LEMMA AllocStartKeeps ==
    ASSUME PoolInv, NEW th \in Thread, AllocStart(th)
    PROVE  PoolInv'
<1>1. job[th] = Idle
  BY DEF AllocStart, Free
<1>2. PICK j : j = [Idle EXCEPT !.pc = "claim"]
  OBVIOUS
<1>3. /\ j \in JobType /\ j.pc = "claim" /\ j.rtp = None /\ j.rtcp = None
      /\ job' = [job EXCEPT ![th] = j]
      /\ UNCHANGED udpVars /\ bitmap' = bitmap /\ pairs' = pairs
  BY <1>1, <1>2, JobOf DEF AllocStart, Goto, JobType, Pcs
<1>4. job'[th] = j /\ \A uh \in Thread : uh # th => job'[uh] = job[uh]
  BY <1>3, JobOf
<1>5. ~Busy(th) /\ ~Busy(th)'
  BY <1>1, <1>3, <1>4, JobOf DEF Busy, Working
<1>6. Claims' /\ bitmap' \in [Index -> {0, 1}]
  BY <1>3, <1>4, <1>5, ClaimPasses
<1>7. job[th].pc \notin {"rtcp", "freeRtcp"} /\ j.pc \notin {"rtcp", "freeRtcp"} /\ j.pc \notin Working
  BY <1>1, <1>3, JobOf DEF Working
<1>. QED
  BY <1>3, <1>6, <1>7, JobMoves

LEMMA ClaimKeeps ==
    ASSUME PoolInv, NEW th \in Thread, Claim(th)
    PROVE  PoolInv'
<1>1. /\ job[th].pc = "claim" /\ job[th].index < PairCount
      /\ UNCHANGED udpVars /\ pairs' = pairs
  BY DEF Claim, At
<1>2. PICK i \in Index : i = job[th].index
  BY <1>1, JobOf, PortsAssumption DEF JobType, Index
<1>3. ~Busy(th)
  BY <1>1 DEF Busy, Working
<1>4. CASE bitmap[i] = 0
  <2>1. PICK j : j = [job[th] EXCEPT !.pc = "rtp"]
    OBVIOUS
  <2>2. /\ j \in JobType /\ j.pc = "rtp" /\ j.index = i /\ j.rtp = None /\ j.rtcp = None
        /\ j.pc \in Working
    BY <1>1, <1>2, <2>1, JobOf DEF JobType, Pcs, Working
  <2>3. /\ job' = [job EXCEPT ![th] = j] /\ bitmap' = [bitmap EXCEPT ![i] = 1]
    BY <1>2, <1>4, <2>1, JobOf DEF Claim, Goto
  <2>4. job'[th] = j /\ \A uh \in Thread : uh # th => job'[uh] = job[uh]
    BY <2>3, JobOf
  <2>5. Claims' /\ bitmap' \in [Index -> {0, 1}]
    BY <1>1, <1>3, <1>4, <2>2, <2>3, <2>4, ClaimTaken
  <2>. QED
    BY <1>1, <2>2, <2>3, <2>5, JobMoves
<1>5. CASE bitmap[i] # 0
  <2>1. NextIndex(th) /\ bitmap' = bitmap
    BY <1>2, <1>5 DEF Claim
  <2>2. PICK j \in JobType : /\ job' = [job EXCEPT ![th] = j] /\ j.pc = "claim"
                             /\ j.rtp = None /\ j.rtcp = None
    BY <1>1, <2>1, NextIndexJob
  <2>3. job'[th] = j /\ \A uh \in Thread : uh # th => job'[uh] = job[uh]
    BY <2>2, JobOf
  <2>4. ~Busy(th)' /\ j.pc \notin Working
    BY <2>2, <2>3 DEF Busy, Working
  <2>5. Claims' /\ bitmap' \in [Index -> {0, 1}]
    BY <1>1, <1>3, <2>1, <2>3, <2>4, ClaimPasses
  <2>. QED
    BY <1>1, <2>2, <2>4, <2>5, JobMoves
<1>. QED
  BY <1>4, <1>5

LEMMA AllocFailsKeeps ==
    ASSUME PoolInv, NEW th \in Thread, AllocFails(th)
    PROVE  PoolInv'
<1>1. /\ job[th].pc = "claim" /\ job' = [job EXCEPT ![th] = Idle]
      /\ UNCHANGED udpVars /\ pairs' = pairs /\ bitmap' = bitmap
  BY DEF AllocFails, At
<1>2. job'[th] = Idle /\ \A uh \in Thread : uh # th => job'[uh] = job[uh]
  BY <1>1, JobOf
<1>3. ~Busy(th) /\ ~Busy(th)' /\ Idle.pc \notin Working
  BY <1>1, <1>2, JobOf DEF Busy, Working
<1>4. Claims' /\ bitmap' \in [Index -> {0, 1}]
  BY <1>1, <1>2, <1>3, ClaimPasses
<1>. QED
  BY <1>1, <1>3, <1>4, JobOf, JobMoves

\* A bit is cleared: after a port could not be had, or the pair was destroyed.
LEMMA BitClearedKeeps ==
    ASSUME PoolInv, NEW th \in Thread, RtpFails(th) \/ GiveBack(th) \/ FreeBit(th)
    PROVE  PoolInv'
<1>1. /\ job[th].pc \in {"rtp", "giveback", "freeBit"}
      /\ bitmap' = [bitmap EXCEPT ![job[th].index] = 0]
      /\ UNCHANGED udpVars /\ pairs' = pairs
      /\ NextIndex(th) \/ job' = [job EXCEPT ![th] = Idle]
  BY DEF RtpFails, GiveBack, FreeBit, At
<1>2. Busy(th)
  BY <1>1 DEF Busy, Working
<1>3. PICK i \in Index : i = job[th].index
  BY <1>2, JobOf
<1>4. PICK j \in JobType : /\ job' = [job EXCEPT ![th] = j] /\ j.pc \in {"claim", "idle"}
                           /\ j.rtp = None /\ j.rtcp = None
  <2>1. CASE NextIndex(th)
    BY <1>2, <2>1, NextIndexJob
  <2>2. CASE job' = [job EXCEPT ![th] = Idle]
    BY <2>2, JobOf
  <2>. QED
    BY <1>1, <2>1, <2>2
<1>5. job'[th] = j /\ \A uh \in Thread : uh # th => job'[uh] = job[uh]
  BY <1>4, JobOf
<1>6. j.pc \notin Working
  BY <1>4 DEF Working
<1>7. Claims' /\ bitmap' \in [Index -> {0, 1}]
  BY <1>1, <1>2, <1>3, <1>5, <1>6, ClaimGiven
<1>. QED
  BY <1>1, <1>4, <1>6, <1>7, JobMoves

LEMMA OpenRtpKeeps ==
    ASSUME Inv, NEW th \in Thread, NEW writecb \in BOOLEAN, OpenRtp(th, writecb)
    PROVE  Inv'
<1>1. job[th].pc = "rtp" /\ bitmap' = bitmap /\ pairs' = pairs
  BY DEF OpenRtp, At
<1>2. PICK i \in Index : i = job[th].index
  BY <1>1, JobOf DEF Inv, Busy, Working
<1>3. PICK p : p = FreshPeer
  OBVIOUS
<1>4. 2 * i \in Port /\ New(th, 2 * i, writecb)
  BY <1>2, PortsAssumption DEF Index, OpenRtp
<1>5. /\ UdpInv' /\ destroyed' = destroyed
      /\ p \in Peer /\ peers[p].mem = "unused"
      /\ peers'[p].mem = "live" /\ peers'[p].port = 2 * i
      /\ \A q \in Peer : q # p => peers'[q] = peers[q]
  BY <1>3, <1>4, NewKeeps DEF Inv
<1>6. PICK j : j = [job[th] EXCEPT !.pc = "rtcp", !.rtp = p]
  OBVIOUS
<1>7. /\ j \in JobType /\ j.pc = "rtcp" /\ j.index = i /\ j.rtp = p /\ j.rtcp = None
      /\ job[th].rtp = None /\ job[th].rtcp = None /\ job \in [Thread -> JobType]
  BY <1>1, <1>2, <1>5, <1>6, JobOf DEF Inv, JobType, Pcs
<1>8. job' = [job EXCEPT ![th] = j]
  BY <1>3, <1>6, <1>7 DEF OpenRtp
<1>9. job'[th] = j /\ \A uh \in Thread : uh # th => job'[uh] = job[uh]
  BY <1>7, <1>8
<1>10. Busy(th) /\ Busy(th)' /\ job'[th].index = job[th].index
  BY <1>1, <1>2, <1>7, <1>9 DEF Busy, Working
<1>11. Claims' /\ bitmap' \in [Index -> {0, 1}]
  BY <1>1, <1>9, <1>10, ClaimPasses DEF Inv
<1>12. PoolTypes'
  BY <1>1, <1>7, <1>8, <1>11 DEF Inv, PoolInv, PoolTypes, JobType
<1>13. p \notin destroyed /\ ~InUse(p) /\ p # None
  BY <1>5, NoneAssumption DEF Inv, UdpInv, Known, InUse
<1>14. ASSUME NEW uh \in Thread PROVE Shape(uh)'
  <2>1. Shape(uh)
    BY DEF Inv, PoolInv
  <2>2. CASE uh = th
    BY <1>7, <1>9, <1>13, <2>2 DEF Shape, Busy
  <2>3. CASE uh # th
    BY <1>9, <2>1, <2>3 DEF Shape, Busy
  <2>. QED
    BY <2>2, <2>3
<1>15. /\ \A a \in pairs : p \notin Of(a)
       /\ \A uh \in Thread : p \notin Held(uh)
  BY <1>5, <1>13 DEF Inv, PoolInv, Owned
<1>16. Ports'
  <2>1. \A a \in pairs : a.rtp \in Peer /\ a.rtcp \in Peer
    BY DEF Inv, PoolInv, PoolTypes
  <2>2. \A a \in pairs' : /\ peers'[a.rtp].port = 2 * a.index
                          /\ peers'[a.rtcp].port = 2 * a.index + 1
    BY <1>1, <1>5, <1>15, <2>1 DEF Inv, PoolInv, Ports, Of
  <2>3. ASSUME NEW uh \in Thread, job'[uh].pc = "rtcp"
        PROVE  peers'[job'[uh].rtp].port = 2 * job'[uh].index
    <3>1. CASE uh = th
      BY <1>5, <1>7, <1>9, <3>1
    <3>2. CASE uh # th
      <4>1. job[uh].rtp \in Peer /\ job[uh].rtp # p
        BY <1>9, <1>15, <2>3, <3>2 DEF Inv, PoolInv, PoolTypes, Shape, Held
      <4>. QED
        BY <1>5, <1>9, <2>3, <3>2, <4>1 DEF Inv, PoolInv, Ports
    <3>. QED
      BY <3>1, <3>2
  <2>. QED
    BY <2>2, <2>3 DEF Ports
<1>17. ASSUME NEW q \in Peer PROVE Owned(q)'
  <2>1. Owned(q) /\ q # None
    BY NoneAssumption DEF Inv, PoolInv
  <2>2. CASE q = p
    <3>1. InUse(q)'
      BY <1>5, <1>13, <2>2 DEF InUse
    <3>2. \A uh \in Thread : q \in Held(uh)' <=> uh = th
      BY <1>7, <1>9, <1>15, <2>2 DEF Held
    <3>3. \A a \in pairs : q \notin Of(a)
      BY <1>15, <2>2
    <3>. QED
      BY <1>1, <3>1, <3>2, <3>3 DEF Owned, Of
  <2>3. CASE q # p
    <3>1. InUse(q)' <=> InUse(q)
      BY <1>5, <2>3 DEF InUse
    <3>2. \A uh \in Thread : q \in Held(uh)' <=> q \in Held(uh)
      BY <1>7, <1>9, <2>1, <2>3 DEF Held
    <3>. QED
      BY <1>1, <2>1, <3>1, <3>2 DEF Owned, Of
  <2>. QED
    BY <2>2, <2>3
<1>. QED
  BY <1>5, <1>11, <1>12, <1>14, <1>16, <1>17 DEF Inv, PoolInv

LEMMA OpenRtcpKeeps ==
    ASSUME Inv, NEW th \in Thread, NEW writecb \in BOOLEAN, OpenRtcp(th, writecb)
    PROVE  Inv'
<1>1. job[th].pc = "rtcp" /\ bitmap' = bitmap /\ job' = [job EXCEPT ![th] = Idle]
  BY DEF OpenRtcp, At
<1>2. PICK i \in Index : i = job[th].index
  BY <1>1, JobOf DEF Inv, Busy, Working
<1>3. PICK p : p = FreshPeer
  OBVIOUS
<1>4. 2 * i + 1 \in Port /\ New(th, 2 * i + 1, writecb)
  BY <1>2, PortsAssumption DEF Index, OpenRtcp
<1>5. /\ UdpInv' /\ destroyed' = destroyed
      /\ p \in Peer /\ peers[p].mem = "unused"
      /\ peers'[p].mem = "live" /\ peers'[p].port = 2 * i + 1
      /\ \A q \in Peer : q # p => peers'[q] = peers[q]
  BY <1>3, <1>4, NewKeeps DEF Inv
<1>6. PICK r \in Peer : r = job[th].rtp
  BY <1>1 DEF Inv, PoolInv, PoolTypes, Shape
<1>7. PICK a : /\ a = [index |-> i, rtp |-> r, rtcp |-> p]
               /\ pairs' = pairs \cup {a}
  BY <1>2, <1>3, <1>6 DEF OpenRtcp
<1>8. job'[th] = Idle /\ (\A uh \in Thread : uh # th => job'[uh] = job[uh])
      /\ job' \in [Thread -> JobType]
  BY <1>1, JobOf DEF Inv
<1>9. Busy(th) /\ ~Busy(th)'
  BY <1>1, <1>8 DEF Busy, Working, Idle
<1>10. Claims' /\ bitmap' \in [Index -> {0, 1}]
  BY <1>1, <1>2, <1>7, <1>8, <1>9, ClaimPasses DEF Inv
<1>11. PoolTypes'
  BY <1>5, <1>7, <1>8, <1>10 DEF Inv, PoolInv, PoolTypes, JobType
<1>12. p \notin destroyed /\ ~InUse(p) /\ p # None /\ r # None
  BY <1>5, NoneAssumption DEF Inv, UdpInv, Known, InUse
<1>13. ASSUME NEW uh \in Thread PROVE Shape(uh)'
  <2>1. Shape(uh)
    BY DEF Inv, PoolInv
  <2>2. CASE uh = th
    BY <1>8, <2>2 DEF Shape, Busy, Idle, Working
  <2>3. CASE uh # th
    BY <1>8, <2>1, <2>3 DEF Shape, Busy
  <2>. QED
    BY <2>2, <2>3
<1>14. /\ \A b \in pairs : p \notin Of(b)
       /\ \A uh \in Thread : p \notin Held(uh)
  BY <1>5, <1>12 DEF Inv, PoolInv, Owned
<1>15. r # p /\ job[th].rtcp = None
  BY <1>1, <1>6, <1>14, JobOf DEF Held, Inv
<1>16. Ports'
  <2>1. \A b \in pairs : b.rtp \in Peer /\ b.rtcp \in Peer
    BY DEF Inv, PoolInv, PoolTypes
  <2>2. \A b \in pairs : /\ peers'[b.rtp].port = 2 * b.index
                         /\ peers'[b.rtcp].port = 2 * b.index + 1
    BY <1>5, <1>14, <2>1 DEF Inv, PoolInv, Ports, Of
  <2>3. peers'[r].port = 2 * i
    BY <1>1, <1>2, <1>5, <1>6, <1>15 DEF Inv, PoolInv, Ports
  <2>4. \A b \in pairs' : /\ peers'[b.rtp].port = 2 * b.index
                          /\ peers'[b.rtcp].port = 2 * b.index + 1
    BY <1>5, <1>7, <2>2, <2>3
  <2>5. ASSUME NEW uh \in Thread, job'[uh].pc = "rtcp"
        PROVE  peers'[job'[uh].rtp].port = 2 * job'[uh].index
    <3>1. uh # th
      BY <1>8, <2>5 DEF Idle
    <3>2. job[uh].rtp \in Peer /\ job[uh].rtp # p
      BY <1>8, <1>14, <2>5, <3>1 DEF Inv, PoolInv, PoolTypes, Shape, Held
    <3>. QED
      BY <1>5, <1>8, <2>5, <3>1, <3>2 DEF Inv, PoolInv, Ports
  <2>. QED
    BY <2>4, <2>5 DEF Ports
<1>17. ASSUME NEW q \in Peer PROVE Owned(q)'
  <2>1. Owned(q) /\ q # None
    BY NoneAssumption DEF Inv, PoolInv
  <2>2. q \notin Held(th)' /\ \A uh \in Thread : uh # th => (q \in Held(uh)' <=> q \in Held(uh))
    BY <1>8, <2>1 DEF Held, Idle
  <2>3. \A b \in pairs' : b \in pairs \/ b = a
    BY <1>7
  <2>4. a \in pairs' /\ pairs \subseteq pairs' /\ Of(a) = {r, p}
    BY <1>7 DEF Of
  <2>5. CASE q = p
    <3>1. InUse(q)'
      BY <1>5, <1>12, <2>5 DEF InUse
    <3>2. \A uh \in Thread : q \notin Held(uh)'
      BY <1>14, <2>2, <2>5
    <3>3. \A b \in pairs' : q \in Of(b) <=> b = a
      BY <1>14, <2>3, <2>4, <2>5
    <3>. QED
      BY <2>4, <3>1, <3>2, <3>3 DEF Owned, Of
  <2>6. CASE q = r
    <3>1. q \in Held(th)
      BY <1>6, <2>6 DEF Held
    <3>2. InUse(q)' /\ (\A uh \in Thread : q \notin Held(uh)')
      BY <1>5, <1>15, <2>1, <2>2, <2>6, <3>1 DEF InUse, Owned
    <3>3. \A b \in pairs' : q \in Of(b) <=> b = a
      BY <2>1, <2>3, <2>4, <2>6, <3>1 DEF Owned
    <3>. QED
      BY <2>4, <3>2, <3>3 DEF Owned, Of
  <2>7. CASE q # p /\ q # r
    <3>1. InUse(q)' <=> InUse(q)
      BY <1>5, <2>7 DEF InUse
    <3>2. \A uh \in Thread : q \in Held(uh)' <=> q \in Held(uh)
      BY <1>6, <1>15, <2>1, <2>2, <2>7 DEF Held
    <3>3. q \notin Of(a)
      BY <2>4, <2>7
    <3>4. \A b \in pairs' : q \in Of(b) => b \in pairs
      BY <2>3, <3>3
    <3>. QED
      BY <2>1, <2>4, <3>1, <3>2, <3>4 DEF Owned, Of
  <2>. QED
    BY <2>5, <2>6, <2>7
<1>. QED
  BY <1>5, <1>10, <1>11, <1>13, <1>16, <1>17 DEF Inv, PoolInv

\* A thread that destroys the one peer it holds goes on without it.
LEMMA DestroyHeldKeeps ==
    ASSUME Careless = FALSE, Inv, NEW th \in Thread, NEW p \in Peer,
           p \in Held(th), DestroyPeer(th, p),
           NEW j \in JobType, job' = [job EXCEPT ![th] = j],
           j.pc \in {"giveback", "freeBit"}, j.index = job[th].index,
           j.rtp = None, j.rtcp = None, bitmap' = bitmap, pairs' = pairs
    PROVE  Inv'
<1>1. p # None /\ job[th].pc \in {"rtcp", "freeRtcp"} /\ job \in [Thread -> JobType]
  BY NoneAssumption, JobOf DEF Inv, Held
<1>2. job'[th] = j /\ (\A uh \in Thread : uh # th => job'[uh] = job[uh])
      /\ job' \in [Thread -> JobType]
  BY <1>1
<1>3. InUse(p)
  BY DEF Inv, PoolInv, Owned
<1>4. /\ UdpInv' /\ destroyed' = destroyed \cup {p}
      /\ \A q \in Peer : q # p => peers'[q] = peers[q]
  BY <1>3, DestroyKeeps DEF Inv
<1>5. Busy(th) /\ Busy(th)'
  BY <1>1, <1>2 DEF Busy, Working
<1>6. Claims' /\ bitmap' \in [Index -> {0, 1}]
  BY <1>2, <1>5, ClaimPasses DEF Inv
<1>7. PoolTypes'
  BY <1>2, <1>6 DEF Inv, PoolInv, PoolTypes, JobType
<1>8. ASSUME NEW uh \in Thread PROVE Shape(uh)'
  <2>1. Shape(uh) /\ Shape(th)
    BY DEF Inv, PoolInv
  <2>2. CASE uh = th
    BY <1>2, <1>5, <2>1, <2>2 DEF Shape, Busy
  <2>3. CASE uh # th
    BY <1>2, <2>1, <2>3 DEF Shape, Busy
  <2>. QED
    BY <2>2, <2>3
<1>9. /\ \A a \in pairs : p \notin Of(a)
      /\ \A uh \in Thread : uh # th => p \notin Held(uh)
  BY DEF Inv, PoolInv, Owned
<1>10. Ports'
  <2>1. \A a \in pairs : a.rtp \in Peer /\ a.rtcp \in Peer
    BY DEF Inv, PoolInv, PoolTypes
  <2>2. \A a \in pairs' : /\ peers'[a.rtp].port = 2 * a.index
                          /\ peers'[a.rtcp].port = 2 * a.index + 1
    BY <1>4, <1>9, <2>1 DEF Inv, PoolInv, Ports, Of
  <2>3. ASSUME NEW uh \in Thread, job'[uh].pc = "rtcp"
        PROVE  peers'[job'[uh].rtp].port = 2 * job'[uh].index
    <3>1. uh # th
      BY <1>2, <2>3
    <3>2. job[uh].rtp \in Peer /\ job[uh].rtp # p
      BY <1>2, <1>9, <2>3, <3>1 DEF Inv, PoolInv, PoolTypes, Shape, Held
    <3>. QED
      BY <1>2, <1>4, <2>3, <3>1, <3>2 DEF Inv, PoolInv, Ports
  <2>. QED
    BY <2>2, <2>3 DEF Ports
<1>11. ASSUME NEW q \in Peer PROVE Owned(q)'
  <2>1. Owned(q) /\ q # None
    BY NoneAssumption DEF Inv, PoolInv
  <2>2. q \notin Held(th)' /\ \A uh \in Thread : uh # th => (q \in Held(uh)' <=> q \in Held(uh))
    BY <1>2, <2>1 DEF Held
  <2>3. CASE q = p
    <3>1. ~InUse(q)'
      BY <1>4, <2>3 DEF InUse
    <3>2. /\ \A uh \in Thread : q \notin Held(uh)'
          /\ \A a \in pairs' : q \notin Of(a)
      BY <1>9, <2>2, <2>3
    <3>. QED
      BY <3>1, <3>2 DEF Owned, Of
  <2>4. CASE q # p
    <3>1. InUse(q)' <=> InUse(q)
      BY <1>4, <2>4 DEF InUse
    <3>2. q \notin Held(th)
      BY <1>1, <2>1, <2>4, JobOf DEF Inv, Held
    <3>3. \A uh \in Thread : q \in Held(uh)' <=> q \in Held(uh)
      BY <2>2, <3>2
    <3>. QED
      BY <2>1, <3>1, <3>3 DEF Owned, Of
  <2>. QED
    BY <2>3, <2>4
<1>. QED
  BY <1>4, <1>6, <1>7, <1>8, <1>10, <1>11 DEF Inv, PoolInv

LEMMA RtcpFailsKeeps ==
    ASSUME Careless = FALSE, Inv, NEW th \in Thread, RtcpFails(th)
    PROVE  Inv'
<1>1. job[th].pc = "rtcp" /\ bitmap' = bitmap /\ pairs' = pairs
  BY DEF RtcpFails, At
<1>2. PICK p \in Peer : p = job[th].rtp
  BY <1>1 DEF Inv, PoolInv, PoolTypes, Shape
<1>3. p \in Held(th) /\ DestroyPeer(th, p)
  BY <1>2 DEF RtcpFails, Held
<1>4. PICK j : j = [job[th] EXCEPT !.pc = "giveback", !.rtp = None]
  OBVIOUS
<1>5. /\ j \in JobType /\ j.pc = "giveback" /\ j.index = job[th].index
      /\ j.rtp = None /\ j.rtcp = None /\ job' = [job EXCEPT ![th] = j]
  BY <1>1, <1>4, JobOf DEF Inv, JobType, Pcs, RtcpFails
<1>. QED
  BY <1>1, <1>3, <1>5, DestroyHeldKeeps

LEMMA FreeRtcpKeeps ==
    ASSUME Careless = FALSE, Inv, NEW th \in Thread, FreeRtcp(th)
    PROVE  Inv'
<1>1. job[th].pc = "freeRtcp" /\ bitmap' = bitmap /\ pairs' = pairs
  BY DEF FreeRtcp, At
<1>2. PICK p \in Peer : p = job[th].rtcp
  BY <1>1 DEF Inv, PoolInv, PoolTypes, Shape
<1>3. p \in Held(th) /\ DestroyPeer(th, p)
  BY <1>2 DEF FreeRtcp, Held
<1>4. PICK j : j = [job[th] EXCEPT !.pc = "freeBit", !.rtcp = None]
  OBVIOUS
<1>5. /\ j \in JobType /\ j.pc = "freeBit" /\ j.index = job[th].index
      /\ j.rtp = None /\ j.rtcp = None /\ job' = [job EXCEPT ![th] = j]
  BY <1>1, <1>4, JobOf DEF Inv, JobType, Pcs, FreeRtcp
<1>. QED
  BY <1>1, <1>3, <1>5, DestroyHeldKeeps

LEMMA FreeStartKeeps ==
    ASSUME Careless = FALSE, Inv, NEW th \in Thread, NEW pair \in pairs, FreeStart(th, pair)
    PROVE  Inv'
<1>1. job[th] = Idle /\ bitmap' = bitmap /\ pairs' = pairs \ {pair} /\ DestroyPeer(th, pair.rtp)
  BY DEF FreeStart, Free
<1>2. PICK i \in Index, p \in Peer, r \in Peer : i = pair.index /\ p = pair.rtp /\ r = pair.rtcp
  BY DEF Inv, PoolInv, PoolTypes
<1>3. p # r /\ p # None /\ r # None
  <2>1. peers[p].port = 2 * i /\ peers[r].port = 2 * i + 1
    BY <1>2 DEF Inv, PoolInv, Ports
  <2>2. 2 * i # 2 * i + 1
    BY PortsAssumption DEF Index
  <2>. QED
    BY <2>1, <2>2, NoneAssumption
<1>4. /\ InUse(p) /\ p \in Of(pair) /\ r \in Of(pair) /\ Of(pair) = {p, r}
  BY <1>2 DEF Inv, PoolInv, Owned, Of
<1>5. /\ UdpInv' /\ destroyed' = destroyed \cup {p}
      /\ \A q \in Peer : q # p => peers'[q] = peers[q]
  BY <1>1, <1>2, <1>4, DestroyKeeps DEF Inv
<1>6. PICK j : j = [pc |-> "freeRtcp", index |-> i, rtp |-> None, rtcp |-> r]
  OBVIOUS
<1>7. /\ j \in JobType /\ j.pc = "freeRtcp" /\ j.index = i /\ j.rtp = None /\ j.rtcp = r
      /\ job' = [job EXCEPT ![th] = j]
  <2>1. i \in 0 .. PairCount
    BY PortsAssumption DEF Index
  <2>. QED
    BY <1>2, <1>6, <2>1 DEF JobType, Pcs, FreeStart
<1>8. job'[th] = j /\ (\A uh \in Thread : uh # th => job'[uh] = job[uh])
      /\ job' \in [Thread -> JobType]
  BY <1>7, JobOf DEF Inv
<1>9. ~Busy(th) /\ Busy(th)' /\ pair.index = job'[th].index
  BY <1>1, <1>2, <1>7, <1>8 DEF Busy, Working, Idle
<1>10. Claims' /\ bitmap' \in [Index -> {0, 1}]
  BY <1>1, <1>8, <1>9, ClaimPasses DEF Inv
<1>11. PoolTypes'
  BY <1>1, <1>8, <1>10 DEF Inv, PoolInv, PoolTypes, JobType
<1>12. ASSUME NEW uh \in Thread PROVE Shape(uh)'
  <2>1. Shape(uh)
    BY DEF Inv, PoolInv
  <2>2. CASE uh = th
    BY <1>3, <1>7, <1>8, <2>2 DEF Shape, Busy
  <2>3. CASE uh # th
    BY <1>8, <2>1, <2>3 DEF Shape, Busy
  <2>. QED
    BY <2>2, <2>3
<1>13. /\ \A a \in pairs : p \in Of(a) \/ r \in Of(a) => a = pair
       /\ \A uh \in Thread : p \notin Held(uh) /\ r \notin Held(uh)
  BY <1>4 DEF Inv, PoolInv, Owned
<1>14. Ports'
  <2>1. \A a \in pairs : a.rtp \in Peer /\ a.rtcp \in Peer
    BY DEF Inv, PoolInv, PoolTypes
  <2>2. \A a \in pairs' : /\ peers'[a.rtp].port = 2 * a.index
                          /\ peers'[a.rtcp].port = 2 * a.index + 1
    BY <1>1, <1>5, <1>13, <2>1 DEF Inv, PoolInv, Ports, Of
  <2>3. ASSUME NEW uh \in Thread, job'[uh].pc = "rtcp"
        PROVE  peers'[job'[uh].rtp].port = 2 * job'[uh].index
    <3>1. uh # th
      BY <1>7, <1>8, <2>3
    <3>2. job[uh].rtp \in Peer /\ job[uh].rtp # p
      BY <1>8, <1>13, <2>3, <3>1 DEF Inv, PoolInv, PoolTypes, Shape, Held
    <3>. QED
      BY <1>5, <1>8, <2>3, <3>1, <3>2 DEF Inv, PoolInv, Ports
  <2>. QED
    BY <2>2, <2>3 DEF Ports
<1>15. ASSUME NEW q \in Peer PROVE Owned(q)'
  <2>1. Owned(q) /\ q # None
    BY NoneAssumption DEF Inv, PoolInv
  <2>2. /\ q \in Held(th)' <=> q = r
        /\ \A uh \in Thread : uh # th => (q \in Held(uh)' <=> q \in Held(uh))
    BY <1>7, <1>8, <2>1 DEF Held
  <2>3. \A a \in pairs' : a \in pairs /\ a # pair
    BY <1>1
  <2>4. CASE q = p
    <3>1. ~InUse(q)'
      BY <1>5, <2>4 DEF InUse
    <3>2. /\ \A uh \in Thread : q \notin Held(uh)'
          /\ \A a \in pairs' : q \notin Of(a)
      BY <1>3, <1>13, <2>2, <2>3, <2>4
    <3>. QED
      BY <3>1, <3>2 DEF Owned, Of
  <2>5. CASE q = r
    <3>1. InUse(q)'
      BY <1>3, <1>4, <1>5, <2>1, <2>5 DEF InUse, Owned
    <3>2. /\ \A uh \in Thread : q \in Held(uh)' <=> uh = th
          /\ \A a \in pairs' : q \notin Of(a)
      BY <1>13, <2>2, <2>3, <2>5
    <3>. QED
      BY <3>1, <3>2 DEF Owned, Of
  <2>6. CASE q # p /\ q # r
    <3>1. InUse(q)' <=> InUse(q)
      BY <1>5, <2>6 DEF InUse
    <3>2. q \notin Held(th)
      BY <1>1, <2>1 DEF Held, Idle
    <3>3. \A uh \in Thread : q \in Held(uh)' <=> q \in Held(uh)
      BY <2>2, <2>6, <3>2
    <3>4. \A a \in pairs : q \in Of(a) => a \in pairs'
      BY <1>1, <1>4, <2>6
    <3>. QED
      BY <2>1, <2>3, <3>1, <3>3, <3>4 DEF Owned, Of
  <2>. QED
    BY <2>4, <2>5, <2>6
<1>. QED
  BY <1>5, <1>10, <1>11, <1>12, <1>14, <1>15 DEF Inv, PoolInv

-----------------------------------------------------------------------------
(***************************************************************************)
(* The theorems.                                                           *)
(***************************************************************************)
LEMMA InvAtStart == Init => Inv
<1> SUFFICES ASSUME Init PROVE Inv
  OBVIOUS
<1>1. /\ peers = [p \in Peer |-> NoPeer] /\ tasks = <<>> /\ sending = [c \in Client |-> None]
      /\ handler = None /\ destroyed = {} /\ fault = FALSE
      /\ bitmap = [i \in Index |-> 0] /\ job = [th \in Thread |-> Idle] /\ pairs = {}
  BY DEF Init, UdpInit
<1>2. NoPeer \in PeerType /\ NoPeer.mem = "unused" /\ NoPeer.interest = {}
  BY DEF NoPeer, PeerType, Events
<1>3. \A p : Askers(p) = {}
  BY <1>1 DEF Askers
<1>4. UdpTypes
  <2>1. IsFiniteSet({})
    BY FS_EmptySet
  <2>2. tasks \in Seq(Task)
    BY <1>1
  <2>. QED
    BY <1>1, <1>2, <1>3, <2>1, <2>2 DEF UdpTypes
<1>5. UdpInv
  <2>1. DOMAIN tasks = {}
    BY <1>1
  <2>2. \A p \in Peer : Known(p) /\ Counted(p)
    BY <1>1, <1>2, <1>3, <2>1 DEF Known, Counted, Live
  <2>. QED
    BY <1>1, <1>4, <2>1, <2>2 DEF UdpInv, Queue, InCall
<1>6. Idle \in JobType /\ Idle.pc \notin Working /\ Idle.rtp = None /\ Idle.rtcp = None
      /\ Idle.pc \notin {"rtcp", "freeRtcp"}
  <2>1. 0 \in 0 .. PairCount
    BY PortsAssumption
  <2>. QED
    BY <2>1 DEF Idle, JobType, Pcs, Working
<1>7. PoolTypes /\ Claims /\ Ports /\ \A th \in Thread : Shape(th) /\ ~Busy(th)
  BY <1>1, <1>6 DEF PoolTypes, JobType, Claims, Ports, Shape, Busy
<1>8. ASSUME NEW p \in Peer PROVE Owned(p)
  <2>1. ~InUse(p) /\ p # None
    BY <1>1, <1>2, NoneAssumption DEF InUse
  <2>2. \A th \in Thread : p \notin Held(th)
    BY <1>1, <1>6, <2>1 DEF Held
  <2>. QED
    BY <1>1, <2>1, <2>2 DEF Owned
<1>. QED
  BY <1>5, <1>7, <1>8 DEF Inv, PoolInv

LEMMA InvNext ==
    ASSUME Careless = FALSE, Inv, [Next]_vars
    PROVE  Inv'
<1>1. ASSUME NEW th \in Thread, Call(th) PROVE Inv'
  <2>1. CASE AllocStart(th)
    BY <2>1, AllocStartKeeps, PeersUnchanged DEF Inv, AllocStart
  <2>2. CASE \E pair \in pairs : FreeStart(th, pair)
    BY <2>2, FreeStartKeeps
  <2>. QED
    BY <1>1, <2>1, <2>2 DEF Call
<1>2. ASSUME NEW th \in Thread, Continue(th) PROVE Inv'
  <2>1. CASE Claim(th)
    BY <2>1, ClaimKeeps, PeersUnchanged DEF Inv, Claim
  <2>2. CASE AllocFails(th)
    BY <2>2, AllocFailsKeeps, PeersUnchanged DEF Inv, AllocFails
  <2>3. CASE \E writecb \in BOOLEAN : OpenRtp(th, writecb) \/ OpenRtcp(th, writecb)
    BY <2>3, OpenRtpKeeps, OpenRtcpKeeps
  <2>4. CASE RtpFails(th) \/ GiveBack(th) \/ FreeBit(th)
    <3>1. UNCHANGED udpVars
      BY <2>4 DEF RtpFails, GiveBack, FreeBit
    <3>. QED
      BY <2>4, <3>1, BitClearedKeeps, PeersUnchanged DEF Inv
  <2>5. CASE RtcpFails(th)
    BY <2>5, RtcpFailsKeeps
  <2>6. CASE FreeRtcp(th)
    BY <2>6, FreeRtcpKeeps
  <2>. QED
    BY <1>2, <2>1, <2>2, <2>3, <2>4, <2>5, <2>6 DEF Continue
<1>3. ASSUME UdpInv' /\ Steady, UNCHANGED poolVars PROVE Inv'
  BY <1>3, SteadyKeeps DEF Inv
<1>4. ASSUME Request, UNCHANGED poolVars PROVE Inv'
  <2>1. PICK p \in Peer, op \in Requests, cb \in BOOLEAN :
           \/ LoopRequest(p, op, cb)
           \/ \E c \in Client : ClientRequest(c, p, op, cb)
    BY <1>4 DEF Request
  <2>2. UdpInv' /\ Steady
    BY <2>1, LoopRequestKeeps, ClientRequestKeeps DEF Inv
  <2>. QED
    BY <1>3, <1>4, <2>2
<1>5. ASSUME NEW c \in Client, ClientAppend(c), UNCHANGED poolVars PROVE Inv'
  BY <1>3, <1>5, ClientAppendKeeps DEF Inv
<1>6. ASSUME NEW p \in Peer, NEW events \in Events, LoopStep(Event(p, events)) PROVE Inv'
  BY <1>3, <1>6, EventKeeps DEF Inv, LoopStep
<1>7. ASSUME LoopStep(RunTask) \/ LoopStep(WriteReturn) \/ LoopStep(MessageReturn) PROVE Inv'
  <2>1. (RunTask \/ WriteReturn \/ MessageReturn) /\ UNCHANGED poolVars
    BY <1>7 DEF LoopStep
  <2>2. UdpInv' /\ Steady
    BY <2>1, RunTaskKeeps, WriteReturnKeeps, MessageReturnKeeps DEF Inv
  <2>. QED
    BY <1>3, <2>1, <2>2
<1>8. CASE UNCHANGED vars
  <2>1. UNCHANGED udpVars /\ UNCHANGED poolVars
    BY <1>8 DEF vars, udpVars, poolVars
  <2>2. UdpInv' /\ Steady
    BY <2>1, PeersUnchanged DEF Inv
  <2>. QED
    BY <1>3, <2>1, <2>2
<1>. QED
  BY <1>1, <1>2, <1>4, <1>5, <1>6, <1>7, <1>8 DEF Next

THEOREM InvAlways ==
    ASSUME Careless = FALSE
    PROVE  Spec => []Inv
BY InvAtStart, InvNext, PTL DEF Spec

\* No step of udp_peer.c uses a freed peer or calls a message callback that was cleared,
\* whatever requests of whatever threads are on their way when the peer is destroyed.
THEOREM NoFaultAlways ==
    ASSUME Careless = FALSE
    PROVE  Spec => []NoFault
<1>1. Inv => NoFault
  BY DEF Inv, UdpInv, NoFault
<1>. QED
  BY <1>1, InvAlways, PTL

\* ref_count counts those who may still use the peer: nobody frees a peer that another
\* holds, and none is kept that nobody holds.
THEOREM RefCountsHoldersAlways ==
    ASSUME Careless = FALSE
    PROVE  Spec => []RefCountsHolders
<1>1. Inv => RefCountsHolders
  BY DEF Inv, UdpInv, Counted, RefCountsHolders
<1>. QED
  BY <1>1, InvAlways, PTL

LEMMA AtMostOne ==
    ASSUME NEW S, \A x, y \in S : x = y
    PROVE  Cardinality(S) = IF S = {} THEN 0 ELSE 1
<1>1. CASE S = {}
  BY <1>1, FS_EmptySet
<1>2. CASE S # {}
  <2>1. PICK x \in S : S = {x}
    BY <1>2
  <2>2. Cardinality({x}) = 1
    BY FS_Singleton
  <2>. QED
    BY <1>2, <2>1, <2>2
<1>. QED
  BY <1>1, <1>2

LEMMA OneOwnerOfIndex ==
    ASSUME PoolInv, NEW i \in Index
    PROVE  Owners(i) = bitmap[i]
<1>1. PICK P, T : /\ P = {pair \in pairs : pair.index = i}
                  /\ T = {th \in Thread : job[th].pc \in Working /\ job[th].index = i}
  OBVIOUS
<1>2. Owners(i) = Cardinality(P) + Cardinality(T)
  BY <1>1 DEF Owners
<1>3. (\A x, y \in P : x = y) /\ (\A x, y \in T : x = y)
  BY <1>1 DEF PoolInv, Claims, Busy
<1>4. P = {} \/ T = {}
  BY <1>1 DEF PoolInv, Claims, Busy
<1>5. bitmap[i] \in {0, 1} /\ (bitmap[i] = 1 <=> P # {} \/ T # {})
  BY <1>1 DEF PoolInv, PoolTypes, Claims, Busy
<1>6. /\ Cardinality(P) = IF P = {} THEN 0 ELSE 1
      /\ Cardinality(T) = IF T = {} THEN 0 ELSE 1
  BY <1>3, AtMostOne
<1>. QED
  BY ONLY <1>2, <1>4, <1>5, <1>6

LEMMA OneOwnerOfPeer ==
    ASSUME PoolInv, NEW p \in Peer
    PROVE  PeerOwners(p) = IF peers[p].mem # "unused" /\ p \notin destroyed THEN 1 ELSE 0
<1>1. PICK P, T : /\ P = {pair \in pairs : p \in {pair.rtp, pair.rtcp}}
                  /\ T = {th \in Thread : p \in {job[th].rtp, job[th].rtcp}}
  OBVIOUS
<1>2. PeerOwners(p) = Cardinality(P) + Cardinality(T)
  BY <1>1 DEF PeerOwners
<1>3. Owned(p)
  BY DEF PoolInv
<1>4. (\A x, y \in P : x = y) /\ (\A x, y \in T : x = y)
  BY <1>1, <1>3 DEF Owned, Of, Held
<1>5. P = {} \/ T = {}
  BY <1>1, <1>3 DEF Owned, Of, Held
<1>6. InUse(p) <=> P # {} \/ T # {}
  BY <1>1, <1>3 DEF Owned, Of, Held
<1>7. /\ Cardinality(P) = IF P = {} THEN 0 ELSE 1
      /\ Cardinality(T) = IF T = {} THEN 0 ELSE 1
  BY <1>4, AtMostOne
<1>8. PeerOwners(p) = IF InUse(p) THEN 1 ELSE 0
  BY ONLY <1>2, <1>5, <1>6, <1>7
<1>. QED
  BY <1>8 DEF InUse

LEMMA TypesHold ==
    ASSUME Inv
    PROVE  TypeOK
<1>1. \A p \in Peer : /\ peers[p].mem \in {"unused", "live", "freed"}
                      /\ peers[p].port \in Port \cup {None}
                      /\ peers[p].ref \in Nat
                      /\ {peers[p].messagecb, peers[p].writecb} \subseteq BOOLEAN
                      /\ peers[p].interest \in Events
  BY DEF Inv, UdpInv, UdpTypes, PeerType
<1>2. /\ tasks \in Seq(Task)
      /\ \A c \in Client : sending[c] = None \/ sending[c] \in Task
      /\ handler = None \/ handler \in HandlerType
      /\ destroyed \subseteq Peer
      /\ fault \in BOOLEAN
  BY DEF Inv, UdpInv, UdpTypes
<1>3. UdpTypeOK
  BY <1>1, <1>2 DEF UdpTypeOK, HandlerType
<1>. QED
  BY <1>3 DEF TypeOK, Inv, PoolInv, PoolTypes

\* A bit of the pool is set exactly while one pair or one thread has its index, and a peer
\* that was not destroyed has one owner; the two of a pair are alive, on the pair's ports.
THEOREM OwnedOnceAlways ==
    ASSUME Careless = FALSE
    PROVE  Spec => []OwnedOnce
<1>1. ASSUME Inv PROVE OwnedOnce
  <2>1. ASSUME NEW pair \in pairs
        PROVE  Live(pair.rtp) /\ Live(pair.rtcp)
    <3>1. pair.rtp \in Peer /\ pair.rtcp \in Peer
      BY <1>1 DEF Inv, PoolInv, PoolTypes
    <3>2. InUse(pair.rtp) /\ InUse(pair.rtcp)
      BY <1>1, <3>1 DEF Inv, PoolInv, Owned, Of
    <3>. QED
      BY <1>1, <3>1, <3>2, InUseIsLive DEF Inv
  <2>2. TypeOK
    BY <1>1, TypesHold
  <2>3. \A i \in Index : Owners(i) = bitmap[i]
    BY <1>1, OneOwnerOfIndex DEF Inv
  <2>4. \A p \in Peer :
           PeerOwners(p) = IF peers[p].mem # "unused" /\ p \notin destroyed THEN 1 ELSE 0
    BY <1>1, OneOwnerOfPeer DEF Inv
  <2>. QED
    BY <1>1, <2>1, <2>2, <2>3, <2>4 DEF OwnedOnce, Inv, PoolInv, Ports
<1>2. Inv => OwnedOnce
  BY <1>1
<1>. QED
  BY <1>2, InvAlways, PTL

=============================================================================
