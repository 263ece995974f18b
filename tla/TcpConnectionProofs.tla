------------------------ MODULE TcpConnectionProofs -------------------------
(***************************************************************************)
(* Theorems about a TCP connection, for every number of bytes, size of the *)
(* kernel's buffer and length of the task queue: the stream is kept in     *)
(* order and whole through partial writes, EPOLLOUT is watched exactly     *)
(* while output is pending, and the deferred destruction neither frees     *)
(* under a callback or before a task nor cuts off what was sent.           *)
(*                                                                         *)
(* Two inductive invariants: Lifetime is about the phases of a destruction *)
(* and the client's tasks, Streamed about the bytes.                       *)
(***************************************************************************)
EXTENDS TcpConnection, FiniteSetTheorems, SequenceTheorems, TLAPS

-----------------------------------------------------------------------------
(***************************************************************************)
(* The inductive invariants.                                               *)
(***************************************************************************)
\* Who gives up the connection is released first and then, through the task queue or
\* at once, gone; need_closed, a dead is_alive and freed memory come after that.
DestructionOrder ==
    /\ gone => released /\ tasks = <<>>
    /\ needClosed => gone
    /\ ~alive => gone
    /\ mem = "freed" => gone

\* A queued destroy is the last of the client's calls.
DestroyIsLast ==
    \A i \in DOMAIN tasks : tasks[i].op = "destroy" =>
        i = Len(tasks) /\ tasks[i].data = <<>> /\ released

\* connection_onevent() is never inside a connection that was freed.
FreedIsLeft == mem = "freed" => pc \in {"poll", "user", "done"}

\* Only a hang-up is handled as one.
HupIsReset ==
    /\ "HUP" \in revent => peer = "rst"
    /\ pc = "hup" => revent = {"HUP"}

\* A destruction that does not wait for the output has none to wait for, or has
\* lost the connection.
NothingCutOff ==
    ~alive \/ mem = "freed" => outBuffer = <<>> \/ ~connected \/ peer = "rst"

Lifetime == /\ TypeOK
            /\ fault = "none"
            /\ DestructionOrder
            /\ DestroyIsLast
            /\ FreedIsLeft
            /\ HupIsReset
            /\ NothingCutOff
            /\ PendingIsWatched

\* As long as the connection was not reset nothing is lost: not even when it is freed,
\* which is why nothing may be pending then.
NothingLost ==
    peer # "rst" => /\ Taken("loop") = sent["loop"]
                    /\ Continue(tasks, Taken("client"), sent["client"])

Streamed == InOrder(Stream) /\ NothingLost

-----------------------------------------------------------------------------
(***************************************************************************)
(* Sequences of bytes.                                                     *)
(***************************************************************************)
Byte == Sender \X (1 .. MaxBytes)

Task == [op : {"send", "destroy"}, data : Seq(Byte)]

LEMMA MinOfTwo ==
    ASSUME NEW a \in Nat, NEW b \in Nat
    PROVE  Min({a, b}) \in Nat /\ Min({a, b}) <= a /\ Min({a, b}) <= b
<1>1. \E x \in {a, b} : \A y \in {a, b} : x <= y
  <2>1. CASE a <= b
    BY <2>1
  <2>2. CASE b <= a
    BY <2>2
  <2>. QED
    BY <2>1, <2>2
<1>2. Min({a, b}) \in {a, b} /\ \A y \in {a, b} : Min({a, b}) <= y
  BY <1>1 DEF Min
<1>. QED
  BY <1>2

\* What write() takes and what it leaves are the whole again.
LEMMA TakenAndLeft ==
    ASSUME NEW S, NEW all \in Seq(S), NEW n \in 0 .. Len(all)
    PROVE  /\ SubSeq(all, 1, n) \in Seq(S) /\ SubSeq(all, n + 1, Len(all)) \in Seq(S)
           /\ SubSeq(all, 1, n) \o SubSeq(all, n + 1, Len(all)) = all
           /\ (SubSeq(all, n + 1, Len(all)) = <<>>) <=> (n = Len(all))
<1>1. \A i \in 1 .. Len(all) : all[i] \in S
  BY ElementOfSeq
<1>2. Len(all) \in Nat /\ n \in Nat
  BY LenProperties
<1>3. SubSeq(all, 1, n) \in Seq(S)
  <2>1. \A i \in 1 .. n : all[i] \in S
    BY <1>1, <1>2
  <2>. QED
    BY <2>1, <1>2, SubSeqProperties
<1>4. /\ SubSeq(all, n + 1, Len(all)) \in Seq(S)
      /\ Len(SubSeq(all, n + 1, Len(all)))
             = IF n + 1 <= Len(all) THEN Len(all) - (n + 1) + 1 ELSE 0
  <2>1. \A i \in n + 1 .. Len(all) : all[i] \in S
    BY <1>1, <1>2
  <2>. QED
    BY <2>1, <1>2, SubSeqProperties
<1>5. SubSeq(all, 1, n) \o SubSeq(all, n + 1, Len(all)) = SubSeq(all, 1, Len(all))
  <2>1. 1 \in 1 .. Len(all) + 1 /\ n \in 1 - 1 .. Len(all) /\ Len(all) \in n .. Len(all)
    BY <1>2
  <2>. QED
    BY <2>1, ConcatAdjacentSubSeq
<1>6. SubSeq(all, 1, Len(all)) = all
  BY SubSeqFull
<1> DEFINE left == SubSeq(all, n + 1, Len(all))
<1>7. (left = <<>>) <=> (n = Len(all))
  <2>1. (left = <<>>) <=> (Len(left) = 0)
    BY <1>4, EmptySeq
  <2>2. (Len(left) = 0) <=> (n = Len(all))
    BY <1>2, <1>4
  <2>. QED
    BY <2>1, <2>2
<1>. QED
  BY <1>3, <1>4, <1>5, <1>6, <1>7

\* Where a sequence is cut does not matter to the whole.
LEMMA CutAnywhere ==
    ASSUME NEW S, NEW s \in Seq(S), NEW t \in Seq(S), NEW u \in Seq(S),
           NEW st, st = s \o t, NEW tu, tu = t \o u
    PROVE  st \o u = s \o tu
<1>1. (s \o t) \o u = s \o (t \o u)
  BY ConcatAssociative
<1>. QED
  BY <1>1

LEMMA UpToType ==
    ASSUME NEW n \in Nat, NEW who, NEW bytes
    PROVE  /\ IsFiniteSet({i \in 1 .. n : bytes[i][1] = who})
           /\ UpTo(n, who, bytes) \in Nat
<1> DEFINE found == {i \in 1 .. n : bytes[i][1] = who}
<1>1. 1 \in Int /\ n \in Int
  OBVIOUS
<1>2. IsFiniteSet(1 .. n)
  BY <1>1, FS_Interval
<1>3. found \in SUBSET (1 .. n)
  OBVIOUS
<1> HIDE DEF found
<1>4. IsFiniteSet(found) /\ Cardinality(found) \in Nat
  BY <1>2, <1>3, FS_Subset, FS_CardinalityType
<1>. QED
  BY <1>4 DEF UpTo, found

\* A run of bytes of one sender that goes on where its bytes stop keeps the order.
LEMMA RunAppended ==
    ASSUME NEW s \in Seq(Byte), InOrder(s), NEW who \in Sender, NEW run \in Seq(Byte),
           \A j \in DOMAIN run : run[j] = <<who, UpTo(Len(s), who, s) + j>>
    PROVE  /\ InOrder(s \o run)
           /\ UpTo(Len(s \o run), who, s \o run) = UpTo(Len(s), who, s) + Len(run)
           /\ \A other \in Sender \ {who} :
                 UpTo(Len(s \o run), other, s \o run) = UpTo(Len(s), other, s)
<1> DEFINE t == s \o run
           At(n, x, bytes) == {i \in 1 .. n : bytes[i][1] = x}
           k == UpTo(Len(s), who, s)
<1>1. /\ t \in Seq(Byte) /\ Len(t) = Len(s) + Len(run)
      /\ Len(s) \in Nat /\ Len(run) \in Nat
      /\ \A i \in 1 .. Len(s) : t[i] = s[i]
      /\ \A j \in 1 .. Len(run) : t[Len(s) + j] = run[j]
      /\ DOMAIN t = 1 .. Len(t) /\ DOMAIN s = 1 .. Len(s) /\ DOMAIN run = 1 .. Len(run)
  BY ConcatProperties, LenProperties
<1>2. \A j \in 1 .. Len(run) : t[Len(s) + j] = <<who, k + j>>
  BY <1>1
<1>3. \A n \in 0 .. Len(s), x \in Sender : UpTo(n, x, t) = UpTo(n, x, s)
  <2> SUFFICES ASSUME NEW n \in 0 .. Len(s), NEW x \in Sender
               PROVE  At(n, x, t) = At(n, x, s)
    BY DEF UpTo
  <2>. QED
    BY <1>1
<1>5. k \in Nat
  BY <1>1, UpToType
<1>6. ASSUME NEW j \in 0 .. Len(run) PROVE UpTo(Len(s) + j, who, t) = k + j
  <2> DEFINE new == (Len(s) + 1) .. (Len(s) + j)
             old == At(Len(s), who, s)
  <2>1. At(Len(s) + j, who, t) = old \cup new
    <3>1. ASSUME NEW i \in At(Len(s) + j, who, t) PROVE i \in old \cup new
      BY <1>1
    <3>2. ASSUME NEW i \in old PROVE i \in At(Len(s) + j, who, t)
      BY <1>1
    <3>3. ASSUME NEW i \in new PROVE i \in At(Len(s) + j, who, t)
      <4>1. i - Len(s) \in 1 .. Len(run) /\ i = Len(s) + (i - Len(s)) /\ i \in 1 .. Len(s) + j
        BY <1>1
      <4>2. t[i] = <<who, k + (i - Len(s))>>
        BY <4>1, <1>2
      <4>. QED
        BY <4>1, <4>2
    <3>. QED
      BY <3>1, <3>2, <3>3
  <2>2. old \cap new = {}
    BY <1>1
  <2>3. IsFiniteSet(new) /\ Cardinality(new) = j
    <3>1. Len(s) + 1 \in Int /\ Len(s) + j \in Int
      BY <1>1
    <3>2. IsFiniteSet(new)
          /\ Cardinality(new) = IF Len(s) + 1 > Len(s) + j THEN 0
                                ELSE (Len(s) + j) - (Len(s) + 1) + 1
      BY <3>1, FS_Interval
    <3>. QED
      BY <3>2, <1>1
  <2>4. IsFiniteSet(old) /\ Cardinality(old) = k
    <3>1. IsFiniteSet(old)
      BY <1>1, UpToType
    <3>2. Cardinality(old) = k
      BY DEF UpTo
    <3>. QED
      BY <3>1, <3>2
  <2> HIDE DEF old, new, k
  <2>5. Cardinality(old \cup new) = k + j - Cardinality({})
    BY <2>2, <2>3, <2>4, FS_Union
  <2>6. Cardinality({}) = 0
    BY FS_EmptySet
  <2>7. Cardinality(old \cup new) = k + j
    BY <2>5, <2>6, <1>5
  <2>. QED
    BY <2>1, <2>7 DEF UpTo
<1>7. ASSUME NEW other \in Sender \ {who} PROVE UpTo(Len(t), other, t) = UpTo(Len(s), other, s)
  <2>1. At(Len(t), other, t) = At(Len(s), other, s)
    <3>1. ASSUME NEW i \in At(Len(t), other, t) PROVE i \in At(Len(s), other, s)
      <4>1. CASE i <= Len(s)
        BY <4>1, <1>1
      <4>2. CASE i > Len(s)
        <5>1. i - Len(s) \in 1 .. Len(run) /\ i = Len(s) + (i - Len(s))
          BY <4>2, <1>1
        <5>2. t[i] = <<who, k + (i - Len(s))>>
          BY <5>1, <1>2
        <5>. QED
          BY <5>2
      <4>. QED
        BY <4>1, <4>2, <1>1
    <3>2. ASSUME NEW i \in At(Len(s), other, s) PROVE i \in At(Len(t), other, t)
      BY <1>1
    <3>. QED
      BY <3>1, <3>2
  <2>. QED
    BY <2>1 DEF UpTo
<1>8. InOrder(t)
  <2> SUFFICES ASSUME NEW i \in 1 .. Len(t) PROVE t[i][2] = UpTo(i, t[i][1], t)
    BY <1>1 DEF InOrder
  <2>1. CASE i <= Len(s)
    <3>1. i \in DOMAIN s /\ t[i] = s[i] /\ s[i] \in Byte
      BY <2>1, <1>1, ElementOfSeq
    <3>2. s[i][2] = UpTo(i, s[i][1], s) /\ s[i][1] \in Sender
      BY <3>1 DEF InOrder, Byte
    <3>. QED
      BY <3>1, <3>2, <1>1, <1>3
  <2>2. CASE i > Len(s)
    <3>1. i - Len(s) \in 1 .. Len(run) /\ i = Len(s) + (i - Len(s))
      BY <2>2, <1>1
    <3>2. t[i] = <<who, k + (i - Len(s))>>
      BY <3>1, <1>2
    <3>3. UpTo(i, who, t) = k + (i - Len(s))
      BY <3>1, <1>6
    <3>. QED
      BY <3>2, <3>3
  <2>. QED
    BY <2>1, <2>2, <1>1
<1>9. UpTo(Len(t), who, t) = k + Len(run)
  BY <1>1, <1>6
<1>. QED
  BY <1>7, <1>8, <1>9

\* The part of the stream that the kernel has is in order too.
LEMMA PrefixInOrder ==
    ASSUME NEW s \in Seq(Byte), NEW t \in Seq(Byte), InOrder(s \o t) PROVE InOrder(s)
<1>1. /\ Len(s) \in Nat /\ DOMAIN s = 1 .. Len(s)
      /\ \A i \in 1 .. Len(s) : i \in DOMAIN (s \o t) /\ (s \o t)[i] = s[i]
  BY ConcatProperties, LenProperties
<1> SUFFICES ASSUME NEW i \in 1 .. Len(s) PROVE s[i][2] = UpTo(i, s[i][1], s)
  BY <1>1 DEF InOrder
<1>2. s[i][2] = UpTo(i, s[i][1], s \o t)
  BY <1>1 DEF InOrder
<1>3. {j \in 1 .. i : (s \o t)[j][1] = s[i][1]} = {j \in 1 .. i : s[j][1] = s[i][1]}
  BY <1>1
<1>. QED
  BY <1>2, <1>3 DEF UpTo

\* A stream of two senders is as long as what it holds of each.
LEMMA TwoSenders ==
    ASSUME NEW s \in Seq(Byte)
    PROVE  Len(s) = UpTo(Len(s), "loop", s) + UpTo(Len(s), "client", s)
<1> DEFINE L == {i \in 1 .. Len(s) : s[i][1] = "loop"}
           C == {i \in 1 .. Len(s) : s[i][1] = "client"}
<1>1. Len(s) \in Nat /\ \A i \in 1 .. Len(s) : s[i][1] \in {"loop", "client"}
  BY ElementOfSeq, LenProperties DEF Byte, Sender
<1>2. IsFiniteSet(1 .. Len(s)) /\ Cardinality(1 .. Len(s)) = Len(s)
  <2>1. 1 \in Int /\ Len(s) \in Int
    BY <1>1
  <2>2. /\ IsFiniteSet(1 .. Len(s))
        /\ Cardinality(1 .. Len(s)) = IF 1 > Len(s) THEN 0 ELSE Len(s) - 1 + 1
    BY <2>1, FS_Interval
  <2>. QED
    BY <2>2, <1>1
<1>3. L \in SUBSET (1 .. Len(s)) /\ C \in SUBSET (1 .. Len(s))
  OBVIOUS
<1>4. /\ IsFiniteSet(L) /\ IsFiniteSet(C)
      /\ Cardinality(L) \in Nat /\ Cardinality(C) \in Nat
  BY <1>2, <1>3, FS_Subset, FS_CardinalityType
<1>5. L \cup C = 1 .. Len(s) /\ L \cap C = {}
  BY <1>1
<1> HIDE DEF L, C
<1>6. Cardinality(L \cup C) = Cardinality(L) + Cardinality(C) - Cardinality({})
  BY <1>4, <1>5, FS_Union
<1>7. Cardinality({}) = 0
  BY FS_EmptySet
<1>8. Len(s) = Cardinality(L) + Cardinality(C)
  <2>1. Cardinality(L \cup C) = Len(s)
    BY <1>2, <1>5
  <2>. QED
    BY <2>1, <1>4, <1>6, <1>7
<1>. QED
  BY <1>8 DEF UpTo, L, C

-----------------------------------------------------------------------------
(***************************************************************************)
(* The two operations of the loop thread that every call ends in.          *)
(***************************************************************************)
LEMMA SendKeeps ==
    ASSUME TypeOK, NEW data \in Seq(Byte), SendInLoop(data)
    PROVE  /\ wire' \in Seq(Byte) /\ outBuffer' \in Seq(Byte)
           /\ room' \in 0 .. SockBuf /\ mask' \subseteq {"IN", "OUT"}
           /\ peer = "rst" => UNCHANGED <<outBuffer, wire, room, mask>>
           /\ peer # "rst" => wire' \o outBuffer' = Stream \o data
           /\ (("OUT" \in mask) <=> (outBuffer # <<>>)) =>
                 (("OUT" \in mask') <=> (outBuffer' # <<>>))
<1>0. /\ wire \in Seq(Byte) /\ outBuffer \in Seq(Byte)
      /\ room \in 0 .. SockBuf /\ mask \subseteq {"IN", "OUT"} /\ SockBuf \in Nat
  BY SockBufAssumption DEF TypeOK, Byte
<1> DEFINE all == outBuffer \o data
           n   == Min({room, Len(all)})
<1>1. CASE peer = "rst"
  BY <1>0, <1>1 DEF SendInLoop
<1>2. CASE peer # "rst"
  <2>1. /\ wire' = wire \o SubSeq(all, 1, n)
        /\ outBuffer' = SubSeq(all, n + 1, Len(all))
        /\ room' = room - n
        /\ mask' = IF n = Len(all) THEN mask \ {"OUT"} ELSE mask \cup {"OUT"}
    BY <1>2 DEF SendInLoop
  <2>2. all \in Seq(Byte) /\ Len(all) \in Nat /\ room \in Nat
    BY <1>0, ConcatProperties, LenProperties
  <2>3. n \in 0 .. Len(all) /\ n \in 0 .. room
    BY <2>2, MinOfTwo
  <2>4. all = outBuffer \o data
    OBVIOUS
  <2> HIDE DEF all, n
  <2>5. /\ SubSeq(all, 1, n) \in Seq(Byte) /\ SubSeq(all, n + 1, Len(all)) \in Seq(Byte)
        /\ SubSeq(all, 1, n) \o SubSeq(all, n + 1, Len(all)) = all
        /\ (SubSeq(all, n + 1, Len(all)) = <<>>) <=> (n = Len(all))
    BY <2>2, <2>3, TakenAndLeft
  <2> DEFINE took == SubSeq(all, 1, n)
             left == SubSeq(all, n + 1, Len(all))
  <2>a. /\ took \in Seq(Byte) /\ left \in Seq(Byte) /\ all = took \o left
        /\ wire' = wire \o took /\ outBuffer' = left
    BY <2>1, <2>5
  <2>6. wire' \o outBuffer' = wire \o all
    <3> HIDE DEF took, left
    <3>1. wire \in Seq(Byte) /\ took \in Seq(Byte) /\ left \in Seq(Byte) /\ all = took \o left
      BY <2>a, <1>0
    <3>2. PICK first : first = wire \o took
      OBVIOUS
    <3>3. first \o left = wire \o all
      BY ONLY <3>1, <3>2, CutAnywhere, SMTT(60)
    <3>. QED
      BY <2>a, <3>2, <3>3
  <2>7. wire \o all = Stream \o data
    <3>1. Stream \o data = wire \o all
      BY <2>4, <1>0, CutAnywhere, SMTT(60) DEF Stream
    <3>. QED
      BY <3>1
  <2>8. wire' \in Seq(Byte) /\ outBuffer' \in Seq(Byte)
    BY <2>1, <2>5, <1>0, ConcatProperties
  <2>9. room' \in 0 .. SockBuf /\ mask' \subseteq {"IN", "OUT"}
    BY <2>1, <2>2, <2>3, <1>0
  <2>10. ("OUT" \in mask') <=> (outBuffer' # <<>>)
    BY <2>1, <2>5
  <2>. QED
    BY <1>2, <2>6, <2>7, <2>8, <2>9, <2>10
<1>. QED
  BY <1>1, <1>2

\* do_tcp_connection_destroy(), called once, where users run.
LEMMA DestroyKeeps ==
    ASSUME Lifetime, ~gone, InUserCode, DoDestroy,
           UNCHANGED <<connected, inCallback, peer, pc, outBuffer>>
    PROVE  /\ mem' \in {"open", "freed"} /\ mask' \subseteq {"IN", "OUT"}
           /\ alive' \in BOOLEAN /\ needClosed' \in BOOLEAN /\ gone' = TRUE
           /\ FreedIsLeft' /\ NothingCutOff' /\ PendingIsWatched'
<1>0. /\ mem = "open" /\ alive /\ ~needClosed /\ mask \subseteq {"IN", "OUT"}
      /\ alive \in BOOLEAN /\ needClosed \in BOOLEAN
      /\ pc \in {"user", "done", "datacb", "closecb"}
      /\ ~inCallback => pc \in {"user", "done"}
      /\ ("OUT" \in mask) <=> (outBuffer # <<>>)
  BY DEF Lifetime, DestructionOrder, TypeOK, InUserCode, PendingIsWatched
<1>1. CASE outBuffer # <<>> /\ connected
  <2>1. /\ mask' = {"OUT"} /\ needClosed' = TRUE /\ gone' = TRUE
        /\ UNCHANGED <<mem, alive>>
    BY <1>1 DEF DoDestroy
  <2>. QED
    BY <2>1, <1>0, <1>1 DEF FreedIsLeft, NothingCutOff, PendingIsWatched
<1>2. CASE ~(outBuffer # <<>> /\ connected) /\ inCallback
  <2>1. /\ alive' = FALSE /\ gone' = TRUE
        /\ UNCHANGED <<mem, mask, needClosed>>
    BY <1>2 DEF DoDestroy
  <2>. QED
    BY <2>1, <1>0, <1>2 DEF FreedIsLeft, NothingCutOff, PendingIsWatched
<1>3. CASE ~(outBuffer # <<>> /\ connected) /\ ~inCallback
  <2>1. /\ mem' = "freed" /\ mask' = {} /\ gone' = TRUE
        /\ UNCHANGED <<alive, needClosed>>
    BY <1>3 DEF DoDestroy, Delete
  <2>. QED
    BY <2>1, <1>0, <1>3 DEF FreedIsLeft, NothingCutOff, PendingIsWatched
<1>. QED
  BY <1>1, <1>2, <1>3

\* The data of one send.
LEMMA NextTyped ==
    ASSUME TypeOK, NEW who \in Sender, NEW n \in Sizes, sent[who] + n <= MaxBytes
    PROVE  /\ NextBytes(who, n) \in Seq(Byte)
           /\ Len(NextBytes(who, n)) = n
           /\ \A j \in DOMAIN NextBytes(who, n) : NextBytes(who, n)[j] = <<who, sent[who] + j>>
           /\ n \in Nat /\ sent[who] \in Nat
           /\ sent[who] + n \in 0 .. MaxBytes
<1>1. n \in Nat /\ sent[who] \in 0 .. MaxBytes /\ MaxBytes \in Nat
  BY BoundsAssumption, SizesAssumption DEF TypeOK
<1>2. \A j \in 1 .. n : <<who, sent[who] + j>> \in Byte
  BY <1>1 DEF Byte
<1>3. NextBytes(who, n) \in Seq(Byte) /\ Len(NextBytes(who, n)) = n
  BY <1>1, <1>2 DEF NextBytes
<1>4. \A j \in DOMAIN NextBytes(who, n) : NextBytes(who, n)[j] = <<who, sent[who] + j>>
  BY DEF NextBytes
<1>. QED
  BY <1>1, <1>3, <1>4

\* A call of the client's joins the queue; a task leaves it.
LEMMA TaskAppended ==
    ASSUME NEW S, NEW q \in Seq(S), NEW e \in S
    PROVE  /\ Append(q, e) \in Seq(S) /\ Len(Append(q, e)) = Len(q) + 1
           /\ \A i \in 1 .. Len(q) : Append(q, e)[i] = q[i]
           /\ Append(q, e)[Len(q) + 1] = e
           /\ DOMAIN Append(q, e) = 1 .. (Len(q) + 1) /\ DOMAIN q = 1 .. Len(q)
           /\ Len(q) \in Nat
BY AppendProperties, LenProperties

LEMMA TaskTaken ==
    ASSUME NEW S, NEW q \in Seq(S), q # <<>>
    PROVE  /\ Head(q) \in S /\ Head(q) = q[1] /\ Tail(q) \in Seq(S)
           /\ Len(q) \in Nat /\ Len(q) >= 1 /\ Len(Tail(q)) = Len(q) - 1
           /\ \A i \in 1 .. Len(q) - 1 : Tail(q)[i] = q[i + 1]
           /\ DOMAIN Tail(q) = 1 .. (Len(q) - 1) /\ DOMAIN q = 1 .. Len(q)
BY HeadTailProperties, EmptySeq, LenProperties

-----------------------------------------------------------------------------
(***************************************************************************)
(* Lifetime is inductive.                                                  *)
(***************************************************************************)
LEMMA LifetimeInit == Init => Lifetime
<1> SUFFICES ASSUME Init PROVE Lifetime
  OBVIOUS
<1>1. TypeOK
  <2>1. /\ outBuffer \in Seq(Byte) /\ wire \in Seq(Byte)
        /\ tasks \in Seq([op : {"send", "destroy"}, data : Seq(Byte)])
    BY DEF Init
  <2>2. sent \in [Sender -> 0 .. MaxBytes] /\ room \in 0 .. SockBuf
    BY SockBufAssumption, BoundsAssumption DEF Init
  <2>3. /\ inCallback <=> pc \in {"datacb", "closecb"}
        /\ mask \subseteq {"IN", "OUT"} /\ revent \subseteq {"IN", "OUT", "HUP"}
    BY DEF Init
  <2>. QED
    BY <2>1, <2>2, <2>3 DEF Init, TypeOK, Byte
<1>2. /\ fault = "none" /\ DestructionOrder /\ DestroyIsLast /\ FreedIsLeft /\ HupIsReset
      /\ NothingCutOff /\ PendingIsWatched
  BY DEF Init, DestructionOrder, DestroyIsLast, FreedIsLeft, HupIsReset, NothingCutOff,
         PendingIsWatched
<1>. QED
  BY <1>1, <1>2 DEF Lifetime

LEMMA LifetimeSend ==
    ASSUME Lifetime, NEW n \in Sizes, Send(n) PROVE Lifetime'
<1> DEFINE data == NextBytes("loop", n)
<1>1. /\ data \in Seq(Byte) /\ sent["loop"] + n \in 0 .. MaxBytes
  BY NextTyped DEF Send, Sender, Lifetime
<1>2. /\ SendInLoop(data) /\ ~released
      /\ sent' = [sent EXCEPT !["loop"] = @ + n]
      /\ UNCHANGED <<mem, loopSet, connected, alive, inCallback, needClosed, peer, readable,
                     tasks, pc, revent, released, gone, fault>>
  BY DEF Send, MayUse, net
<1>3. /\ wire' \in Seq(Byte) /\ outBuffer' \in Seq(Byte)
      /\ room' \in 0 .. SockBuf /\ mask' \subseteq {"IN", "OUT"}
      /\ (("OUT" \in mask) <=> (outBuffer # <<>>)) =>
            (("OUT" \in mask') <=> (outBuffer' # <<>>))
  BY <1>1, <1>2, SendKeeps DEF Lifetime
<1>4. ~gone /\ alive /\ mem = "open"
  BY <1>2 DEF Lifetime, TypeOK, DestructionOrder
<1>5. sent' \in [Sender -> 0 .. MaxBytes]
  BY <1>1, <1>2 DEF Lifetime, TypeOK
<1>6. TypeOK'
  BY <1>2, <1>3, <1>5 DEF Lifetime, TypeOK, Byte
<1>7. DestructionOrder' /\ DestroyIsLast' /\ FreedIsLeft' /\ HupIsReset'
  BY <1>2 DEF Lifetime, DestructionOrder, DestroyIsLast, FreedIsLeft, HupIsReset
<1>8. NothingCutOff' /\ PendingIsWatched'
  BY <1>2, <1>3, <1>4 DEF Lifetime, NothingCutOff, PendingIsWatched
<1>. QED
  BY <1>2, <1>6, <1>7, <1>8 DEF Lifetime

LEMMA LifetimeDestroy == ASSUME Lifetime, Destroy PROVE Lifetime'
<1>1. /\ InUserCode /\ DoDestroy /\ ~released /\ tasks = <<>> /\ released' = TRUE
      /\ UNCHANGED <<loopSet, connected, inCallback, outBuffer, sent, wire, room, peer,
                     readable, tasks, pc, revent, fault>>
  BY DEF Destroy, MayUse, output, net
<1>2. ~gone
  BY <1>1 DEF Lifetime, DestructionOrder
<1>3. /\ mem' \in {"open", "freed"} /\ mask' \subseteq {"IN", "OUT"}
      /\ alive' \in BOOLEAN /\ needClosed' \in BOOLEAN /\ gone' = TRUE
      /\ FreedIsLeft' /\ NothingCutOff' /\ PendingIsWatched'
  BY <1>1, <1>2, DestroyKeeps
<1>4. TypeOK'
  BY <1>1, <1>3 DEF Lifetime, TypeOK
<1>5. DestructionOrder' /\ DestroyIsLast' /\ HupIsReset'
  BY <1>1, <1>3 DEF Lifetime, DestructionOrder, DestroyIsLast, HupIsReset
<1>. QED
  BY <1>1, <1>3, <1>4, <1>5 DEF Lifetime

\* What changes only where the connection is attached.
LEMMA LifetimeMoved == ASSUME Lifetime, Detach \/ Attach PROVE Lifetime'
<1>1. /\ loopSet' \in BOOLEAN
      /\ UNCHANGED <<mem, connected, alive, inCallback, needClosed, mask, outBuffer, sent,
                     wire, room, peer, readable, tasks, pc, revent, released, gone, fault>>
  BY DEF Detach, Attach, output, net
<1>2. TypeOK'
  BY <1>1 DEF Lifetime, TypeOK
<1>3. /\ DestructionOrder' /\ DestroyIsLast' /\ FreedIsLeft' /\ HupIsReset'
      /\ NothingCutOff' /\ PendingIsWatched'
  BY <1>1 DEF Lifetime, DestructionOrder, DestroyIsLast, FreedIsLeft, HupIsReset,
              NothingCutOff, PendingIsWatched
<1>. QED
  BY <1>1, <1>2, <1>3 DEF Lifetime

LEMMA LifetimeClientSend ==
    ASSUME Lifetime, NEW n \in Sizes, ClientSend(n) PROVE Lifetime'
<1> DEFINE task == [op |-> "send", data |-> NextBytes("client", n)]
<1>1. NextBytes("client", n) \in Seq(Byte) /\ sent["client"] + n \in 0 .. MaxBytes
  BY NextTyped DEF ClientSend, Sender, Lifetime
<1>2. /\ ~released
      /\ tasks' = Append(tasks, task)
      /\ sent' = [sent EXCEPT !["client"] = @ + n]
      /\ UNCHANGED <<mem, loopSet, connected, alive, inCallback, needClosed, mask, outBuffer,
                     wire, room, peer, readable, pc, revent, released, gone, fault>>
  BY DEF ClientSend, MayUse, object, net
<1>3. tasks \in Seq(Task) /\ task \in Task /\ task.op = "send"
  BY <1>1 DEF Lifetime, TypeOK, Task, Byte
<1> HIDE DEF task
<1>4. /\ tasks' \in Seq(Task) /\ Len(tasks) \in Nat
      /\ \A i \in 1 .. Len(tasks) : tasks'[i] = tasks[i]
      /\ tasks'[Len(tasks) + 1] = task
      /\ DOMAIN tasks' = 1 .. (Len(tasks) + 1) /\ DOMAIN tasks = 1 .. Len(tasks)
  BY <1>2, <1>3, TaskAppended
<1>5. sent' \in [Sender -> 0 .. MaxBytes]
  BY <1>1, <1>2 DEF Lifetime, TypeOK
<1>6. TypeOK'
  BY <1>2, <1>4, <1>5 DEF Lifetime, TypeOK, Task, Byte
<1>7. DestructionOrder' /\ FreedIsLeft' /\ HupIsReset' /\ NothingCutOff' /\ PendingIsWatched'
  BY <1>2 DEF Lifetime, DestructionOrder, FreedIsLeft, HupIsReset, NothingCutOff,
              PendingIsWatched
<1>8. DestroyIsLast'
  <2> SUFFICES ASSUME NEW i \in 1 .. (Len(tasks) + 1), tasks'[i].op = "destroy" PROVE FALSE
    BY <1>4 DEF DestroyIsLast
  <2>1. i \in 1 .. Len(tasks)
    BY <1>3, <1>4
  <2>. QED
    BY <2>1, <1>2, <1>4 DEF Lifetime, DestroyIsLast
<1>. QED
  BY <1>2, <1>6, <1>7, <1>8 DEF Lifetime

LEMMA LifetimeClientDestroy == ASSUME Lifetime, ClientDestroy PROVE Lifetime'
<1> DEFINE task == [op |-> "destroy", data |-> <<>>]
<1>2. /\ ~released /\ released' = TRUE
      /\ tasks' = Append(tasks, task)
      /\ UNCHANGED <<mem, loopSet, connected, alive, inCallback, needClosed, mask, outBuffer,
                     sent, wire, room, peer, readable, pc, revent, gone, fault>>
  BY DEF ClientDestroy, MayUse, object, output, net
<1>3. tasks \in Seq(Task) /\ task \in Task /\ task.data = <<>>
  BY DEF Lifetime, TypeOK, Task, Byte
<1> HIDE DEF task
<1>4. /\ tasks' \in Seq(Task) /\ Len(tasks) \in Nat /\ Len(tasks') = Len(tasks) + 1
      /\ \A i \in 1 .. Len(tasks) : tasks'[i] = tasks[i]
      /\ tasks'[Len(tasks) + 1] = task
      /\ DOMAIN tasks' = 1 .. (Len(tasks) + 1) /\ DOMAIN tasks = 1 .. Len(tasks)
  BY <1>2, <1>3, TaskAppended
<1>6. TypeOK'
  BY <1>2, <1>4 DEF Lifetime, TypeOK, Task, Byte
<1>7. DestructionOrder' /\ FreedIsLeft' /\ HupIsReset' /\ NothingCutOff' /\ PendingIsWatched'
  BY <1>2 DEF Lifetime, DestructionOrder, FreedIsLeft, HupIsReset, NothingCutOff,
              PendingIsWatched
<1>8. DestroyIsLast'
  <2> SUFFICES ASSUME NEW i \in 1 .. (Len(tasks) + 1), tasks'[i].op = "destroy"
               PROVE  i = Len(tasks) + 1 /\ tasks'[i].data = <<>>
    BY <1>2, <1>4 DEF DestroyIsLast
  <2>1. i \notin 1 .. Len(tasks)
    BY <1>2, <1>4 DEF Lifetime, DestroyIsLast
  <2>. QED
    BY <2>1, <1>3, <1>4
<1>. QED
  BY <1>2, <1>6, <1>7, <1>8 DEF Lifetime

\* A task of the client's never finds the connection freed.
LEMMA TaskRuns ==
    ASSUME Lifetime, RunTask
    PROVE  /\ mem = "open" /\ ~gone /\ tasks # <<>> /\ InUserCode
           /\ tasks \in Seq(Task) /\ tasks[1] \in Task /\ Head(tasks) = tasks[1]
           /\ tasks[1].data \in Seq(Byte)
           /\ tasks' = Tail(tasks)
           /\ \/ /\ tasks[1].op = "send" /\ SendInLoop(tasks[1].data)
                 /\ UNCHANGED <<mem, alive, needClosed, gone>>
              \/ /\ tasks[1].op = "destroy" /\ DoDestroy
                 /\ UNCHANGED <<outBuffer, wire, room>>
           /\ UNCHANGED <<loopSet, connected, inCallback, sent, fault, peer, readable, pc,
                          revent, released>>
<1>1. tasks # <<>> /\ InUserCode /\ tasks' = Tail(tasks)
  BY DEF RunTask, InOtherCallback, InUserCode
<1>2. mem = "open" /\ ~gone
  BY <1>1 DEF Lifetime, TypeOK, DestructionOrder
<1>3. tasks \in Seq(Task)
  BY DEF Lifetime, TypeOK, Task, Byte
<1>4. tasks[1] \in Task /\ Head(tasks) = tasks[1]
  BY <1>1, <1>3, TaskTaken
<1>5. tasks[1].data \in Seq(Byte) /\ tasks[1].op \in {"send", "destroy"}
  BY <1>4 DEF Task
<1>6. /\ \/ /\ tasks[1].op = "send" /\ SendInLoop(tasks[1].data)
            /\ UNCHANGED <<mem, alive, needClosed, gone>>
         \/ /\ tasks[1].op = "destroy" /\ DoDestroy
            /\ UNCHANGED <<outBuffer, wire, room>>
      /\ UNCHANGED <<loopSet, connected, inCallback, sent, fault, peer, readable, pc,
                     revent, released>>
  BY <1>2, <1>4, <1>5 DEF RunTask, net
<1>. QED
  BY <1>1, <1>2, <1>3, <1>4, <1>5, <1>6

LEMMA LifetimeRunTask == ASSUME Lifetime, RunTask PROVE Lifetime'
<1>1. /\ mem = "open" /\ ~gone /\ tasks # <<>> /\ InUserCode
      /\ tasks \in Seq(Task) /\ tasks[1] \in Task
      /\ tasks[1].data \in Seq(Byte)
      /\ tasks' = Tail(tasks)
      /\ \/ /\ tasks[1].op = "send" /\ SendInLoop(tasks[1].data)
            /\ UNCHANGED <<mem, alive, needClosed, gone>>
         \/ /\ tasks[1].op = "destroy" /\ DoDestroy
            /\ UNCHANGED <<outBuffer, wire, room>>
      /\ UNCHANGED <<loopSet, connected, inCallback, sent, fault, peer, readable, pc,
                     revent, released>>
  BY TaskRuns
<1>2. /\ tasks' \in Seq(Task) /\ Len(tasks) \in Nat /\ Len(tasks) >= 1
      /\ Len(tasks') = Len(tasks) - 1
      /\ \A i \in 1 .. Len(tasks) - 1 : tasks'[i] = tasks[i + 1]
      /\ DOMAIN tasks' = 1 .. (Len(tasks) - 1) /\ DOMAIN tasks = 1 .. Len(tasks)
  BY <1>1, TaskTaken
<1>3. DestroyIsLast'
  <2> SUFFICES ASSUME NEW i \in 1 .. (Len(tasks) - 1), tasks'[i].op = "destroy"
               PROVE  i = Len(tasks) - 1 /\ tasks'[i].data = <<>> /\ released
    BY <1>1, <1>2 DEF DestroyIsLast
  <2>1. i + 1 \in DOMAIN tasks /\ tasks'[i] = tasks[i + 1]
    BY <1>2
  <2>. QED
    BY <2>1, <1>2 DEF Lifetime, DestroyIsLast
<1>4. HupIsReset'
  BY <1>1 DEF Lifetime, HupIsReset
<1>5. CASE /\ tasks[1].op = "send" /\ SendInLoop(tasks[1].data)
           /\ UNCHANGED <<mem, alive, needClosed, gone>>
  <2>1. /\ wire' \in Seq(Byte) /\ outBuffer' \in Seq(Byte)
        /\ room' \in 0 .. SockBuf /\ mask' \subseteq {"IN", "OUT"}
        /\ (("OUT" \in mask) <=> (outBuffer # <<>>)) =>
              (("OUT" \in mask') <=> (outBuffer' # <<>>))
    BY <1>1, <1>5, SendKeeps DEF Lifetime
  <2>2. TypeOK'
    BY <1>1, <1>2, <1>5, <2>1 DEF Lifetime, TypeOK, Task, Byte
  <2>3. DestructionOrder' /\ FreedIsLeft' /\ NothingCutOff' /\ PendingIsWatched'
    BY <1>1, <1>5, <2>1
    DEF Lifetime, DestructionOrder, FreedIsLeft, NothingCutOff, PendingIsWatched
  <2>. QED
    BY <1>1, <1>3, <1>4, <2>2, <2>3 DEF Lifetime
<1>6. CASE /\ tasks[1].op = "destroy" /\ DoDestroy
           /\ UNCHANGED <<outBuffer, wire, room>>
  <2>1. /\ mem' \in {"open", "freed"} /\ mask' \subseteq {"IN", "OUT"}
        /\ alive' \in BOOLEAN /\ needClosed' \in BOOLEAN /\ gone' = TRUE
        /\ FreedIsLeft' /\ NothingCutOff' /\ PendingIsWatched'
    BY <1>1, <1>6, DestroyKeeps
  <2>2. TypeOK'
    BY <1>1, <1>2, <1>6, <2>1 DEF Lifetime, TypeOK, Task, Byte
  <2>3. released /\ Len(tasks) = 1
    BY <1>2, <1>6 DEF Lifetime, DestroyIsLast
  <2>4. tasks' = <<>>
    BY <1>2, <2>3, EmptySeq
  <2>5. DestructionOrder'
    BY <1>1, <2>1, <2>3, <2>4 DEF DestructionOrder
  <2>. QED
    BY <1>1, <1>3, <1>4, <2>1, <2>2, <2>5 DEF Lifetime
<1>. QED
  BY <1>1, <1>5, <1>6

LEMMA LifetimePoll == ASSUME Lifetime, Poll PROVE Lifetime'
<1>1. /\ pc = "poll" /\ revent' = Ready /\ pc' = "user"
      /\ UNCHANGED <<mem, loopSet, connected, alive, inCallback, needClosed, mask, outBuffer,
                     sent, wire, room, peer, readable, tasks, released, gone, fault>>
  BY DEF Poll, object, output, net
<1>2. Ready \subseteq {"IN", "OUT", "HUP"} /\ ("HUP" \in Ready => peer = "rst")
  BY DEF Ready, Lifetime, TypeOK
<1>3. TypeOK'
  BY <1>1, <1>2 DEF Lifetime, TypeOK
<1>4. /\ DestructionOrder' /\ DestroyIsLast' /\ FreedIsLeft' /\ HupIsReset'
      /\ NothingCutOff' /\ PendingIsWatched'
  BY <1>1, <1>2 DEF Lifetime, DestructionOrder, DestroyIsLast, FreedIsLeft, HupIsReset,
              NothingCutOff, PendingIsWatched
<1>. QED
  BY <1>1, <1>3, <1>4 DEF Lifetime

LEMMA LifetimeDispatch == ASSUME Lifetime, Dispatch PROVE Lifetime'
<1>1. /\ pc = "user"
      /\ pc' = IF revent = {} \/ mem = "freed" THEN "poll"
               ELSE IF revent = {"HUP"} THEN "hup" ELSE "in"
      /\ revent' = IF mem = "freed" THEN {} ELSE revent
      /\ UNCHANGED <<mem, loopSet, connected, alive, inCallback, needClosed, mask, outBuffer,
                     sent, wire, room, peer, readable, tasks, released, gone, fault>>
  BY DEF Dispatch, object, output, net
<1>2. TypeOK'
  BY <1>1 DEF Lifetime, TypeOK
<1>3. /\ DestructionOrder' /\ DestroyIsLast' /\ FreedIsLeft' /\ HupIsReset'
      /\ NothingCutOff' /\ PendingIsWatched'
  BY <1>1 DEF Lifetime, DestructionOrder, DestroyIsLast, FreedIsLeft, HupIsReset,
              NothingCutOff, PendingIsWatched
<1>. QED
  BY <1>1, <1>2, <1>3 DEF Lifetime

\* The hang-up's branch and the read's: where callbacks are entered.
LEMMA LifetimeHupIn == ASSUME Lifetime, Hup \/ In PROVE Lifetime'
<1>1. /\ pc \in {"hup", "in"} /\ mem = "open"
      /\ UNCHANGED <<mem, loopSet, needClosed, mask, outBuffer, sent, wire, room, peer, tasks,
                     revent, released, gone, fault>>
  BY DEF Hup, In, output, net, Lifetime, TypeOK, FreedIsLeft
<1>2. /\ connected' \in BOOLEAN /\ readable' \in BOOLEAN /\ alive' \in BOOLEAN
      /\ inCallback' \in BOOLEAN
      /\ pc' \in {"finish", "out", "datacb", "closecb"}
      /\ inCallback' <=> pc' \in {"datacb", "closecb"}
      /\ connected' => connected
      /\ alive' = alive \/ (needClosed /\ peer = "rst" /\ alive' = FALSE)
  <2>1. CASE Hup
    BY <2>1 DEF Hup, CloseCallback, net, Lifetime, TypeOK, HupIsReset
  <2>2. CASE In
    BY <2>2 DEF In, CloseCallback, Lifetime, TypeOK
  <2>. QED
    BY <2>1, <2>2
<1>3. TypeOK'
  BY <1>1, <1>2 DEF Lifetime, TypeOK
<1>4. DestructionOrder' /\ DestroyIsLast'
  BY <1>1, <1>2 DEF Lifetime, DestructionOrder, DestroyIsLast
<1>5. FreedIsLeft' /\ HupIsReset' /\ NothingCutOff' /\ PendingIsWatched'
  BY <1>1, <1>2 DEF Lifetime, FreedIsLeft, HupIsReset, NothingCutOff, PendingIsWatched
<1>. QED
  BY <1>1, <1>3, <1>4, <1>5 DEF Lifetime

LEMMA LifetimeReturn == ASSUME Lifetime, CallbackReturn PROVE Lifetime'
<1>1. /\ pc \in {"datacb", "closecb"} /\ mem = "open" /\ inCallback' = FALSE
      /\ pc' \in {"finish", "out"}
      /\ UNCHANGED <<mem, loopSet, connected, alive, needClosed, mask, outBuffer, sent, wire,
                     room, peer, readable, tasks, revent, released, gone, fault>>
  BY DEF CallbackReturn, output, net, Lifetime, TypeOK, FreedIsLeft
<1>2. TypeOK'
  BY <1>1 DEF Lifetime, TypeOK
<1>3. /\ DestructionOrder' /\ DestroyIsLast' /\ FreedIsLeft' /\ HupIsReset'
      /\ NothingCutOff' /\ PendingIsWatched'
  BY <1>1 DEF Lifetime, DestructionOrder, DestroyIsLast, FreedIsLeft, HupIsReset,
              NothingCutOff, PendingIsWatched
<1>. QED
  BY <1>1, <1>2, <1>3 DEF Lifetime

\* EPOLLOUT: the stream is left as it is, and a destroyed connection is given up when
\* its output is written.
LEMMA OutKeeps ==
    ASSUME Lifetime, Out
    PROVE  /\ wire' \in Seq(Byte) /\ outBuffer' \in Seq(Byte)
           /\ room' \in 0 .. SockBuf /\ mask' \subseteq {"IN", "OUT"} /\ alive' \in BOOLEAN
           /\ Stream' = Stream
           /\ ("OUT" \in mask') <=> (outBuffer' # <<>>)
           /\ alive' = alive \/ (alive' = FALSE /\ needClosed /\ outBuffer' = <<>>)
           /\ alive' = FALSE /\ alive = FALSE =>
                 outBuffer' = <<>> \/ ~connected \/ peer = "rst"
           /\ pc = "out" /\ mem = "open" /\ pc' \in {"finish", "done", "aborted"}
           /\ UNCHANGED <<mem, loopSet, connected, inCallback, needClosed, sent, peer, readable,
                          tasks, revent, released, gone, fault>>
<1>0. /\ wire \in Seq(Byte) /\ outBuffer \in Seq(Byte) /\ alive \in BOOLEAN
      /\ room \in 0 .. SockBuf /\ mask \subseteq {"IN", "OUT"} /\ SockBuf \in Nat
      /\ pc = "out" /\ mem = "open"
      /\ ("OUT" \in mask) <=> (outBuffer # <<>>)
      /\ alive = FALSE => outBuffer = <<>> \/ ~connected \/ peer = "rst"
      /\ UNCHANGED <<mem, loopSet, connected, inCallback, needClosed, sent, peer, readable,
                     tasks, revent, released, gone, fault>>
  BY SockBufAssumption
  DEF Out, Lifetime, TypeOK, FreedIsLeft, Byte, PendingIsWatched, NothingCutOff, net
<1>1. CASE UNCHANGED <<outBuffer, wire, room, mask, alive>> /\ pc' \in {"finish", "done", "aborted"}
  BY <1>0, <1>1 DEF Stream
<1>2. CASE "OUT" \in revent /\ peer # "rst" /\ ~AssertionFails
  <2> DEFINE n == Min({room, Len(outBuffer)})
  <2>1. /\ wire' = wire \o SubSeq(outBuffer, 1, n)
        /\ outBuffer' = SubSeq(outBuffer, n + 1, Len(outBuffer))
        /\ room' = room - n
        /\ mask' = IF outBuffer' = <<>> THEN mask \ {"OUT"} ELSE mask
        /\ alive' = (alive /\ ~(needClosed /\ outBuffer' = <<>>))
        /\ pc' = "finish"
    BY <1>2 DEF Out
  <2>2. Len(outBuffer) \in Nat /\ room \in Nat
    BY <1>0, LenProperties
  <2>3. n \in 0 .. Len(outBuffer) /\ n \in 0 .. room
    BY <2>2, MinOfTwo
  <2> HIDE DEF n
  <2>4. /\ SubSeq(outBuffer, 1, n) \in Seq(Byte)
        /\ SubSeq(outBuffer, n + 1, Len(outBuffer)) \in Seq(Byte)
        /\ SubSeq(outBuffer, 1, n) \o SubSeq(outBuffer, n + 1, Len(outBuffer)) = outBuffer
        /\ (SubSeq(outBuffer, n + 1, Len(outBuffer)) = <<>>) <=> (n = Len(outBuffer))
    BY <1>0, <2>3, TakenAndLeft
  <2>5. Stream' = Stream
    <3> DEFINE took == SubSeq(outBuffer, 1, n)
               left == SubSeq(outBuffer, n + 1, Len(outBuffer))
    <3>1. /\ took \in Seq(Byte) /\ left \in Seq(Byte) /\ outBuffer = took \o left
          /\ wire' = wire \o took /\ outBuffer' = left
      BY <2>1, <2>4
    <3> HIDE DEF took, left
    <3>2. (wire \o took) \o left = wire \o outBuffer
      BY <3>1, <1>0, CutAnywhere, SMTT(60)
    <3>3. wire' \o outBuffer' = wire \o outBuffer
      BY <3>1, <3>2
    <3>. QED
      BY <3>3 DEF Stream
  <2>6. wire' \in Seq(Byte) /\ outBuffer' \in Seq(Byte)
    BY <2>1, <2>4, <1>0, ConcatProperties
  <2>7. outBuffer = <<>> => outBuffer' = <<>>
    <3> SUFFICES ASSUME outBuffer = <<>> PROVE outBuffer' = <<>>
      OBVIOUS
    <3>1. Len(outBuffer) = 0
      BY EmptySeq
    <3>. QED
      BY <3>1, <2>1, <2>3, <2>4
  <2>8. room' \in 0 .. SockBuf
    BY <2>1, <2>2, <2>3, <1>0
  <2>. QED
    BY <1>0, <2>1, <2>5, <2>6, <2>7, <2>8
<1>3. CASE ~("OUT" \in revent /\ peer # "rst" /\ ~AssertionFails)
  <2>1. UNCHANGED <<outBuffer, wire, room, mask, alive>> /\ pc' \in {"finish", "done", "aborted"}
    BY <1>3 DEF Out
  <2>. QED
    BY <2>1, <1>1
<1>. QED
  BY <1>2, <1>3

LEMMA LifetimeOut == ASSUME Lifetime, Out PROVE Lifetime'
<1>1. /\ wire' \in Seq(Byte) /\ outBuffer' \in Seq(Byte)
      /\ room' \in 0 .. SockBuf /\ mask' \subseteq {"IN", "OUT"} /\ alive' \in BOOLEAN
      /\ ("OUT" \in mask') <=> (outBuffer' # <<>>)
      /\ alive' = alive \/ (alive' = FALSE /\ needClosed /\ outBuffer' = <<>>)
      /\ alive' = FALSE /\ alive = FALSE =>
            outBuffer' = <<>> \/ ~connected \/ peer = "rst"
      /\ pc = "out" /\ mem = "open" /\ pc' \in {"finish", "done", "aborted"}
      /\ UNCHANGED <<mem, loopSet, connected, inCallback, needClosed, sent, peer, readable,
                     tasks, revent, released, gone, fault>>
  BY OutKeeps
<1>2. TypeOK'
  BY <1>1 DEF Lifetime, TypeOK, Byte
<1>3. /\ DestructionOrder' /\ DestroyIsLast' /\ FreedIsLeft' /\ HupIsReset'
  BY <1>1 DEF Lifetime, DestructionOrder, DestroyIsLast, FreedIsLeft, HupIsReset
<1>4. NothingCutOff' /\ PendingIsWatched'
  BY <1>1 DEF Lifetime, NothingCutOff, PendingIsWatched
<1>. QED
  BY <1>1, <1>2, <1>3, <1>4 DEF Lifetime

LEMMA LifetimeFinish == ASSUME Lifetime, Finish PROVE Lifetime'
<1>1. /\ pc = "finish" /\ pc' = "done"
      /\ \/ alive /\ UNCHANGED <<mem, mask>>
         \/ ~alive /\ mem' = "freed" /\ mask' = {}
      /\ UNCHANGED <<alive, needClosed, loopSet, connected, inCallback, outBuffer, sent, wire,
                     room, peer, readable, tasks, revent, released, gone, fault>>
  BY DEF Finish, Delete, output, net
<1>2. TypeOK'
  BY <1>1 DEF Lifetime, TypeOK
<1>3. /\ DestructionOrder' /\ DestroyIsLast' /\ FreedIsLeft' /\ HupIsReset'
      /\ NothingCutOff' /\ PendingIsWatched'
  BY <1>1 DEF Lifetime, DestructionOrder, DestroyIsLast, FreedIsLeft, HupIsReset,
              NothingCutOff, PendingIsWatched
<1>. QED
  BY <1>1, <1>2, <1>3 DEF Lifetime

LEMMA LifetimeDone == ASSUME Lifetime, Done PROVE Lifetime'
<1>1. /\ pc = "done" /\ pc' = "poll" /\ revent' = {}
      /\ UNCHANGED <<mem, loopSet, connected, alive, inCallback, needClosed, mask, outBuffer,
                     sent, wire, room, peer, readable, tasks, released, gone, fault>>
  BY DEF Done, object, output, net
<1>2. TypeOK'
  BY <1>1 DEF Lifetime, TypeOK
<1>3. /\ DestructionOrder' /\ DestroyIsLast' /\ FreedIsLeft' /\ HupIsReset'
      /\ NothingCutOff' /\ PendingIsWatched'
  BY <1>1 DEF Lifetime, DestructionOrder, DestroyIsLast, FreedIsLeft, HupIsReset,
              NothingCutOff, PendingIsWatched
<1>. QED
  BY <1>1, <1>2, <1>3 DEF Lifetime

LEMMA LifetimeNet == ASSUME Lifetime, Net PROVE Lifetime'
<1>1. /\ readable' \in BOOLEAN /\ peer' \in {"up", "fin", "rst"} /\ room' \in 0 .. SockBuf
      /\ peer = "rst" => peer' = "rst"
      /\ UNCHANGED <<mem, loopSet, connected, alive, inCallback, needClosed, mask, outBuffer,
                     sent, wire, tasks, pc, revent, released, gone, fault>>
  <2>0. readable \in BOOLEAN /\ peer \in {"up", "fin", "rst"} /\ room \in 0 .. SockBuf
        /\ SockBuf \in Nat
    BY SockBufAssumption DEF Lifetime, TypeOK
  <2>1. CASE PeerSends
    BY <2>0, <2>1 DEF PeerSends, object, output
  <2>2. CASE PeerCloses
    BY <2>0, <2>2 DEF PeerCloses, object, output
  <2>3. CASE PeerResets
    BY <2>0, <2>3 DEF PeerResets, object, output
  <2>4. CASE PeerReads
    BY <2>0, <2>4 DEF PeerReads, object, net
  <2>. QED
    BY <2>1, <2>2, <2>3, <2>4 DEF Net
<1>2. TypeOK'
  BY <1>1 DEF Lifetime, TypeOK
<1>3. /\ DestructionOrder' /\ DestroyIsLast' /\ FreedIsLeft' /\ HupIsReset'
      /\ NothingCutOff' /\ PendingIsWatched'
  BY <1>1 DEF Lifetime, DestructionOrder, DestroyIsLast, FreedIsLeft, HupIsReset,
              NothingCutOff, PendingIsWatched
<1>. QED
  BY <1>1, <1>2, <1>3 DEF Lifetime

LEMMA LifetimeNext == Lifetime /\ [Next]_vars => Lifetime'
<1> SUFFICES ASSUME Lifetime, [Next]_vars PROVE Lifetime'
  OBVIOUS
<1>1. CASE UNCHANGED vars
  <2>1. TypeOK'
    BY <1>1 DEF vars, object, output, net, Lifetime, TypeOK
  <2>2. /\ DestructionOrder' /\ DestroyIsLast' /\ FreedIsLeft' /\ HupIsReset'
        /\ NothingCutOff' /\ PendingIsWatched' /\ fault' = "none"
    BY <1>1 DEF vars, object, output, net, Lifetime, DestructionOrder, DestroyIsLast,
                FreedIsLeft, HupIsReset, NothingCutOff, PendingIsWatched
  <2>. QED
    BY <2>1, <2>2 DEF Lifetime
<1>2. CASE User
  BY <1>2, LifetimeSend, LifetimeClientSend, LifetimeDestroy, LifetimeMoved,
     LifetimeClientDestroy DEF User
<1>3. CASE LoopStep
  BY <1>3, LifetimeRunTask, LifetimePoll, LifetimeDispatch, LifetimeHupIn, LifetimeReturn,
     LifetimeOut, LifetimeFinish, LifetimeDone DEF LoopStep
<1>4. CASE Net
  BY <1>4, LifetimeNet
<1>. QED
  BY <1>1, <1>2, <1>3, <1>4 DEF Next

-----------------------------------------------------------------------------
(***************************************************************************)
(* The client's queue of tasks, as a run of its bytes.                     *)
(***************************************************************************)
LEMMA NothingQueued ==
    ASSUME NEW from, NEW last, Continue(<<>>, from, last) PROVE from = last
<1>1. Len(<<>>) + 1 = 1
  OBVIOUS
<1>. QED
  BY <1>1 DEF Continue

LEMMA QueueGrows ==
    ASSUME NEW queue \in Seq(Task), NEW from, NEW last \in 0 .. MaxBytes,
           Continue(queue, from, last), NEW task \in Task, NEW k \in Nat,
           k = Len(task.data), last + k \in 0 .. MaxBytes,
           \A j \in DOMAIN task.data : task.data[j] = <<"client", last + j>>
    PROVE  Continue(Append(queue, task), from, last + k)
<1> DEFINE longer == Append(queue, task)
<1>1. /\ longer \in Seq(Task) /\ Len(longer) = Len(queue) + 1
      /\ \A i \in 1 .. Len(queue) : longer[i] = queue[i]
      /\ longer[Len(queue) + 1] = task
      /\ DOMAIN longer = 1 .. (Len(queue) + 1) /\ DOMAIN queue = 1 .. Len(queue)
      /\ Len(queue) \in Nat
  BY TaskAppended
<1> HIDE DEF longer
<1>2. PICK before \in [1 .. Len(queue) + 1 -> 0 .. MaxBytes] :
        /\ before[1] = from
        /\ before[Len(queue) + 1] = last
        /\ \A i \in DOMAIN queue :
              /\ before[i + 1] = before[i] + Len(queue[i].data)
              /\ \A j \in DOMAIN queue[i].data : queue[i].data[j] = <<"client", before[i] + j>>
  BY DEF Continue
<1> DEFINE after == [i \in 1 .. Len(longer) + 1 |->
                        IF i = Len(queue) + 2 THEN last + k ELSE before[i]]
<1>3. after \in [1 .. Len(longer) + 1 -> 0 .. MaxBytes]
  BY <1>1, <1>2
<1>4. /\ after[1] = from /\ after[Len(longer) + 1] = last + k
      /\ \A i \in 1 .. Len(queue) + 1 : after[i] = before[i]
  BY <1>1, <1>2
<1> HIDE DEF after
<1>5. ASSUME NEW i \in DOMAIN longer
      PROVE  /\ after[i + 1] = after[i] + Len(longer[i].data)
             /\ \A j \in DOMAIN longer[i].data : longer[i].data[j] = <<"client", after[i] + j>>
  <2>1. CASE i = Len(queue) + 1
    <3>1. longer[i] = task /\ after[i] = last /\ after[i + 1] = last + k
      BY <2>1, <1>1, <1>2, <1>4
    <3>. QED
      BY <3>1
  <2>2. CASE i # Len(queue) + 1
    <3>1. i \in 1 .. Len(queue) /\ i + 1 \in 1 .. Len(queue) + 1
      BY <2>2, <1>1
    <3>2. longer[i] = queue[i] /\ after[i] = before[i] /\ after[i + 1] = before[i + 1]
      BY <3>1, <1>1, <1>4
    <3>. QED
      BY <3>1, <3>2, <1>1, <1>2
  <2>. QED
    BY <2>1, <2>2
<1>6. Continue(longer, from, last + k)
  BY <1>3, <1>4, <1>5 DEF Continue
<1>. QED
  BY <1>6 DEF longer

LEMMA QueueShrinks ==
    ASSUME NEW queue \in Seq(Task), queue # <<>>, NEW from, NEW last,
           Continue(queue, from, last)
    PROVE  /\ Continue(Tail(queue), from + Len(queue[1].data), last)
           /\ \A j \in DOMAIN queue[1].data : queue[1].data[j] = <<"client", from + j>>
<1> DEFINE rest == Tail(queue)
<1>1. /\ rest \in Seq(Task)
      /\ Len(queue) \in Nat /\ Len(queue) >= 1 /\ Len(rest) = Len(queue) - 1
      /\ \A i \in 1 .. Len(queue) - 1 : rest[i] = queue[i + 1]
      /\ DOMAIN rest = 1 .. (Len(queue) - 1) /\ DOMAIN queue = 1 .. Len(queue)
  BY TaskTaken
<1> HIDE DEF rest
<1>2. PICK before \in [1 .. Len(queue) + 1 -> 0 .. MaxBytes] :
        /\ before[1] = from
        /\ before[Len(queue) + 1] = last
        /\ \A i \in DOMAIN queue :
              /\ before[i + 1] = before[i] + Len(queue[i].data)
              /\ \A j \in DOMAIN queue[i].data : queue[i].data[j] = <<"client", before[i] + j>>
  BY DEF Continue
<1> DEFINE after == [i \in 1 .. Len(rest) + 1 |-> before[i + 1]]
<1>3. after \in [1 .. Len(rest) + 1 -> 0 .. MaxBytes]
  BY <1>1, <1>2
<1>4. /\ after[1] = from + Len(queue[1].data) /\ after[Len(rest) + 1] = last
      /\ \A i \in 1 .. Len(queue) : after[i] = before[i + 1]
  BY <1>1, <1>2
<1> HIDE DEF after
<1>5. ASSUME NEW i \in DOMAIN rest
      PROVE  /\ after[i + 1] = after[i] + Len(rest[i].data)
             /\ \A j \in DOMAIN rest[i].data : rest[i].data[j] = <<"client", after[i] + j>>
  <2>1. i + 1 \in DOMAIN queue /\ i \in 1 .. Len(queue) /\ i + 1 \in 1 .. Len(queue)
        /\ i \in 1 .. Len(queue) - 1
    BY <1>1
  <2>2. rest[i] = queue[i + 1] /\ after[i] = before[i + 1] /\ after[i + 1] = before[(i + 1) + 1]
    BY <2>1, <1>1, <1>4
  <2>. QED
    BY <2>1, <2>2, <1>2
<1>6. Continue(rest, from + Len(queue[1].data), last)
  BY <1>3, <1>4, <1>5 DEF Continue
<1>7. \A j \in DOMAIN queue[1].data : queue[1].data[j] = <<"client", from + j>>
  <2>1. 1 \in DOMAIN queue
    BY <1>1
  <2>. QED
    BY <2>1, <1>2
<1>. QED
  BY <1>6, <1>7 DEF rest

-----------------------------------------------------------------------------
(***************************************************************************)
(* Streamed is inductive, where Lifetime holds.                            *)
(***************************************************************************)
LEMMA StreamTyped == ASSUME TypeOK PROVE Stream \in Seq(Byte)
<1>1. wire \in Seq(Byte) /\ outBuffer \in Seq(Byte)
  BY DEF TypeOK, Byte
<1>. QED
  BY <1>1, ConcatProperties DEF Stream

LEMMA StreamedInit == Init => Streamed
<1> SUFFICES ASSUME Init PROVE Streamed
  OBVIOUS
<1>1. Stream = <<>> /\ Len(<<>>) = 0 /\ tasks = <<>>
  BY DEF Init, Stream
<1>2. InOrder(Stream)
  BY <1>1 DEF InOrder
<1>3. \A who \in Sender : Taken(who) = 0
  <2> SUFFICES ASSUME NEW who \in Sender PROVE Taken(who) = 0
    OBVIOUS
  <2>1. {i \in 1 .. 0 : <<>>[i][1] = who} = {}
    OBVIOUS
  <2>. QED
    BY <1>1, <2>1, FS_EmptySet DEF Taken, UpTo
<1>4. sent["loop"] = 0 /\ sent["client"] = 0 /\ 0 \in 0 .. MaxBytes
  BY BoundsAssumption DEF Init, Sender
<1>5. Continue(<<>>, 0, 0)
  <2> DEFINE none == [i \in 1 .. 1 |-> 0]
  <2>1. none \in [1 .. 1 -> 0 .. MaxBytes] /\ none[1] = 0
    BY <1>4
  <2>2. Len(<<>>) + 1 = 1 /\ DOMAIN <<>> = {}
    OBVIOUS
  <2> HIDE DEF none
  <2>. QED
    BY <2>1, <2>2 DEF Continue
<1>6. NothingLost
  BY <1>1, <1>3, <1>4, <1>5 DEF NothingLost, Sender
<1>. QED
  BY <1>2, <1>6 DEF Streamed

\* Of the steps that leave the stream, what was sent and the queue alone there is
\* nothing to say.
LEMMA StreamLeft ==
    ASSUME Streamed, UNCHANGED <<Stream, sent, tasks>>, peer = "rst" => peer' = "rst"
    PROVE  Streamed'
BY DEF Streamed, NothingLost, Taken

LEMMA StreamedSend ==
    ASSUME Lifetime, Streamed, NEW n \in Sizes, Send(n) PROVE Streamed'
<1> DEFINE data == NextBytes("loop", n)
<1>1. /\ data \in Seq(Byte) /\ Len(data) = n /\ sent["loop"] + n \in 0 .. MaxBytes
      /\ \A j \in DOMAIN data : data[j] = <<"loop", sent["loop"] + j>>
  BY NextTyped DEF Send, Sender, Lifetime
<1>2. /\ SendInLoop(data)
      /\ sent' = [sent EXCEPT !["loop"] = @ + n]
      /\ UNCHANGED <<peer, tasks>>
  BY DEF Send, net
<1> HIDE DEF data
<1>3. /\ peer = "rst" => UNCHANGED <<outBuffer, wire>>
      /\ peer # "rst" => Stream' = Stream \o data
  BY <1>1, <1>2, SendKeeps DEF Lifetime, Stream
<1>4. sent'["loop"] = sent["loop"] + n /\ sent'["client"] = sent["client"]
  BY <1>2 DEF Lifetime, TypeOK, Sender
<1>5. CASE peer = "rst"
  BY <1>2, <1>3, <1>5 DEF Streamed, NothingLost, Stream
<1>6. CASE peer # "rst"
  <2>1. InOrder(Stream) /\ Taken("loop") = sent["loop"]
        /\ Continue(tasks, Taken("client"), sent["client"])
    BY <1>6 DEF Streamed, NothingLost
  <2>2. Stream \in Seq(Byte) /\ "loop" \in Sender /\ "client" \in Sender \ {"loop"}
    BY StreamTyped DEF Lifetime, Sender
  <2>3. \A j \in DOMAIN data : data[j] = <<"loop", UpTo(Len(Stream), "loop", Stream) + j>>
    BY <1>1, <2>1 DEF Taken
  <2>4. /\ InOrder(Stream \o data)
        /\ UpTo(Len(Stream \o data), "loop", Stream \o data)
               = UpTo(Len(Stream), "loop", Stream) + Len(data)
        /\ UpTo(Len(Stream \o data), "client", Stream \o data)
               = UpTo(Len(Stream), "client", Stream)
    BY <1>1, <2>1, <2>2, <2>3, RunAppended
  <2>5. InOrder(Stream') /\ Taken("loop")' = sent'["loop"] /\ Taken("client")' = Taken("client")
    BY <1>1, <1>3, <1>4, <1>6, <2>1, <2>4 DEF Taken
  <2>. QED
    BY <1>2, <1>4, <2>1, <2>5 DEF Streamed, NothingLost
<1>. QED
  BY <1>5, <1>6

LEMMA StreamedClientSend ==
    ASSUME Lifetime, Streamed, NEW n \in Sizes, ClientSend(n) PROVE Streamed'
<1> DEFINE data == NextBytes("client", n)
           task == [op |-> "send", data |-> data]
<1>1. /\ data \in Seq(Byte) /\ Len(data) = n /\ n \in Nat
      /\ sent["client"] \in 0 .. MaxBytes /\ sent["client"] + n \in 0 .. MaxBytes
      /\ \A j \in DOMAIN data : data[j] = <<"client", sent["client"] + j>>
  BY NextTyped DEF ClientSend, Sender, Lifetime, TypeOK
<1>2. /\ tasks' = Append(tasks, task)
      /\ sent' = [sent EXCEPT !["client"] = @ + n]
      /\ UNCHANGED <<outBuffer, wire, peer>>
  BY DEF ClientSend, net
<1> HIDE DEF data
<1>3. tasks \in Seq(Task) /\ task \in Task /\ task.data = data
  BY <1>1 DEF Lifetime, TypeOK, Task, Byte
<1> HIDE DEF task
<1>4. sent'["client"] = sent["client"] + n /\ sent'["loop"] = sent["loop"]
  BY <1>2 DEF Lifetime, TypeOK, Sender
<1>5. Stream' = Stream /\ Taken("loop")' = Taken("loop") /\ Taken("client")' = Taken("client")
  BY <1>2 DEF Stream, Taken
<1>6. peer # "rst" => Continue(tasks', Taken("client"), sent'["client"])
  <2> SUFFICES ASSUME peer # "rst" PROVE Continue(Append(tasks, task), Taken("client"), sent["client"] + n)
    BY <1>2, <1>4
  <2>1. Continue(tasks, Taken("client"), sent["client"])
    BY DEF Streamed, NothingLost
  <2>. QED
    BY <1>1, <1>3, <2>1, QueueGrows
<1>. QED
  BY <1>2, <1>4, <1>5, <1>6 DEF Streamed, NothingLost

LEMMA StreamedClientDestroy ==
    ASSUME Lifetime, Streamed, ClientDestroy PROVE Streamed'
<1> DEFINE task == [op |-> "destroy", data |-> <<>>]
<1>1. tasks' = Append(tasks, task) /\ UNCHANGED <<outBuffer, wire, sent, peer>>
  BY DEF ClientDestroy, output, net
<1>2. tasks \in Seq(Task) /\ task \in Task /\ task.data = <<>>
  BY DEF Lifetime, TypeOK, Task, Byte
<1> HIDE DEF task
<1>3. sent["client"] \in 0 .. MaxBytes /\ sent["client"] + 0 = sent["client"]
  BY BoundsAssumption DEF Lifetime, TypeOK, Sender
<1>4. Stream' = Stream /\ Taken("loop")' = Taken("loop") /\ Taken("client")' = Taken("client")
  BY <1>1 DEF Stream, Taken
<1>5. peer # "rst" => Continue(tasks', Taken("client"), sent["client"])
  <2> SUFFICES ASSUME peer # "rst" PROVE Continue(Append(tasks, task), Taken("client"), sent["client"] + 0)
    BY <1>1, <1>3
  <2>1. Continue(tasks, Taken("client"), sent["client"])
    BY DEF Streamed, NothingLost
  <2>2. 0 = Len(task.data) /\ 0 \in Nat
        /\ \A j \in DOMAIN task.data : task.data[j] = <<"client", sent["client"] + j>>
    BY <1>2
  <2>. QED
    BY <1>2, <1>3, <2>1, <2>2, QueueGrows
<1>. QED
  BY <1>1, <1>4, <1>5 DEF Streamed, NothingLost

LEMMA StreamedRunTask ==
    ASSUME Lifetime, Streamed, RunTask PROVE Streamed'
<1> DEFINE data == tasks[1].data
<1>1. /\ tasks # <<>> /\ tasks \in Seq(Task) /\ tasks[1] \in Task /\ data \in Seq(Byte)
      /\ tasks' = Tail(tasks)
      /\ \/ tasks[1].op = "send" /\ SendInLoop(data)
         \/ tasks[1].op = "destroy" /\ UNCHANGED <<outBuffer, wire>>
      /\ UNCHANGED <<sent, peer>>
  BY TaskRuns
<1>2. tasks[1].op = "destroy" => data = <<>>
  <2>1. 1 \in DOMAIN tasks
    BY <1>1, TaskTaken
  <2>. QED
    BY <2>1 DEF Lifetime, DestroyIsLast
<1> HIDE DEF data
<1>3. Stream \in Seq(Byte)
  BY StreamTyped DEF Lifetime
<1>4. CASE peer = "rst"
  <2>1. UNCHANGED <<outBuffer, wire>>
    BY <1>1, <1>4, SendKeeps DEF Lifetime
  <2>2. Stream' = Stream
    BY <2>1 DEF Stream
  <2>. QED
    BY <1>1, <1>4, <2>2 DEF Streamed, NothingLost
<1>5. CASE peer # "rst"
  <2>1. Stream' = Stream \o data
    <3>1. CASE tasks[1].op = "send" /\ SendInLoop(data)
      BY <1>1, <1>5, <3>1, SendKeeps DEF Lifetime, Stream
    <3>2. CASE tasks[1].op = "destroy" /\ UNCHANGED <<outBuffer, wire>>
      <4>1. Stream' = Stream
        BY <3>2 DEF Stream
      <4>2. Stream \o <<>> = Stream
        BY <1>3, ConcatEmptySeq
      <4>. QED
        BY <3>2, <1>2, <4>1, <4>2
    <3>. QED
      BY <1>1, <3>1, <3>2
  <2>2. /\ InOrder(Stream) /\ Taken("loop") = sent["loop"]
        /\ Continue(tasks, Taken("client"), sent["client"])
    BY <1>5 DEF Streamed, NothingLost
  <2>3. /\ Continue(Tail(tasks), Taken("client") + Len(data), sent["client"])
        /\ \A j \in DOMAIN data : data[j] = <<"client", Taken("client") + j>>
    BY <1>1, <2>2, QueueShrinks DEF data
  <2>4. "client" \in Sender /\ "loop" \in Sender \ {"client"}
    BY DEF Sender
  <2>5. \A j \in DOMAIN data : data[j] = <<"client", UpTo(Len(Stream), "client", Stream) + j>>
    BY <2>3 DEF Taken
  <2>6. /\ InOrder(Stream \o data)
        /\ UpTo(Len(Stream \o data), "client", Stream \o data)
               = UpTo(Len(Stream), "client", Stream) + Len(data)
        /\ UpTo(Len(Stream \o data), "loop", Stream \o data)
               = UpTo(Len(Stream), "loop", Stream)
    BY <1>1, <1>3, <2>2, <2>4, <2>5, RunAppended
  <2>7. /\ InOrder(Stream') /\ Taken("loop")' = Taken("loop")
        /\ Taken("client")' = Taken("client") + Len(data)
    BY <2>1, <2>6 DEF Taken
  <2>. QED
    BY <1>1, <2>2, <2>3, <2>7 DEF Streamed, NothingLost
<1>. QED
  BY <1>4, <1>5

LEMMA StreamedNext == Lifetime /\ Streamed /\ [Next]_vars => Streamed'
<1> SUFFICES ASSUME Lifetime, Streamed, [Next]_vars PROVE Streamed'
  OBVIOUS
<1>1. CASE UNCHANGED vars
  <2>1. UNCHANGED <<Stream, sent, tasks, peer>>
    BY <1>1 DEF vars, output, net, Stream
  <2>. QED
    BY <2>1, StreamLeft
<1>2. CASE User
  <2>1. CASE Destroy \/ Detach \/ Attach
    <3>1. UNCHANGED <<wire, outBuffer, sent, tasks, peer>>
      BY <2>1 DEF Destroy, Detach, Attach, output, net
    <3>2. Stream' = Stream
      BY <3>1 DEF Stream
    <3>. QED
      BY <3>1, <3>2, StreamLeft
  <2>. QED
    BY <1>2, <2>1, StreamedSend, StreamedClientSend, StreamedClientDestroy DEF User
<1>3. CASE Out
  <2>1. UNCHANGED <<Stream, sent, tasks, peer>>
    BY <1>3, OutKeeps
  <2>. QED
    BY <2>1, StreamLeft
<1>4. CASE Poll \/ Dispatch \/ Hup \/ In \/ CallbackReturn \/ Finish \/ Done
  <2>1. UNCHANGED <<wire, outBuffer, sent, tasks, peer>>
    BY <1>4 DEF Poll, Dispatch, Hup, In, CallbackReturn, Finish, Done, output, net
  <2>2. Stream' = Stream
    BY <2>1 DEF Stream
  <2>. QED
    BY <2>1, <2>2, StreamLeft
<1>5. CASE Net
  <2>1. UNCHANGED <<wire, outBuffer, sent, tasks>> /\ (peer = "rst" => peer' = "rst")
    BY <1>5 DEF Net, PeerSends, PeerCloses, PeerResets, PeerReads, output, net
  <2>2. Stream' = Stream
    BY <2>1 DEF Stream
  <2>. QED
    BY <2>1, <2>2, StreamLeft
<1>. QED
  BY <1>1, <1>2, <1>3, <1>4, <1>5, StreamedRunTask DEF Next, LoopStep

-----------------------------------------------------------------------------
(***************************************************************************)
(* The theorems.                                                           *)
(***************************************************************************)
LEMMA LifetimeAlways == Spec => []Lifetime
<1>. QED
  BY LifetimeInit, LifetimeNext, PTL DEF Spec

LEMMA StreamedAlways == Spec => []Streamed
<1>. QED
  BY LifetimeAlways, StreamedInit, StreamedNext, PTL DEF Spec

\* However the users, the client's tasks and the events of one turn interleave, no
\* callback returns into a connection that was freed under it and no task finds it
\* freed (connection_onevent, do_tcp_connection_destroy); with the type invariant.
THEOREM NoFaultAlways == Spec => []NoFault
<1>1. Lifetime => NoFault
  BY DEF Lifetime, NoFault
<1>. QED
  BY <1>1, LifetimeAlways, PTL

\* EPOLLOUT is in the channel's events exactly while the output buffer is not empty:
\* sends, write events, a destroy in between and a reset all keep it so.
THEOREM PendingIsWatchedAlways == Spec => []PendingIsWatched
<1>1. Lifetime => PendingIsWatched
  BY DEF Lifetime
<1>. QED
  BY <1>1, LifetimeAlways, PTL

\* The kernel gets every sender's bytes in order, none twice and none skipped, and until
\* a reset each is with the kernel, in the output buffer or in a queued task: for every
\* split into partial writes (tcp_connection_sendInLoop, connection_onevent).
THEOREM StreamInOrderAlways == Spec => []StreamInOrder
<1>1. Lifetime /\ Streamed => StreamInOrder
  <2> SUFFICES ASSUME Lifetime, Streamed PROVE StreamInOrder
    OBVIOUS
  <2>1. wire \in Seq(Byte) /\ outBuffer \in Seq(Byte) /\ InOrder(wire \o outBuffer)
    BY DEF Lifetime, TypeOK, Byte, Streamed, Stream
  <2>2. InOrder(wire)
    BY <2>1, PrefixInOrder
  <2>. QED
    BY <2>2 DEF Streamed, NothingLost, StreamInOrder
<1>. QED
  BY <1>1, LifetimeAlways, StreamedAlways, PTL

\* A connection that is freed without having been lost or closed has handed all it was
\* ever given to the kernel: tcp_connection_destroy cuts nothing off, the client's
\* queued sends included.
THEOREM DestroyFlushesAlways == Spec => []DestroyFlushes
<1>1. Lifetime /\ Streamed => DestroyFlushes
  <2> SUFFICES ASSUME Lifetime, Streamed, mem = "freed", connected, peer # "rst"
               PROVE  Len(wire) = sent["loop"] + sent["client"]
    BY DEF DestroyFlushes
  <2>1. outBuffer = <<>> /\ tasks = <<>> /\ wire \in Seq(Byte)
    BY DEF Lifetime, NothingCutOff, DestructionOrder, TypeOK, Byte
  <2>2. Stream = wire
    BY <2>1, ConcatEmptySeq DEF Stream
  <2>3. Taken("loop") = sent["loop"] /\ Continue(<<>>, Taken("client"), sent["client"])
    BY <2>1 DEF Streamed, NothingLost
  <2>4. Taken("client") = sent["client"]
    BY <2>3, NothingQueued
  <2>5. Len(wire) = UpTo(Len(wire), "loop", wire) + UpTo(Len(wire), "client", wire)
    BY <2>1, TwoSenders
  <2>. QED
    BY <2>2, <2>3, <2>4, <2>5 DEF Taken
<1>. QED
  BY <1>1, LifetimeAlways, StreamedAlways, PTL

\* A connection that was destroyed and lives on only to write its output is not called
\* back again, neither for data nor for a close: each branch of connection_onevent
\* tests need_closed_after_sent_done first.
THEOREM NoCallbackWhileDrainingAlways == Spec => NoCallbackWhileDraining
<1>1. [Next]_vars => (EntersCallback => ~needClosed)
  <2> SUFFICES ASSUME [Next]_vars, EntersCallback PROVE ~needClosed
    OBVIOUS
  <2>1. pc # pc' /\ pc \notin {"datacb", "closecb"} /\ pc' \in {"datacb", "closecb"}
    BY DEF EntersCallback
  <2>2. ~UNCHANGED vars
    BY <2>1 DEF vars
  <2>3. ~User
    BY <2>1 DEF User, Send, ClientSend, Destroy, Detach, Attach, ClientDestroy
  <2>4. ~Net
    BY <2>1 DEF Net, PeerSends, PeerCloses, PeerResets, PeerReads
  <2>5. ~(RunTask \/ Poll \/ Dispatch \/ CallbackReturn \/ Out \/ Finish \/ Done)
    BY <2>1 DEF RunTask, Poll, Dispatch, CallbackReturn, Out, Finish, Done
  <2>6. Hup => ~needClosed
    BY <2>1 DEF Hup
  <2>7. In => ~needClosed
    BY <2>1 DEF In
  <2>. QED
    BY <2>2, <2>3, <2>4, <2>5, <2>6, <2>7 DEF Next, LoopStep
<1>. QED
  BY <1>1, PTL DEF Spec, NoCallbackWhileDraining
=============================================================================
