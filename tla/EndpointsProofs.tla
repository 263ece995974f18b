-------------------------- MODULE EndpointsProofs ---------------------------
(***************************************************************************)
(* Theorems about Endpoints.  For every number of bytes and every style of *)
(* user what the TLS client sends is in order, and what is pending has     *)
(* POLLOUT watched; and for all bounds no endpoint is freed in a call that *)
(* goes on to use it.                                                      *)
(***************************************************************************)
EXTENDS Endpoints, SequenceTheorems, TLAPS

\* The bytes the user submitted: k of them.
Bytes(k) == [i \in 1 .. k |-> i]

(***************************************************************************)
(* Lemmas about sequences of bytes.                                        *)
(***************************************************************************)
LEMMA BytesType == ASSUME NEW k \in Nat
                   PROVE  /\ Bytes(k) \in Seq(Nat) /\ Len(Bytes(k)) = k
                          /\ \A i \in 1 .. k : Bytes(k)[i] = i
BY DEF Bytes

LEMMA NewBytesType ==
    ASSUME submitted \in Nat, NEW n \in Nat
    PROVE  /\ NewBytes(n) \in Seq(Nat) /\ Len(NewBytes(n)) = n
           /\ \A i \in 1 .. n : NewBytes(n)[i] = submitted + i
BY DEF NewBytes

\* Concatenation, with the lengths named.
LEMMA ConcatOfLengths ==
    ASSUME NEW a \in Seq(Nat), NEW b \in Seq(Nat), NEW k, NEW n, k = Len(a), n = Len(b)
    PROVE  /\ a \o b \in Seq(Nat) /\ Len(a \o b) = k + n
           /\ \A i \in 1 .. k + n : (a \o b)[i] = IF i <= k THEN a[i] ELSE b[i - k]
BY ConcatProperties

\* The bytes submitted next follow those submitted before.
LEMMA BytesGrow == ASSUME submitted \in Nat, NEW n \in Nat
                   PROVE  Bytes(submitted) \o NewBytes(n) = Bytes(submitted + n)
<1>1. /\ Bytes(submitted) \in Seq(Nat) /\ Len(Bytes(submitted)) = submitted
      /\ \A i \in 1 .. submitted : Bytes(submitted)[i] = i
  BY BytesType
<1>2. /\ NewBytes(n) \in Seq(Nat) /\ Len(NewBytes(n)) = n
      /\ \A i \in 1 .. n : NewBytes(n)[i] = submitted + i
  BY NewBytesType
<1> DEFINE s == Bytes(submitted) \o NewBytes(n)
<1>3. /\ s \in Seq(Nat) /\ Len(s) = submitted + n
      /\ \A i \in 1 .. submitted + n :
            s[i] = IF i <= submitted THEN Bytes(submitted)[i] ELSE NewBytes(n)[i - submitted]
  BY <1>1, <1>2, ConcatOfLengths
<1>4. \A i \in 1 .. submitted + n : s[i] = i
  <2> TAKE i \in 1 .. submitted + n
  <2>1. CASE i <= submitted
    BY <1>1, <1>3, <2>1
  <2>2. CASE ~(i <= submitted)
    <3>1. i - submitted \in 1 .. n
      BY <2>2
    <3>. QED
      BY <1>2, <1>3, <2>2, <3>1
  <2>. QED
    BY <2>1, <2>2
<1>5. /\ Bytes(submitted + n) \in Seq(Nat) /\ Len(Bytes(submitted + n)) = submitted + n
      /\ \A i \in 1 .. submitted + n : Bytes(submitted + n)[i] = i
  BY BytesType
<1>. QED
  BY <1>3, <1>4, <1>5, SeqEqual

LEMMA ConcatAssoc == \A a, b, c \in Seq(Nat) : (a \o b) \o c = a \o (b \o c)
BY ConcatAssociative

\* What was taken of a sequence, and what is left of it.
LEMMA TakenAndLeft ==
    ASSUME NEW s \in Seq(Nat), NEW r \in 0 .. Len(s)
    PROVE  /\ SubSeq(s, 1, r) \in Seq(Nat) /\ Left(s, r) \in Seq(Nat)
           /\ SubSeq(s, 1, r) \o Left(s, r) = s
           /\ r = Len(s) => Left(s, r) = <<>>
<1>1. PICK k \in Nat : k = Len(s)
  OBVIOUS
<1>2. \A i \in 1 .. k : s[i] \in Nat
  BY <1>1, LenProperties
<1>3. SubSeq(s, 1, r) \in Seq(Nat)
  BY <1>1, <1>2, SubSeqProperties
<1>4. SubSeq(s, r + 1, k) \in Seq(Nat)
  BY <1>1, <1>2, SubSeqProperties
<1>5. SubSeq(s, 1, r) \o SubSeq(s, r + 1, k) = SubSeq(s, 1, k)
  <2>1. 1 \in 1 .. Len(s) + 1 /\ r \in 1 - 1 .. Len(s) /\ k \in r .. Len(s)
    BY <1>1
  <2>. QED
    BY <2>1, ConcatAdjacentSubSeq
<1>6. SubSeq(s, 1, k) = s
  BY <1>1, SubSeqFull
<1>7. r = k => SubSeq(s, r + 1, k) = <<>>
  BY <1>1, SubSeqEmpty
<1>. QED
  BY <1>1, <1>3, <1>4, <1>5, <1>6, <1>7 DEF Left

\* A prefix of the bytes submitted, said of its elements.
InOrder(s, k) == Len(s) <= k /\ \A i \in 1 .. Len(s) : s[i] = i

LEMMA InOrderIsPrefix == ASSUME NEW s \in Seq(Nat), NEW k \in Nat, InOrder(s, k)
                         PROVE  IsPrefix(s, Bytes(k))
<1>1. PICK l \in Nat : l = Len(s)
  OBVIOUS
<1>2. /\ Bytes(k) \in Seq(Nat) /\ Len(Bytes(k)) = k
      /\ \A i \in 1 .. k : Bytes(k)[i] = i
  BY BytesType
<1>3. l <= k /\ \A i \in 1 .. l : s[i] = i
  BY <1>1 DEF InOrder
<1> DEFINE t == SubSeq(Bytes(k), 1, l)
<1>4. t \in Seq(Nat) /\ Len(t) = l /\ \A i \in 1 .. l : t[i] = Bytes(k)[i]
  <2>1. \A i \in 1 .. l : Bytes(k)[i] \in Nat
    BY <1>2, <1>3
  <2>. QED
    BY <1>2, <1>3, <2>1, SubSeqProperties
<1>5. t = s
  <2>1. \A i \in 1 .. l : t[i] = s[i]
    BY <1>2, <1>3, <1>4
  <2>. QED
    BY <1>1, <1>4, <2>1, SeqEqual
<1>6. SubSeq(s, 1, l) = s
  BY <1>1, SubSeqFull
<1>. QED
  BY <1>1, <1>2, <1>3, <1>5, <1>6 DEF IsPrefix

\* The front of a sequence of bytes in order is in order.
LEMMA FrontInOrder == ASSUME NEW s \in Seq(Nat), NEW t \in Seq(Nat), NEW k \in Nat,
                             s \o t = Bytes(k)
                      PROVE  InOrder(s, k)
<1>1. /\ Len(Bytes(k)) = k /\ \A i \in 1 .. k : Bytes(k)[i] = i
  BY BytesType
<1>2. /\ Len(s \o t) = Len(s) + Len(t)
      /\ \A i \in 1 .. Len(s) + Len(t) :
            (s \o t)[i] = IF i <= Len(s) THEN s[i] ELSE t[i - Len(s)]
  BY ConcatProperties
<1>3. Len(s) \in Nat /\ Len(t) \in Nat
  OBVIOUS
<1>4. Len(s) + Len(t) = k
  BY <1>1, <1>2
<1>5. \A i \in 1 .. Len(s) : s[i] = i
  <2> TAKE i \in 1 .. Len(s)
  <2>1. i \in 1 .. k /\ i <= Len(s)
    BY <1>3, <1>4
  <2>2. (s \o t)[i] = s[i]
    BY <1>2, <1>4, <2>1
  <2>. QED
    BY <1>1, <2>1, <2>2
<1>. QED
  BY <1>3, <1>4, <1>5 DEF InOrder

-----------------------------------------------------------------------------
(***************************************************************************)
(* The inductive invariant: the types it needs; output is pending only     *)
(* while data is exchanged, where it has POLLOUT watched; and what OpenSSL *)
(* took, followed by what is pending, is what was submitted.               *)
(***************************************************************************)
TlsRecord == [mem : {"none", "live", "freed"}, state : {"INIT", "HANDSHAKE", "SNDRCV"},
              watch : SUBSET {"IN", "OUT"}, hasChannel : BOOLEAN, inCallback : BOOLEAN,
              isAlive : BOOLEAN, out : Seq(Nat), style : Styles \cup {"both"}]

SendTypes == tls \in TlsRecord /\ submitted \in Nat /\ written \in Seq(Nat)

NoneBeforeExchange == tls.state # "SNDRCV" => tls.out = <<>>

NoneLost == tls.mem = "live" /\ tlsLink # "dead" => written \o tls.out = Bytes(submitted)

SendInv == /\ SendTypes
           /\ NoneBeforeExchange
           /\ PendingIsWatched
           /\ InOrder(written, submitted)
           /\ NoneLost

LEMMA SendInit == Init => SendInv
<1> SUFFICES ASSUME Init PROVE SendInv
  OBVIOUS
<1>1. tls \in TlsRecord /\ tls.out = <<>>
  <2>1. ASSUME NEW style \in Styles \cup {"both"}
        PROVE  NewTls(style) \in TlsRecord /\ NewTls(style).out = <<>>
    BY EmptySeq DEF NewTls, TlsRecord
  <2>2. \A t \in TlsRecord : /\ [t EXCEPT !.mem = "none"] \in TlsRecord
                            /\ [t EXCEPT !.mem = "none"].out = t.out
    BY DEF TlsRecord
  <2>. QED
    BY <2>1, <2>2 DEF Init, NoTls, TlsInit
<1>2. written = <<>> /\ submitted = 0
  BY DEF Init, NoTls, TlsInit, TlsUnused
<1>3. <<>> \in Seq(Nat) /\ Len(<<>>) = 0 /\ InOrder(<<>>, 0)
  BY DEF InOrder
<1>4. <<>> \o <<>> = Bytes(0)
  <2>1. Bytes(0) = <<>>
    BY BytesType, EmptySeq
  <2>. QED
    BY <2>1, ConcatEmptySeq, <1>3
<1>. QED
  BY <1>1, <1>2, <1>3, <1>4 DEF SendInv, SendTypes, NoneBeforeExchange, PendingIsWatched, NoneLost

\* A step that leaves the output, what was written and submitted and the
\* events alone, or deletes the client, keeps the invariant, so long as it
\* does not bring back to life what was dead.
LEMMA OutputKept ==
    ASSUME SendInv, tls' \in TlsRecord, written' = written, submitted' = submitted,
           tls'.mem = "live" => tls.mem = "live" /\ tls'.out = tls.out,
           tls'.mem = "live" => tls'.watch = tls.watch \/ tls.state # "SNDRCV",
           tls'.state = "SNDRCV" \/ tls'.state = tls.state,
           tls'.state # "SNDRCV" => tls'.out = <<>>,
           tlsLink = "dead" => tlsLink' = "dead"
    PROVE  SendInv'
<1>1. SendTypes' /\ NoneBeforeExchange' /\ InOrder(written, submitted)'
  BY DEF SendInv, SendTypes, NoneBeforeExchange, InOrder
<1>2. PendingIsWatched'
  BY DEF SendInv, NoneBeforeExchange, PendingIsWatched
<1>3. NoneLost'
  BY DEF SendInv, NoneLost, Bytes
<1>. QED
  BY <1>1, <1>2, <1>3 DEF SendInv

\* Sending: what is pending first, then the new bytes.
LEMMA SendStep ==
    ASSUME SendInv, tls.mem = "live", tls.state = "SNDRCV",
           NEW n \in Nat, Send(n), submitted' = submitted + n
    PROVE  SendInv'
<1> DEFINE out == tls.out
           new == NewBytes(n)
<1>0. /\ tls \in TlsRecord /\ out \in Seq(Nat) /\ written \in Seq(Nat) /\ submitted \in Nat
      /\ InOrder(written, submitted) /\ PendingIsWatched
      /\ tlsLink # "dead" => written \o out = Bytes(submitted)
  BY DEF SendInv, SendTypes, NoneLost, TlsRecord
<1>1. submitted + n \in Nat /\ submitted' \in Nat
  BY <1>0
<1>2. new \in Seq(Nat) /\ Len(new) = n
  BY <1>0, NewBytesType
<1>3. Bytes(submitted) \o new = Bytes(submitted + n)
  BY <1>0, BytesGrow
\* More may be submitted without harm to what was written in order.
<1>4. \A s \in Seq(Nat) : InOrder(s, submitted) => InOrder(s, submitted + n)
  BY <1>0 DEF InOrder
<1>5. \A o, t \in Seq(Nat), w \in SUBSET {"IN", "OUT"} :
         /\ Keeps(o, t, w)
         /\ o # <<>> => "OUT" \in w
         /\ tlsLink # "dead"
         /\ (written \o t) \o o = Bytes(submitted + n)
         => SendInv'
  <2> TAKE o, t \in Seq(Nat), w \in SUBSET {"IN", "OUT"}
  <2> HAVE /\ Keeps(o, t, w)
           /\ o # <<>> => "OUT" \in w
           /\ tlsLink # "dead"
           /\ (written \o t) \o o = Bytes(submitted + n)
  <2>1. /\ tls' = [tls EXCEPT !.out = o, !.watch = w] /\ written' = written \o t
        /\ tlsLink' = tlsLink
    BY DEF Keeps
  <2>2. /\ tls' \in TlsRecord /\ tls'.out = o /\ tls'.watch = w
        /\ tls'.state = "SNDRCV" /\ tls'.mem = "live"
    BY <1>0, <2>1 DEF TlsRecord
  <2>3. written \o t \in Seq(Nat)
    BY <1>0, ConcatProperties
  <2>4. InOrder(written \o t, submitted + n)
    BY <1>1, <2>3, FrontInOrder
  <2>. QED
    BY <1>1, <2>1, <2>2, <2>3, <2>4
    DEF SendInv, SendTypes, NoneBeforeExchange, PendingIsWatched, NoneLost, InOrder, Bytes
<1>6. \A o, t \in Seq(Nat) :
         /\ Breaks(o, t) /\ o \in {out, <<>>} /\ InOrder(written \o t, submitted)
         => SendInv'
  <2> TAKE o, t \in Seq(Nat)
  <2> HAVE Breaks(o, t) /\ o \in {out, <<>>} /\ InOrder(written \o t, submitted)
  <2>1. /\ tls' = [[tls EXCEPT !.out = o] EXCEPT !.inCallback = @ \/ "close" \in TlsCallbacks]
        /\ written' = written \o t /\ tlsLink' = "dead"
    BY DEF Breaks, Enters, Dies
  <2>2. /\ tls' \in TlsRecord /\ tls'.out = o /\ tls'.watch = tls.watch
        /\ tls'.state = "SNDRCV" /\ tls'.mem = "live"
    BY <1>0, <2>1 DEF TlsRecord
  <2>3. written \o t \in Seq(Nat)
    BY <1>0, ConcatProperties
  <2>4. InOrder(written \o t, submitted + n)
    BY <1>4, <2>3
  <2>5. PendingIsWatched'
    BY <1>0, <2>2 DEF PendingIsWatched
  <2>. QED
    BY <1>1, <2>1, <2>2, <2>3, <2>4, <2>5
    DEF SendInv, SendTypes, NoneBeforeExchange, NoneLost, InOrder
<1>7. PICK r \in IF out = <<>> THEN {0} ELSE Writing(Len(out)) :
         IF r = Len(out)
         THEN \E s \in Writing(n) :
                 IF s = Failed THEN Breaks(<<>>, out)
                 ELSE Keeps(Left(new, s), out \o SubSeq(new, 1, s),
                            IF s = n THEN tls.watch ELSE tls.watch \cup {"OUT"})
         ELSE IF r = Failed THEN Breaks(out, <<>>)
         ELSE Keeps(Left(out, r) \o new, SubSeq(out, 1, r), tls.watch \cup {"OUT"})
  BY DEF Send
<1>8. tls.watch \in SUBSET {"IN", "OUT"} /\ tls.watch \cup {"OUT"} \in SUBSET {"IN", "OUT"}
  BY <1>0 DEF TlsRecord
<1>9. <<>> \in Seq(Nat) /\ written \o <<>> = written /\ Len(<<>>) = 0
  BY <1>0, ConcatEmptySeq
<1>10. CASE r = Len(out)
  <2>1. PICK s \in Writing(n) :
           IF s = Failed THEN Breaks(<<>>, out)
           ELSE Keeps(Left(new, s), out \o SubSeq(new, 1, s),
                      IF s = n THEN tls.watch ELSE tls.watch \cup {"OUT"})
    BY <1>7, <1>10
  <2>2. CASE s = Failed
    <3>1. InOrder(written \o out, submitted)
      <4>1. CASE tlsLink = "dead"
        <5>1. out = <<>>
          <6>1. Len(out) \in Nat
            BY <1>0
          <6>. QED
            BY <1>7, <1>10, <4>1, <6>1 DEF Writing, Failed
        <5>. QED
          BY <1>0, <1>9, <5>1
      <4>2. CASE tlsLink # "dead"
        <5>1. written \o out = Bytes(submitted) /\ written \o out \in Seq(Nat)
          BY <1>0, <4>2, ConcatProperties
        <5>2. (written \o out) \o <<>> = Bytes(submitted)
          BY <5>1, ConcatEmptySeq
        <5>. QED
          BY <1>0, <1>9, <5>1, <5>2, FrontInOrder
      <4>. QED
        BY <4>1, <4>2
    <3>. QED
      BY <1>0, <1>6, <1>9, <2>1, <2>2, <3>1
  <2>3. CASE s # Failed
    <3>1. tlsLink # "dead" /\ s \in 0 .. n
      BY <2>3 DEF Writing, Want
    <3>2. /\ SubSeq(new, 1, s) \in Seq(Nat) /\ Left(new, s) \in Seq(Nat)
          /\ SubSeq(new, 1, s) \o Left(new, s) = new
          /\ s = n => Left(new, s) = <<>>
      BY <1>2, <3>1, TakenAndLeft
    <3>3. out \o SubSeq(new, 1, s) \in Seq(Nat)
      BY <1>0, <3>2, ConcatProperties
    <3>4. (written \o (out \o SubSeq(new, 1, s))) \o Left(new, s) = Bytes(submitted + n)
      <4>1. (written \o (out \o SubSeq(new, 1, s))) \o Left(new, s)
               = written \o ((out \o SubSeq(new, 1, s)) \o Left(new, s))
        BY <1>0, <3>2, <3>3, ConcatAssoc
      <4>2. (out \o SubSeq(new, 1, s)) \o Left(new, s) = out \o new
        <5>1. (out \o SubSeq(new, 1, s)) \o Left(new, s)
                 = out \o (SubSeq(new, 1, s) \o Left(new, s))
          BY <1>0, <3>2, ConcatAssoc
        <5>. QED
          BY <3>2, <5>1, Zenon
      <4>3. written \o (out \o new) = (written \o out) \o new
        BY <1>0, <1>2, ConcatAssoc
      <4>. QED
        BY <1>0, <1>3, <3>1, <4>1, <4>2, <4>3
    <3>5. CASE s = n
      BY <1>5, <1>8, <2>1, <2>3, <3>1, <3>2, <3>3, <3>4, <3>5
    <3>6. CASE s # n
      BY <1>5, <1>8, <2>1, <2>3, <3>1, <3>2, <3>3, <3>4, <3>6
    <3>. QED
      BY <3>5, <3>6
  <2>. QED
    BY <2>2, <2>3
<1>11. CASE r # Len(out) /\ r = Failed
  <2>1. Breaks(out, <<>>)
    BY <1>7, <1>11
  <2>. QED
    BY <1>0, <1>6, <1>9, <2>1
<1>12. CASE r # Len(out) /\ r # Failed
  <2>1. Keeps(Left(out, r) \o new, SubSeq(out, 1, r), tls.watch \cup {"OUT"})
    BY <1>7, <1>12
  <2>2. out # <<>>
    BY <1>7, <1>9, <1>12
  <2>3. tlsLink # "dead" /\ r \in 0 .. Len(out)
    <3>1. Len(out) \in Nat
      BY <1>0
    <3>. QED
      BY <1>7, <1>12, <2>2, <3>1 DEF Writing, Want
  <2>4. /\ SubSeq(out, 1, r) \in Seq(Nat) /\ Left(out, r) \in Seq(Nat)
        /\ SubSeq(out, 1, r) \o Left(out, r) = out
    BY <1>0, <2>3, TakenAndLeft
  <2>5. Left(out, r) \o new \in Seq(Nat)
    BY <1>2, <2>4, ConcatProperties
  <2>6. (written \o SubSeq(out, 1, r)) \o (Left(out, r) \o new) = Bytes(submitted + n)
    <3>1. written \o SubSeq(out, 1, r) \in Seq(Nat)
      BY <1>0, <2>4, ConcatProperties
    <3>2. (written \o SubSeq(out, 1, r)) \o (Left(out, r) \o new)
             = ((written \o SubSeq(out, 1, r)) \o Left(out, r)) \o new
      BY <1>2, <2>4, <3>1, ConcatAssoc
    <3>3. (written \o SubSeq(out, 1, r)) \o Left(out, r) = written \o out
      <4>1. (written \o SubSeq(out, 1, r)) \o Left(out, r)
               = written \o (SubSeq(out, 1, r) \o Left(out, r))
        BY <1>0, <2>4, ConcatAssoc
      <4>. QED
        BY <2>4, <4>1, Zenon
    <3>. QED
      BY <1>0, <1>3, <2>3, <3>2, <3>3
  <2>. QED
    BY <1>5, <1>8, <2>1, <2>3, <2>4, <2>5, <2>6
<1>. QED
  BY <1>10, <1>11, <1>12

\* The POLLOUT half of the handler: what OpenSSL takes leaves the buffer.
LEMMA WriteOutStep == ASSUME SendInv, WriteOut PROVE SendInv'
<1> DEFINE out == tls.out
<1>0. /\ tls \in TlsRecord /\ out \in Seq(Nat) /\ written \in Seq(Nat) /\ submitted \in Nat
      /\ InOrder(written, submitted) /\ PendingIsWatched
      /\ tls.mem = "live" /\ out # <<>> /\ tls.state = "SNDRCV"
      /\ tlsLink # "dead" => written \o out = Bytes(submitted)
  BY DEF SendInv, SendTypes, NoneLost, NoneBeforeExchange, TlsRecord, WriteOut, TlsRunning
<1>1. submitted' = submitted
  BY DEF WriteOut
<1>2. PICK r \in Writing(Len(out)) :
         /\ CASE r = Failed -> /\ tlsTodo' = <<"close">> \o Tail(tlsTodo)
                               /\ tls' = [tls EXCEPT !.inCallback = TRUE]
                               /\ UNCHANGED written
              [] r = Want   -> tlsTodo' = Tail(tlsTodo) /\ UNCHANGED <<tls, written>>
              [] OTHER      -> /\ tlsTodo' = Tail(tlsTodo)
                               /\ tls' = [tls EXCEPT !.out = Left(@, r), !.watch = Watched(r)]
                               /\ written' = written \o SubSeq(out, 1, r)
         /\ Dies(r = Failed)
  BY DEF WriteOut
<1>3. CASE r = Failed
  <2>1. tls' = [tls EXCEPT !.inCallback = TRUE] /\ written' = written /\ tlsLink' = "dead"
    BY <1>2, <1>3 DEF Dies, Failed, Want
  <2>2. /\ tls' \in TlsRecord /\ tls'.out = tls.out /\ tls'.watch = tls.watch
        /\ tls'.state = tls.state /\ tls'.mem = tls.mem
    BY <1>0, <2>1 DEF TlsRecord
  <2>. QED
    BY <1>0, <1>1, <2>1, <2>2, OutputKept
<1>4. CASE r = Want
  <2>1. tls' = tls /\ written' = written /\ tlsLink' = tlsLink
    BY <1>2, <1>4 DEF Dies, Want, Failed
  <2>. QED
    BY <1>0, <1>1, <2>1, OutputKept
<1>5. CASE r # Failed /\ r # Want
  <2>1. tlsLink # "dead" /\ r \in 0 .. Len(out)
    <3>1. Len(out) \in Nat
      BY <1>0
    <3>. QED
      BY <1>2, <1>5, <3>1 DEF Writing
  <2>2. /\ tls' = [tls EXCEPT !.out = Left(@, r), !.watch = Watched(r)]
        /\ written' = written \o SubSeq(out, 1, r) /\ tlsLink' = tlsLink
    BY <1>2, <1>5 DEF Dies
  <2>3. /\ SubSeq(out, 1, r) \in Seq(Nat) /\ Left(out, r) \in Seq(Nat)
        /\ SubSeq(out, 1, r) \o Left(out, r) = out
        /\ r = Len(out) => Left(out, r) = <<>>
    BY <1>0, <2>1, TakenAndLeft
  <2>4. Watched(r) \in SUBSET {"IN", "OUT"} /\ (r # Len(out) => "OUT" \in Watched(r))
    BY <1>0 DEF Watched, PendingIsWatched, TlsRecord
  <2>5. /\ tls' \in TlsRecord /\ tls'.out = Left(out, r) /\ tls'.watch = Watched(r)
        /\ tls'.state = "SNDRCV" /\ tls'.mem = "live"
    BY <1>0, <2>2, <2>3, <2>4 DEF TlsRecord
  <2>6. written' \in Seq(Nat)
    BY <1>0, <2>2, <2>3, ConcatProperties
  <2>7. written' \o Left(out, r) = Bytes(submitted)
    <3>1. (written \o SubSeq(out, 1, r)) \o Left(out, r)
             = written \o (SubSeq(out, 1, r) \o Left(out, r))
      BY <1>0, <2>3, ConcatAssoc
    <3>2. written \o (SubSeq(out, 1, r) \o Left(out, r)) = written \o out
      BY <2>3, Zenon
    <3>. QED
      BY <1>0, <2>1, <2>2, <3>1, <3>2
  <2>8. InOrder(written', submitted)
    BY <1>0, <2>3, <2>6, <2>7, FrontInOrder
  <2>9. PendingIsWatched'
    BY <2>3, <2>4, <2>5 DEF PendingIsWatched
  <2>. QED
    BY <1>0, <1>1, <2>5, <2>6, <2>7, <2>8, <2>9
    DEF SendInv, SendTypes, NoneBeforeExchange, NoneLost, InOrder, Bytes
<1>. QED
  BY <1>3, <1>4, <1>5

\* Entering a callback changes nothing that the invariant is about.
LEMMA EntersKeeps ==
    ASSUME SendInv, tls.mem = "live", NEW c, Enters(tls, c),
           written' = written, submitted' = submitted,
           tlsLink = "dead" => tlsLink' = "dead"
    PROVE  SendInv'
<1>1. tls \in TlsRecord /\ (tls.state # "SNDRCV" => tls.out = <<>>)
  BY DEF SendInv, SendTypes, NoneBeforeExchange
<1>2. PICK b \in BOOLEAN : tls' = [tls EXCEPT !.inCallback = b]
  BY <1>1 DEF Enters, TlsRecord
<1>3. /\ tls' \in TlsRecord /\ tls'.out = tls.out /\ tls'.watch = tls.watch
      /\ tls'.state = tls.state /\ tls'.mem = tls.mem
  BY <1>1, <1>2 DEF TlsRecord
<1>. QED
  BY <1>1, <1>3, OutputKept

\* Every other step of the TLS client.
LEMMA TlsStep == ASSUME SendInv, TlsNext PROVE SendInv'
<1>0. tls \in TlsRecord /\ submitted \in Nat /\ (tls.state # "SNDRCV" => tls.out = <<>>)
  BY DEF SendInv, SendTypes, NoneBeforeExchange
<1>a. TlsDeleted \in TlsRecord /\ TlsDeleted.mem = "freed" /\ TlsDeleted.out = <<>>
      /\ TlsDeleted.state = tls.state
  BY <1>0, EmptySeq DEF TlsDeleted, TlsRecord
<1>1. CASE TlsConnect
  <2>0. /\ tls.mem = "live" /\ tls.state = "INIT" /\ written' = written
        /\ submitted' = submitted /\ tlsLink' = tlsLink
    BY <1>1 DEF TlsConnect, TlsUser, TlsRunning
  <2>1. CASE Enters(tls, <<"failed", "end">>)
    BY <2>0, <2>1, EntersKeeps
  <2>2. CASE tls' = [tls EXCEPT !.hasChannel = TRUE, !.watch = {"OUT"}]
    <3>1. /\ tls' \in TlsRecord /\ tls'.out = tls.out /\ tls'.state = tls.state
          /\ tls'.mem = tls.mem
      BY <1>0, <2>2 DEF TlsRecord
    <3>. QED
      BY <1>0, <2>0, <3>1, OutputKept
  <2>. QED
    BY <1>1, <2>1, <2>2 DEF TlsConnect
<1>2. CASE TlsSend
  <2>1. tls.mem = "live" /\ tls.state = "SNDRCV"
    BY <1>2 DEF TlsSend, TlsUser, TlsRunning
  <2>2. PICK n \in 1 .. MaxBytes - submitted : Send(n) /\ submitted' = submitted + n
    BY <1>2 DEF TlsSend
  <2>3. n \in Nat
    BY <1>0, <2>2, MaxBytesAssumption
  <2>. QED
    BY <2>1, <2>2, <2>3, SendStep
<1>3. CASE TlsDestroy
  <2>0. /\ tls.mem = "live" /\ written' = written /\ submitted' = submitted
        /\ tlsLink' = tlsLink /\ tls' = TlsDestroyed
    BY <1>3 DEF TlsDestroy, TlsUser, TlsRunning
  <2>1. CASE tls' = [tls EXCEPT !.isAlive = FALSE]
    <3>1. /\ tls' \in TlsRecord /\ tls'.out = tls.out /\ tls'.watch = tls.watch
          /\ tls'.state = tls.state /\ tls'.mem = tls.mem
      BY <1>0, <2>1 DEF TlsRecord
    <3>. QED
      BY <1>0, <2>0, <3>1, OutputKept
  <2>2. CASE tls' = TlsDeleted
    BY <1>0, <1>a, <2>0, <2>2, OutputKept
  <2>. QED
    BY <2>0, <2>1, <2>2 DEF TlsDestroyed
<1>4. CASE HangUp
  <2>1. tls.mem = "live" /\ written' = written /\ submitted' = submitted /\ tlsLink' = tlsLink
    BY <1>4 DEF HangUp, Event, TlsRunning
  <2>. QED
    BY <1>4, <2>1, EntersKeeps DEF HangUp
<1>5. CASE TlsHandshake
  <2>1. /\ tls.mem = "live" /\ tls.state # "SNDRCV"
        /\ written' = written /\ submitted' = submitted
    BY <1>5 DEF TlsHandshake, Event, TlsRunning
  <2>2. tlsLink = "dead" => tlsLink' = "dead"
    BY <1>5 DEF TlsHandshake, Dies
  <2>3. PICK st \in {"HANDSHAKE", "SNDRCV"}, b \in BOOLEAN :
           tls' = [tls EXCEPT !.state = st, !.watch = {"IN"}, !.inCallback = b]
    <3>1. PICK st \in {"HANDSHAKE", "SNDRCV"} : \E c :
             Enters([tls EXCEPT !.state = st, !.watch = {"IN"}], c)
      BY <1>5 DEF TlsHandshake, Handshake
    <3>. QED
      BY <1>0, <3>1 DEF Enters, TlsRecord
  <2>4. /\ tls' \in TlsRecord /\ tls'.out = tls.out /\ tls'.state = st /\ tls'.mem = tls.mem
    BY <1>0, <2>3 DEF TlsRecord
  <2>5. tls'.out = <<>> /\ SendTypes' /\ NoneBeforeExchange' /\ PendingIsWatched'
    BY <1>0, <2>1, <2>4 DEF SendInv, SendTypes, NoneBeforeExchange, PendingIsWatched
  <2>. QED
    BY <2>1, <2>2, <2>4, <2>5 DEF SendInv, NoneLost, InOrder, Bytes
<1>6. CASE Exchange
  <2>1. tls.mem = "live" /\ written' = written /\ submitted' = submitted
    BY <1>6 DEF Exchange, Event, TlsRunning
  <2>2. tlsLink = "dead" => tlsLink' = "dead"
    BY <1>6 DEF Exchange, Dies
  <2>3. PICK c : Enters(tls, c)
    BY <1>6 DEF Exchange
  <2>. QED
    BY <2>1, <2>2, <2>3, EntersKeeps
<1>7. CASE WriteOut
  BY <1>7, WriteOutStep
<1>8. CASE TlsReturn
  <2>1. /\ tls.mem = "live" /\ written' = written /\ submitted' = submitted
        /\ tlsLink' = tlsLink
    BY <1>8 DEF TlsReturn, TlsRunning
  <2>2. PICK b \in BOOLEAN : tls' = [tls EXCEPT !.inCallback = b]
    BY <1>8 DEF TlsReturn
  <2>3. /\ tls' \in TlsRecord /\ tls'.out = tls.out /\ tls'.watch = tls.watch
        /\ tls'.state = tls.state /\ tls'.mem = tls.mem
    BY <1>0, <2>2 DEF TlsRecord
  <2>. QED
    BY <1>0, <2>1, <2>3, OutputKept
<1>9. CASE TlsEnd
  <2>1. /\ tls.mem = "live" /\ written' = written /\ submitted' = submitted
        /\ tlsLink' = tlsLink /\ (tls' = tls \/ tls' = TlsDeleted)
    BY <1>9 DEF TlsEnd, TlsRunning
  <2>2. CASE tls' = tls
    BY <1>0, <2>1, <2>2, OutputKept
  <2>3. CASE tls' = TlsDeleted
    BY <1>0, <1>a, <2>1, <2>3, OutputKept
  <2>. QED
    BY <2>1, <2>2, <2>3
<1>10. CASE NothingToWrite \/ LinkBreaks
  <2>1. tls' = tls /\ written' = written /\ submitted' = submitted
    BY <1>10 DEF NothingToWrite, LinkBreaks
  <2>2. tlsLink = "dead" => tlsLink' = "dead"
    BY <1>10 DEF NothingToWrite, LinkBreaks
  <2>. QED
    BY <1>0, <2>1, <2>2, OutputKept
<1>. QED
  BY <1>1, <1>2, <1>3, <1>4, <1>5, <1>6, <1>7, <1>8, <1>9, <1>10 DEF TlsNext

LEMMA SendInvariant == Spec => []SendInv
<1>1. Init => SendInv
  BY SendInit
<1>2. SendInv /\ [Next]_vars => SendInv'
  <2> SUFFICES ASSUME SendInv, [Next]_vars PROVE SendInv'
    OBVIOUS
  <2>1. CASE TlsNext
    BY <2>1, TlsStep
  <2>2. CASE UNCHANGED tlsVars
    BY <2>2 DEF tlsVars, SendInv, SendTypes, NoneBeforeExchange, PendingIsWatched,
                InOrder, NoneLost, Bytes
  <2>. QED
    BY <2>1, <2>2 DEF Next, vars
<1>. QED
  BY <1>1, <1>2, PTL DEF Spec

-----------------------------------------------------------------------------
\* do_ssl_send_inloop() and tls_client_onevent() never leave output pending
\* without POLLOUT watched, however OpenSSL takes it in parts.
THEOREM PendingOutputIsWatched == Spec => []PendingIsWatched
<1>1. SendInv => PendingIsWatched
  BY DEF SendInv
<1>. QED
  BY <1>1, SendInvariant, PTL

\* OpenSSL is given what the user sent, in that order, nothing twice and, while
\* it works, with nothing missing but what is in out_buffer.
THEOREM SentInOrder == Spec => []StreamInOrder
<1>1. SendInv => StreamInOrder
  <2> SUFFICES ASSUME SendInv PROVE StreamInOrder
    OBVIOUS
  <2>1. IsPrefix(written, Bytes(submitted))
    BY InOrderIsPrefix DEF SendInv, SendTypes
  <2>. QED
    BY <2>1 DEF SendInv, NoneLost, StreamInOrder, Bytes
<1>. QED
  BY <1>1, SendInvariant, PTL

-----------------------------------------------------------------------------
(***************************************************************************)
(* The destruction of the endpoints: with users who in callbacks either    *)
(* call or destroy, none is freed under a call that goes on to use it.     *)
(*                                                                         *)
(* The argument is about the shape of the calls the loop thread is in.     *)
(* Where a destruction may be asked for in a callback nothing is nested,   *)
(* so that the calls are one of a few sequences, and is_in_callback is set *)
(* in each that starts with a callback.  Where calls are nested, no        *)
(* destruction was asked for.                                              *)
(***************************************************************************)
(***************************************************************************)
(* Short sequences.                                                        *)
(***************************************************************************)
LEMMA Tails == \A c, d, e : /\ Tail(<<c, d, e>>) = <<d, e>>
                            /\ Tail(<<c, d>>) = <<d>>
                            /\ Tail(<<c>>) = <<>>
OBVIOUS

LEMMA Heads1 == \A c, d, e : /\ <<c>>[1] = c /\ <<c, d>>[1] = c /\ <<c, d, e>>[1] = c
                             /\ <<c>> # <<>> /\ <<c, d>> # <<>> /\ <<c, d, e>> # <<>>
OBVIOUS

LEMMA Short == ASSUME NEW S, NEW c \in S, NEW d \in S, NEW e \in S
               PROVE  <<c, d, e>> \in Seq(S) /\ <<c, d>> \in Seq(S) /\ <<c>> \in Seq(S)
                      /\ <<>> \in Seq(S)
OBVIOUS

LEMMA JoinedTwo == \A c, d : <<c>> \o <<d>> = <<c, d>>
<1> TAKE c, d
<1> DEFINE S == {c, d}
           s == <<c>> \o <<d>>
<1>1. <<c>> \in Seq(S) /\ <<d>> \in Seq(S) /\ <<c, d>> \in Seq(S)
  OBVIOUS
<1>2. /\ s \in Seq(S) /\ Len(s) = 2 /\ s[1] = c /\ s[2] = d
  BY <1>1, ConcatProperties
<1>3. \A i \in 1 .. 2 : s[i] = <<c, d>>[i]
  BY <1>2
<1>. QED
  BY <1>1, <1>2, <1>3, SeqEqual

LEMMA JoinedThree == \A c, d, e : <<c>> \o <<d, e>> = <<c, d, e>>
<1> TAKE c, d, e
<1> DEFINE S == {c, d, e}
           s == <<c>> \o <<d, e>>
<1>1. <<c>> \in Seq(S) /\ <<d, e>> \in Seq(S) /\ <<c, d, e>> \in Seq(S)
  OBVIOUS
<1>2. /\ s \in Seq(S) /\ Len(s) = 3 /\ s[1] = c /\ s[2] = d /\ s[3] = e
  BY <1>1, ConcatProperties
<1>3. \A i \in 1 .. 3 : s[i] = <<c, d, e>>[i]
  BY <1>2
<1>. QED
  BY <1>1, <1>2, <1>3, SeqEqual

LEMMA JoinedLast == \A c, d, e : <<c, d>> \o <<e>> = <<c, d, e>>
<1> TAKE c, d, e
<1> DEFINE S == {c, d, e}
           s == <<c, d>> \o <<e>>
<1>1. <<c, d>> \in Seq(S) /\ <<e>> \in Seq(S) /\ <<c, d, e>> \in Seq(S)
  OBVIOUS
<1>2. /\ s \in Seq(S) /\ Len(s) = 3 /\ s[1] = c /\ s[2] = d /\ s[3] = e
  BY <1>1, ConcatProperties
<1>3. \A i \in 1 .. 3 : s[i] = <<c, d, e>>[i]
  BY <1>2
<1>. QED
  BY <1>1, <1>2, <1>3, SeqEqual

\* What is entered from between events is all there is.
LEMMA Entered == ASSUME NEW S, NEW c \in Seq(S) PROVE c \o <<>> = c /\ <<>> \o c = c
BY ConcatEmptySeq

-----------------------------------------------------------------------------
(***************************************************************************)
(* The TCP server.                                                         *)
(***************************************************************************)
ServerRecord == [mem : {"none", "live", "freed"}, isStarted : BOOLEAN, listening : BOOLEAN,
                 hasIdle : BOOLEAN, inCallback : BOOLEAN, isAlive : BOOLEAN]

ServerInv == /\ server \in ServerRecord /\ server.listening = server.isStarted
             /\ backlog \in 0 .. MaxBacklog /\ open \in 0 .. MaxOpen
             /\ calls \in {<<>>, <<"end">>, <<"connection", "end">>}
             /\ server.mem = "live" /\ calls = <<"connection", "end">> => server.inCallback
             /\ server.mem = "freed" => calls = <<>>

LEMMA ServerInitInv == Init => ServerInv
<1> SUFFICES ASSUME Init PROVE ServerInv
  OBVIOUS
<1>1. NewServer \in ServerRecord /\ NewServer.listening = NewServer.isStarted
  BY DEF NewServer, ServerRecord
<1>2. /\ server = NewServer \/ server = [NewServer EXCEPT !.mem = "none"]
      /\ ServerUnused
  BY DEF Init, ServerInit, NoTcp
<1>3. server \in ServerRecord /\ server.listening = server.isStarted /\ server.mem # "freed"
  BY <1>1, <1>2 DEF ServerRecord, NewServer
<1>. QED
  BY <1>2, <1>3, ServerAssumption DEF ServerInv, ServerUnused

LEMMA ServerStep == ASSUME ServerInv, ServerNext \/ Connect PROVE ServerInv'
<1> USE ServerAssumption DEF ServerInv
<1>0. /\ Stopped(server) \in ServerRecord /\ Stopped(server).listening = Stopped(server).isStarted
      /\ Stopped(server).mem = server.mem /\ Stopped(server).inCallback = server.inCallback
  BY DEF Stopped, ServerRecord
<1>1. CASE StartServer
  BY <1>1 DEF StartServer, ServerRecord
<1>2. CASE StopServer
  BY <1>0, <1>2 DEF StopServer
<1>3. CASE ServerDeleted /\ calls' = <<>> /\ open' = open
  <2>1. PICK t \in {server, Stopped(server)} :
           server' = [t EXCEPT !.mem = "freed", !.isAlive = FALSE]
    BY <1>3 DEF ServerDeleted
  <2>2. /\ server' \in ServerRecord /\ server'.listening = server'.isStarted
        /\ server'.mem = "freed"
    BY <1>0, <2>1 DEF ServerRecord
  <2>. QED
    BY <1>3, <2>2 DEF ServerDeleted
<1>4. CASE DestroyServer
  <2>1. CASE server.inCallback
    BY <1>4, <2>1 DEF DestroyServer, ServerRecord
  <2>2. CASE ~server.inCallback
    <3>1. ServerDeleted /\ UNCHANGED <<calls, open>>
      BY <1>4, <2>2 DEF DestroyServer
    <3>2. calls = <<>>
      BY <1>4, <2>2, Heads1 DEF DestroyServer, ServerUser, Running, InOnConnection
    <3>. QED
      BY <1>3, <3>1, <3>2
  <2>. QED
    BY <2>1, <2>2
<1>5. CASE AcceptOne
  <2>1. /\ backlog' \in 0 .. MaxBacklog /\ open' \in 0 .. MaxOpen
        /\ server.mem = "live" /\ calls = <<>>
    BY <1>5 DEF AcceptOne, Acceptable, Running
  <2>2. CASE UNCHANGED <<server, calls, open>>
    BY <2>1, <2>2
  <2>3. CASE calls' = <<"connection", "end">> /\ server' = [server EXCEPT !.inCallback = TRUE]
    BY <2>1, <2>3 DEF ServerRecord
  <2>. QED
    BY <1>5, <2>2, <2>3 DEF AcceptOne
<1>6. CASE AcceptNone
  <2>1. /\ backlog' \in 0 .. MaxBacklog /\ open' = open
        /\ server.mem = "live" /\ calls = <<>> /\ calls' = calls
    BY <1>6 DEF AcceptNone, Acceptable, Running
  <2>2. server' = [server EXCEPT !.hasIdle = server.hasIdle]
    BY <1>6 DEF AcceptNone, IdleAfter
  <2>. QED
    BY <2>1, <2>2 DEF ServerRecord
<1>7. CASE ServerReturn
  <2>1. calls # <<>> /\ calls[1] = "connection"
    BY <1>7 DEF ServerReturn, InOnConnection
  <2>2. calls # <<"end">>
    BY <2>1, Heads1
  <2>3. calls = <<"connection", "end">>
    BY <2>1, <2>2
  <2>4. calls' = <<"end">>
    BY <1>7, <2>3, Tails DEF ServerReturn
  <2>5. <<"end">> # <<"connection", "end">>
    BY Heads1
  <2>6. /\ server' \in ServerRecord /\ server'.listening = server'.isStarted
        /\ server'.mem = "live" /\ backlog' = backlog /\ open' = open
    BY <1>7 DEF ServerReturn, Running, ServerRecord
  <2>. QED
    BY <2>4, <2>5, <2>6
<1>8. CASE ServerEnd
  <2>1. CASE server.isAlive
    BY <1>8, <2>1 DEF ServerEnd
  <2>2. CASE ~server.isAlive
    BY <1>3, <1>8, <2>2 DEF ServerEnd
  <2>. QED
    BY <2>1, <2>2
<1>9. CASE Arrive \/ OtherDescriptors \/ Connect
  BY <1>9 DEF Arrive, OtherDescriptors, Connect
<1>. QED
  BY <1>1, <1>2, <1>4, <1>5, <1>6, <1>7, <1>8, <1>9 DEF ServerNext, ServerLoop

LEMMA ServerSafe == ServerInv => ServerTypeOK /\ (server.mem = "freed" => calls = <<>>)
BY Short DEF ServerInv, ServerTypeOK, ServerRecord

-----------------------------------------------------------------------------
(***************************************************************************)
(* Handlers that nest nothing: at most a callback, the POLLOUT half and    *)
(* the end.                                                                *)
(***************************************************************************)
Flat(C) == {<<>>, <<"end">>, <<"out", "end">>} \cup {<<c>> : c \in C}
           \cup {<<c, "end">> : c \in C} \cup {<<c, "out", "end">> : c \in C}

\* Flat calls that start with something are followed by flat calls, and an end
\* is the last of them.
LEMMA FlatTail == ASSUME NEW C, "end" \notin C, "out" \notin C, NEW s \in Flat(C), s # <<>>
                  PROVE  /\ s[1] \in C => Tail(s) \in {<<>>, <<"end">>, <<"out", "end">>}
                         /\ s[1] = "end" => Tail(s) = <<>>
                         /\ s[1] = "out" => Tail(s) = <<"end">>
<1>1. CASE s = <<"end">>
  <2>1. Tail(s) = <<>> /\ s[1] = "end"
    BY <1>1, Tails, Heads1
  <2>. QED
    BY <2>1
<1>2. CASE s = <<"out", "end">>
  <2>1. Tail(s) = <<"end">> /\ s[1] = "out"
    BY <1>2, Tails, Heads1
  <2>. QED
    BY <2>1
<1>3. ASSUME NEW c \in C, s = <<c>> \/ s = <<c, "end">> \/ s = <<c, "out", "end">>
      PROVE  /\ s[1] = c /\ Tail(s) \in {<<>>, <<"end">>, <<"out", "end">>}
  <2>1. CASE s = <<c>>
    BY <2>1, Tails, Heads1
  <2>2. CASE s = <<c, "end">>
    BY <2>2, Tails, Heads1
  <2>3. CASE s = <<c, "out", "end">>
    BY <2>3, Tails, Heads1
  <2>. QED
    BY <1>3, <2>1, <2>2, <2>3
<1>4. ASSUME NEW c \in C, s = <<c>> \/ s = <<c, "end">> \/ s = <<c, "out", "end">>
      PROVE  /\ s[1] \in C => Tail(s) \in {<<>>, <<"end">>, <<"out", "end">>}
             /\ s[1] = "end" => Tail(s) = <<>>
             /\ s[1] = "out" => Tail(s) = <<"end">>
  <2>1. s[1] = c /\ c # "end" /\ c # "out"
    BY <1>3, <1>4
  <2>. QED
    BY <1>3, <1>4, <2>1
<1>. QED
  BY <1>1, <1>2, <1>4 DEF Flat

LEMMA FlatIsSeq == ASSUME NEW C, NEW s \in Flat(C) PROVE s \in Seq(C \cup {"out", "end"})
<1> DEFINE D == C \cup {"out", "end"}
<1>1. \A c \in D : /\ <<c, "out", "end">> \in Seq(D) /\ <<c, "end">> \in Seq(D)
                   /\ <<c>> \in Seq(D) /\ <<>> \in Seq(D)
  <2> TAKE c \in D
  <2>1. "out" \in D /\ "end" \in D
    OBVIOUS
  <2>. QED
    BY <2>1, Short
<1>2. \A c \in C : c \in D
  OBVIOUS
<1>3. "out" \in D /\ "end" \in D
  OBVIOUS
<1> HIDE DEF D
<1>4. s \in Seq(D)
  BY <1>1, <1>2, <1>3 DEF Flat
<1>. QED
  BY <1>4 DEF D

\* What a handler enters is flat, and starts with a callback or with none.
LEMMA FlatEntered ==
    ASSUME NEW C, NEW c \in C
    PROVE  /\ (<<c>> \o <<"out">>) \o <<"end">> \in Flat(C)
           /\ (<<c>> \o <<>>) \o <<"end">> \in Flat(C)
           /\ (<<>> \o <<"out">>) \o <<"end">> = <<"out", "end">>
           /\ (<<>> \o <<>>) \o <<"end">> = <<"end">>
           /\ ((<<c>> \o <<"out">>) \o <<"end">>)[1] = c
           /\ ((<<c>> \o <<>>) \o <<"end">>)[1] = c
           /\ (<<c>> \o <<"out">>) \o <<"end">> # <<>>
           /\ (<<c>> \o <<>>) \o <<"end">> # <<>>
<1>1. <<c>> \o <<"out">> = <<c, "out">> /\ <<c, "out">> \o <<"end">> = <<c, "out", "end">>
  BY JoinedTwo, JoinedLast
<1>2. <<c>> \o <<>> = <<c>> /\ <<c>> \o <<"end">> = <<c, "end">>
  <2>1. <<c>> \in Seq({c})
    OBVIOUS
  <2>. QED
    BY <2>1, JoinedTwo, Entered
<1>3. <<>> \o <<"out">> = <<"out">> /\ <<>> \o <<"end">> = <<"end">> /\ <<>> \o <<>> = <<>>
  <2>1. <<"out">> \in Seq({"out"}) /\ <<"end">> \in Seq({"end"}) /\ <<>> \in Seq({"end"})
    OBVIOUS
  <2>. QED
    BY <2>1, Entered
<1>4. <<"out">> \o <<"end">> = <<"out", "end">>
  BY JoinedTwo
<1>5. <<c, "out", "end">> \in Flat(C) /\ <<c, "end">> \in Flat(C)
  BY DEF Flat
<1>6. (<<c>> \o <<"out">>) \o <<"end">> = <<c, "out", "end">>
  BY <1>1, Zenon
<1>7. (<<c>> \o <<>>) \o <<"end">> = <<c, "end">>
  BY <1>2, Zenon
<1>8. (<<>> \o <<"out">>) \o <<"end">> = <<"out", "end">>
  BY <1>3, <1>4, Zenon
<1>9. (<<>> \o <<>>) \o <<"end">> = <<"end">>
  BY <1>3, Zenon
<1>10. /\ <<c, "out", "end">>[1] = c /\ <<c, "out", "end">> # <<>>
       /\ <<c, "end">>[1] = c /\ <<c, "end">> # <<>>
  BY Heads1
<1>. QED
  BY <1>5, <1>6, <1>7, <1>8, <1>9, <1>10, Zenon

-----------------------------------------------------------------------------
(***************************************************************************)
(* The DTLS endpoint, which nests nothing, whatever its user does.         *)
(***************************************************************************)
DtlsRecord == [mem : {"none", "live", "freed"}, mode : {"client", "server"},
               state : {"INIT", "HANDSHAKE", "SNDRCV"}, inCallback : BOOLEAN,
               isAlive : BOOLEAN, writecb : BOOLEAN, watch : SUBSET {"IN", "OUT"}]

DtlsInv == /\ dtls \in DtlsRecord
           /\ dtlsTodo \in Flat(DtlsCallbacks)
           /\ dtls.mem = "live" /\ InDtlsCallback => dtls.inCallback
           /\ dtls.mem = "freed" => dtlsTodo = <<>>

LEMMA DtlsInitInv == Init => DtlsInv
<1> SUFFICES ASSUME Init PROVE DtlsInv
  OBVIOUS
<1>1. ASSUME NEW mode \in {"client", "server"}, NEW w \in BOOLEAN
      PROVE  NewDtls(mode, w) \in DtlsRecord /\ NewDtls(mode, w).mem = "live"
  <2>1. CASE w
    BY <2>1 DEF NewDtls, DtlsRecord
  <2>2. CASE ~w
    BY <2>2 DEF NewDtls, DtlsRecord
  <2>. QED
    BY <2>1, <2>2
<1>2. \A t \in DtlsRecord : /\ [t EXCEPT !.mem = "none"] \in DtlsRecord
                            /\ [t EXCEPT !.mem = "none"].mem = "none"
  BY DEF DtlsRecord
<1>a. NoDtls \/ DtlsInit
  BY DEF Init
<1>3. dtlsTodo = <<>>
  BY <1>a DEF NoDtls, DtlsInit
<1>4. dtls \in DtlsRecord /\ dtls.mem # "freed"
  <2>1. CASE DtlsInit
    <3>1. PICK mode \in {"client", "server"}, w \in BOOLEAN : dtls = NewDtls(mode, w)
      BY <2>1 DEF DtlsInit
    <3>. QED
      BY <1>1, <3>1
  <2>2. CASE NoDtls
    <3>1. dtls = [NewDtls("client", FALSE) EXCEPT !.mem = "none"]
      BY <2>2 DEF NoDtls
    <3>2. NewDtls("client", FALSE) \in DtlsRecord
      BY <1>1
    <3>. QED
      BY <1>2, <3>1, <3>2
  <2>. QED
    BY <1>a, <2>1, <2>2
<1>. QED
  BY <1>3, <1>4 DEF DtlsInv, InDtlsCallback, Flat

\* Entering flat calls from between events.
LEMMA DtlsEntered ==
    ASSUME DtlsInv, dtls.mem = "live", dtlsTodo = <<>>,
           NEW t \in DtlsRecord, t.mem = "live",
           NEW c \in Flat(DtlsCallbacks), DtlsEnters(t, c)
    PROVE  DtlsInv'
<1>1. dtlsTodo' = c
  <2>1. c \in Seq(DtlsCallbacks \cup {"out", "end"})
    BY FlatIsSeq
  <2>. QED
    BY <2>1, Entered DEF DtlsEnters
<1>2. PICK b \in BOOLEAN : /\ dtls' = [t EXCEPT !.inCallback = b]
                           /\ b = (c # <<>> /\ c[1] \in DtlsCallbacks)
  BY DEF DtlsEnters
<1>3. dtls' \in DtlsRecord /\ dtls'.mem = "live" /\ dtls'.inCallback = b
  BY <1>2 DEF DtlsRecord
<1>. QED
  BY <1>1, <1>2, <1>3 DEF DtlsInv, InDtlsCallback

LEMMA DtlsStep == ASSUME DtlsInv, DtlsNext PROVE DtlsInv'
<1>0. /\ dtls \in DtlsRecord /\ dtlsTodo \in Flat(DtlsCallbacks) /\ dtls.mem = "live"
      /\ "out" \notin DtlsCallbacks /\ "end" \notin DtlsCallbacks
      /\ InDtlsCallback => dtls.inCallback
  BY DEF DtlsInv, DtlsCallbacks, DtlsNext, DtlsStart, DtlsDestroy, DtlsUser, DtlsHandshake,
         DtlsExchange, DtlsWritable, DtlsReturn, DtlsEnd, DtlsRunning
<1>1. \A c \in DtlsCallbacks : /\ <<c>> \in Flat(DtlsCallbacks)
                               /\ <<c, "end">> \in Flat(DtlsCallbacks)
  BY DEF Flat
<1>2. /\ <<>> \in Flat(DtlsCallbacks) /\ <<"end">> \in Flat(DtlsCallbacks)
      /\ <<"out", "end">> \in Flat(DtlsCallbacks)
  BY DEF Flat
<1>3. \A st \in {"INIT", "HANDSHAKE", "SNDRCV"} :
         /\ [dtls EXCEPT !.state = st] \in DtlsRecord
         /\ [dtls EXCEPT !.state = st].mem = "live"
  BY <1>0 DEF DtlsRecord
<1>4. /\ "handshaken" \in DtlsCallbacks /\ "message" \in DtlsCallbacks
      /\ "shutdown" \in DtlsCallbacks /\ "writable" \in DtlsCallbacks
  BY DEF DtlsCallbacks
\* A deletion is safe when no call is left.
<1>5. ASSUME dtls' = DtlsDeleted, dtlsTodo' = <<>> PROVE DtlsInv'
  <2>1. dtls' \in DtlsRecord /\ dtls'.mem = "freed"
    BY <1>0, <1>5 DEF DtlsDeleted, DtlsRecord
  <2>. QED
    BY <1>2, <1>5, <2>1 DEF DtlsInv
<1>6. CASE DtlsStart
  <2>1. dtlsTodo = <<>>
    BY <1>6 DEF DtlsStart
  <2>2. CASE DtlsEnters([dtls EXCEPT !.state = "SNDRCV"], <<"handshaken">>)
    BY <1>0, <1>1, <1>3, <1>4, <2>1, <2>2, DtlsEntered
  <2>3. CASE DtlsEnters([dtls EXCEPT !.state = "HANDSHAKE"], <<>>)
    BY <1>0, <1>2, <1>3, <2>1, <2>3, DtlsEntered
  <2>. QED
    BY <1>6, <2>2, <2>3 DEF DtlsStart
<1>7. CASE DtlsDestroy
  <2>1. dtls' = DtlsDestroyed /\ dtlsTodo' = dtlsTodo
    BY <1>7 DEF DtlsDestroy
  <2>2. CASE dtls.inCallback
    <3>1. /\ dtls' \in DtlsRecord /\ dtls'.mem = "live" /\ dtls'.inCallback = dtls.inCallback
      BY <1>0, <2>1, <2>2 DEF DtlsDestroyed, DtlsRecord
    <3>. QED
      BY <1>0, <2>1, <2>2, <3>1 DEF DtlsInv
  <2>3. CASE ~dtls.inCallback
    <3>1. dtlsTodo = <<>>
      BY <1>0, <1>7, <2>3 DEF DtlsDestroy, DtlsUser
    <3>. QED
      BY <1>5, <2>1, <2>3, <3>1 DEF DtlsDestroyed
  <2>. QED
    BY <2>2, <2>3
<1>8. CASE DtlsHandshake
  <2>1. dtlsTodo = <<>>
    BY <1>8 DEF DtlsHandshake
  <2>2. CASE DtlsEnters([dtls EXCEPT !.state = "SNDRCV"], <<"handshaken", "end">>)
    BY <1>0, <1>1, <1>3, <1>4, <2>1, <2>2, DtlsEntered
  <2>3. CASE DtlsEnters(dtls, <<"handshaken", "end">>)
    BY <1>0, <1>1, <1>4, <2>1, <2>3, DtlsEntered
  <2>4. CASE DtlsEnters(dtls, <<"end">>)
    BY <1>0, <1>2, <2>1, <2>4, DtlsEntered
  <2>. QED
    BY <1>8, <2>2, <2>3, <2>4 DEF DtlsHandshake
<1>9. CASE DtlsExchange
  <2>1. dtlsTodo = <<>>
    BY <1>9 DEF DtlsExchange
  <2>2. PICK called \in {<<"message">>, <<"shutdown">>, <<>>}, o \in {<<"out">>, <<>>} :
           DtlsEnters(dtls, called \o o \o <<"end">>)
    BY <1>9 DEF DtlsExchange
  <2>3. called \o o \o <<"end">> \in Flat(DtlsCallbacks)
    BY <1>2, <1>4, FlatEntered
  <2>. QED
    BY <1>0, <2>1, <2>2, <2>3, DtlsEntered
<1>10. CASE DtlsWritable
  <2>1. Tail(dtlsTodo) = <<"end">>
    BY <1>0, <1>10, FlatTail DEF DtlsWritable
  <2>2. <<"end">> \in Seq({"end"}) /\ <<"end">>[1] = "end" /\ "end" \notin DtlsCallbacks
    BY <1>0
  <2>3. CASE dtls.writecb
    <3>1. dtlsTodo' = <<"writable", "end">> /\ dtls' = [dtls EXCEPT !.inCallback = TRUE]
      BY <1>0, <1>10, <2>1, <2>3, JoinedTwo DEF DtlsWritable, DtlsRecord
    <3>2. dtls' \in DtlsRecord /\ dtls'.mem = "live" /\ dtls'.inCallback
      BY <1>0, <3>1 DEF DtlsRecord
    <3>. QED
      BY <1>1, <1>4, <3>1, <3>2 DEF DtlsInv
  <2>4. CASE ~dtls.writecb
    <3>1. dtlsTodo' = <<"end">> /\ dtls' = [dtls EXCEPT !.inCallback = dtls.writecb]
      BY <1>10, <2>1, <2>2, <2>4, Entered DEF DtlsWritable
    <3>2. dtls' \in DtlsRecord /\ dtls'.mem = "live"
      BY <1>0, <3>1 DEF DtlsRecord
    <3>. QED
      BY <1>2, <2>2, <3>1, <3>2 DEF DtlsInv, InDtlsCallback
  <2>. QED
    BY <2>3, <2>4
<1>11. CASE DtlsReturn
  <2>1. dtlsTodo' \in {<<>>, <<"end">>, <<"out", "end">>}
    BY <1>0, <1>11, FlatTail DEF DtlsReturn, InDtlsCallback
  <2>2. dtlsTodo' \in Flat(DtlsCallbacks) /\ ~InDtlsCallback'
    BY <1>0, <1>2, <2>1, Heads1 DEF InDtlsCallback
  <2>3. dtls' \in DtlsRecord /\ dtls'.mem = "live"
    BY <1>0, <1>11 DEF DtlsReturn, DtlsRecord
  <2>. QED
    BY <2>2, <2>3 DEF DtlsInv
<1>12. CASE DtlsEnd
  <2>1. dtlsTodo' = <<>>
    BY <1>0, <1>12, FlatTail DEF DtlsEnd
  <2>2. CASE dtls' = dtls
    BY <1>0, <1>2, <2>1, <2>2 DEF DtlsInv, InDtlsCallback
  <2>. QED
    BY <1>5, <1>12, <2>1, <2>2 DEF DtlsEnd
<1>. QED
  BY <1>6, <1>7, <1>8, <1>9, <1>10, <1>11, <1>12 DEF DtlsNext

LEMMA DtlsSafe == DtlsInv => DtlsTypeOK /\ (dtls.mem = "freed" => dtlsTodo = <<>>)
<1> SUFFICES ASSUME DtlsInv PROVE DtlsTypeOK /\ (dtls.mem = "freed" => dtlsTodo = <<>>)
  OBVIOUS
<1>1. dtlsTodo \in Seq(DtlsCallbacks \cup {"out", "end"})
  BY FlatIsSeq DEF DtlsInv
<1>. QED
  BY <1>1 DEF DtlsInv, DtlsRecord, DtlsTypeOK

-----------------------------------------------------------------------------
(***************************************************************************)
(* The TCP client.  A user who destroys in callbacks nests nothing there;  *)
(* one who connects in them destroys between events only, and there        *)
(* is_in_callback is never set.                                            *)
(***************************************************************************)
ClientRecord == [mem : {"none", "live", "freed"}, hasChannel : BOOLEAN,
                 connection : {"none", "open", "closed"}, inCallback : BOOLEAN,
                 isAlive : BOOLEAN, attempts : Nat, style : Styles \cup {"both"}]

ClientTypes == /\ client \in ClientRecord
               /\ clientCalls \in Seq(ClientCallbacks \cup {"end"})
               /\ client.hasChannel => peer # "none" /\ client.connection = "none"

ClientInv ==
    /\ ClientTypes
    /\ client.mem = "freed" => clientCalls = <<>>
    /\ client.mem = "live" =>
          /\ client.style \in {"calls", "destroys"}
          /\ client.style = "destroys" =>
                /\ clientCalls \in Flat(ClientCallbacks)
                /\ InClientCallback => client.inCallback
          /\ client.style = "calls" =>
                client.isAlive /\ (client.inCallback => InClientCallback)

LEMMA ClientInitInv == ASSUME "both" \notin Styles PROVE Init => ClientInv
<1> SUFFICES ASSUME Init PROVE ClientInv
  OBVIOUS
<1>1. \A style \in Styles \cup {"both"} :
         /\ NewClient(style) \in ClientRecord /\ NewClient(style).mem = "live"
         /\ NewClient(style).style = style /\ NewClient(style).isAlive
         /\ ~NewClient(style).inCallback /\ ~NewClient(style).hasChannel
  BY DEF NewClient, ClientRecord
<1>2. \A t \in ClientRecord : /\ [t EXCEPT !.mem = "none"] \in ClientRecord
                              /\ [t EXCEPT !.mem = "none"].mem = "none"
                              /\ [t EXCEPT !.mem = "none"].hasChannel = t.hasChannel
  BY DEF ClientRecord
<1>3. ClientInit \/ NoTcp
  BY DEF Init
<1>4. clientCalls = <<>>
  BY <1>3 DEF ClientInit, NoTcp, ClientUnused
<1>5. <<>> \in Seq(ClientCallbacks \cup {"end"}) /\ <<>> \in Flat(ClientCallbacks)
  BY EmptySeq DEF Flat
<1>6. CASE ClientInit
  <2>1. PICK style \in Styles : client = NewClient(style)
    BY <1>6 DEF ClientInit
  <2>2. style \in {"calls", "destroys"}
    BY StylesAssumption
  <2>. QED
    BY <1>1, <1>4, <1>5, <2>1, <2>2 DEF ClientInv, ClientTypes, InClientCallback
<1>7. CASE NoTcp
  <2>1. client = [NewClient("both") EXCEPT !.mem = "none"]
    BY <1>7 DEF NoTcp
  <2>. QED
    BY <1>1, <1>2, <1>4, <1>5, <2>1 DEF ClientInv, ClientTypes
<1>. QED
  BY <1>3, <1>6, <1>7

\* A callback is entered: from between events, or by a user who calls.
LEMMA ClientNotified ==
    ASSUME ClientInv, client.mem = "live",
           client.style = "destroys" => clientCalls = <<>>,
           NEW t \in ClientRecord, NEW c \in ClientCallbacks, Notifies(t, c),
           t.mem = "live", t.style = client.style, t.isAlive = client.isAlive,
           t.hasChannel => peer' # "none" /\ t.connection = "none"
    PROVE  ClientInv'
<1> DEFINE D == ClientCallbacks \cup {"end"}
<1>1. clientCalls \in Seq(D) /\ <<c, "end">> \in Seq(D)
  BY DEF ClientInv, ClientTypes
<1>2. /\ clientCalls' = <<c, "end">> \o clientCalls
      /\ client' = [t EXCEPT !.inCallback = TRUE]
  BY DEF Notifies
<1>3. clientCalls' \in Seq(D) /\ clientCalls' # <<>> /\ clientCalls'[1] = c
  BY <1>1, <1>2, ConcatProperties
<1>4. /\ client' \in ClientRecord /\ client'.mem = "live" /\ client'.style = client.style
      /\ client'.isAlive = client.isAlive /\ client'.inCallback
      /\ client'.hasChannel = t.hasChannel /\ client'.connection = t.connection
  BY <1>2 DEF ClientRecord
<1>5. client.style = "destroys" => clientCalls' \in Flat(ClientCallbacks)
  <2>1. clientCalls = <<>> => clientCalls' = <<c, "end">>
    BY <1>1, <1>2, Entered
  <2>2. <<c, "end">> \in Flat(ClientCallbacks)
    BY DEF Flat
  <2>. QED
    BY <2>1, <2>2
<1>6. InClientCallback'
  BY <1>3 DEF InClientCallback
<1>. QED
  BY <1>3, <1>4, <1>5, <1>6 DEF ClientInv, ClientTypes

LEMMA ClientStep == ASSUME "both" \notin Styles, ClientInv,
                           ClientNext \/ (\E l : PeerAnswers(l))
                    PROVE  ClientInv'
<1> DEFINE D == ClientCallbacks \cup {"end"}
<1>0. /\ client \in ClientRecord /\ client.mem = "live" /\ clientCalls \in Seq(D)
      /\ client.hasChannel => peer # "none" /\ client.connection = "none"
      /\ client.style \in {"calls", "destroys"}
      /\ client.style = "destroys" => /\ clientCalls \in Flat(ClientCallbacks)
                                      /\ InClientCallback => client.inCallback
      /\ client.style = "calls" =>
            client.isAlive /\ (client.inCallback => InClientCallback)
  BY DEF ClientInv, ClientTypes, ClientNext, ClientConnect, ClientUser, ClientOnEvent,
         ClientOnData, ClientOnClose, ClientDestroy, ClientReturn, ClientEnd, PeerAnswers,
         ClientRunning
<1>1. "out" \notin ClientCallbacks /\ "end" \notin ClientCallbacks
  BY DEF ClientCallbacks
<1>2. {<<>>, <<"end">>, <<"out", "end">>} \subseteq Flat(ClientCallbacks)
  BY DEF Flat
<1>3. /\ "failed" \in ClientCallbacks /\ "connected" \in ClientCallbacks
      /\ "data" \in ClientCallbacks /\ "closed" \in ClientCallbacks
  BY DEF ClientCallbacks
<1>4. ASSUME client' = ClientDeleted, clientCalls' = <<>> PROVE ClientInv'
  <2>1. client' \in ClientRecord /\ client'.mem = "freed" /\ ~client'.hasChannel
    BY <1>0, <1>4 DEF ClientDeleted, ClientRecord
  <2>2. clientCalls' \in Seq(D)
    BY <1>4, EmptySeq
  <2>. QED
    BY <1>4, <2>1, <2>2 DEF ClientInv, ClientTypes
<1>5. CASE ClientConnect
  <2> DEFINE t == [client EXCEPT !.attempts = @ + 1]
  <2>1. /\ t \in ClientRecord /\ t.mem = "live" /\ t.style = client.style
        /\ t.isAlive = client.isAlive /\ ~t.hasChannel /\ t.inCallback = client.inCallback
        /\ t.connection = "none"
    BY <1>0, <1>5 DEF ClientConnect, ClientRecord
  <2>2. client.style = "destroys" => clientCalls = <<>>
    BY <1>5 DEF ClientConnect, ClientUser, MayDo
  <2>3. CASE Notifies(t, "failed")
    BY <1>0, <1>3, <2>1, <2>2, <2>3, ClientNotified
  <2>4. CASE /\ client' = [t EXCEPT !.hasChannel = TRUE] /\ peer' = "pending"
             /\ clientCalls' = clientCalls
    <3>1. /\ client' \in ClientRecord /\ client'.mem = "live" /\ client'.style = client.style
          /\ client'.isAlive = client.isAlive /\ client'.connection = "none"
          /\ client'.inCallback = client.inCallback
      BY <2>1, <2>4 DEF ClientRecord
    <3>. QED
      BY <1>0, <2>4, <3>1 DEF ClientInv, ClientTypes, InClientCallback
  <2>. QED
    BY <1>5, <2>3, <2>4 DEF ClientConnect
<1>6. CASE ClientOnEvent
  <2>0. clientCalls = <<>> /\ client.hasChannel /\ peer # "none"
    BY <1>6 DEF ClientOnEvent
  <2>1. CASE Notifies([client EXCEPT !.hasChannel = FALSE], "failed")
    <3> DEFINE t == [client EXCEPT !.hasChannel = FALSE]
    <3>1. /\ t \in ClientRecord /\ t.mem = "live" /\ t.style = client.style
          /\ t.isAlive = client.isAlive /\ ~t.hasChannel
      BY <1>0 DEF ClientRecord
    <3>. QED
      BY <1>0, <1>3, <2>0, <2>1, <3>1, ClientNotified
  <2>2. CASE Notifies([client EXCEPT !.hasChannel = FALSE, !.connection = "open"], "connected")
    <3> DEFINE t == [client EXCEPT !.hasChannel = FALSE, !.connection = "open"]
    <3>1. /\ t \in ClientRecord /\ t.mem = "live" /\ t.style = client.style
          /\ t.isAlive = client.isAlive /\ ~t.hasChannel
      BY <1>0 DEF ClientRecord
    <3>. QED
      BY <1>0, <1>3, <2>0, <2>2, <3>1, ClientNotified
  <2>. QED
    BY <1>6, <2>1, <2>2 DEF ClientOnEvent
<1>7. CASE ClientOnData
  <2>1. clientCalls = <<>> /\ Notifies(client, "data") /\ peer' = peer
    BY <1>7 DEF ClientOnData
  <2>. QED
    BY <1>0, <1>3, <2>1, ClientNotified
<1>8. CASE ClientOnClose
  <2> DEFINE t == [client EXCEPT !.connection = "closed"]
  <2>1. /\ clientCalls = <<>> /\ Notifies(t, "closed") /\ ~client.hasChannel
    BY <1>0, <1>8 DEF ClientOnClose
  <2>2. /\ t \in ClientRecord /\ t.mem = "live" /\ t.style = client.style
        /\ t.isAlive = client.isAlive /\ ~t.hasChannel
    BY <1>0, <2>1 DEF ClientRecord
  <2>. QED
    BY <1>0, <1>3, <2>1, <2>2, ClientNotified
<1>9. CASE ClientDestroy
  <2>0. client' = ClientDestroyed /\ clientCalls' = clientCalls /\ peer' = peer
    BY <1>9 DEF ClientDestroy
  <2>1. client.style = "calls" => clientCalls = <<>>
    BY <1>9 DEF ClientDestroy, ClientUser, MayDo
  <2>2. CASE client.inCallback
    <3>1. client.style = "destroys"
      BY <1>0, <2>1, <2>2 DEF InClientCallback
    <3>2. /\ client' \in ClientRecord /\ client'.mem = "live" /\ client'.style = client.style
          /\ client'.hasChannel = client.hasChannel /\ client'.inCallback
          /\ client'.connection = client.connection
      BY <1>0, <2>0, <2>2 DEF ClientDestroyed, ClientRecord
    <3>. QED
      BY <1>0, <2>0, <3>1, <3>2 DEF ClientInv, ClientTypes
  <2>3. CASE ~client.inCallback
    <3>1. clientCalls = <<>>
      BY <1>0, <1>9, <2>1, <2>3 DEF ClientDestroy, ClientUser
    <3>. QED
      BY <1>4, <2>0, <2>3, <3>1 DEF ClientDestroyed
  <2>. QED
    BY <2>2, <2>3
<1>10. CASE ClientReturn
  <2>1. /\ clientCalls' = Tail(clientCalls) /\ clientCalls # <<>> /\ peer' = peer
        /\ InClientCallback /\ client' = [client EXCEPT !.inCallback = FALSE]
    BY <1>10 DEF ClientReturn, InClientCallback
  <2>2. clientCalls' \in Seq(D)
    BY <1>0, <2>1, HeadTailProperties
  <2>3. client.style = "destroys" => clientCalls' \in {<<>>, <<"end">>, <<"out", "end">>}
    BY <1>0, <1>1, <2>1, FlatTail DEF InClientCallback
  <2>4. client.style = "destroys" => ~InClientCallback'
    BY <1>1, <2>3, Heads1 DEF InClientCallback
  <2>5. /\ client' \in ClientRecord /\ client'.mem = "live" /\ client'.style = client.style
        /\ client'.hasChannel = client.hasChannel /\ ~client'.inCallback
        /\ client'.connection = client.connection /\ client'.isAlive = client.isAlive
    BY <1>0, <2>1 DEF ClientRecord
  <2>. QED
    BY <1>0, <1>2, <2>1, <2>2, <2>3, <2>4, <2>5 DEF ClientInv, ClientTypes
<1>11. CASE ClientEnd
  <2>1. /\ clientCalls' = Tail(clientCalls) /\ clientCalls # <<>> /\ peer' = peer
        /\ clientCalls[1] = "end" /\ ~InClientCallback
    BY <1>1, <1>11 DEF ClientEnd, InClientCallback
  <2>2. clientCalls' \in Seq(D)
    BY <1>0, <2>1, HeadTailProperties
  <2>3. client.style = "destroys" => clientCalls' = <<>>
    BY <1>0, <1>1, <2>1, FlatTail
  <2>4. CASE client.isAlive
    <3>1. client' = client
      BY <1>11, <2>4 DEF ClientEnd
    <3>2. client.style = "destroys" => ~InClientCallback'
      BY <2>3 DEF InClientCallback
    <3>. QED
      BY <1>0, <1>2, <2>1, <2>2, <2>3, <3>1, <3>2 DEF ClientInv, ClientTypes
  <2>5. CASE ~client.isAlive
    <3>1. client' = ClientDeleted /\ clientCalls' = <<>>
      BY <1>0, <1>11, <2>3, <2>5 DEF ClientEnd
    <3>. QED
      BY <1>4, <3>1
  <2>. QED
    BY <2>4, <2>5
<1>12. CASE \E l : PeerAnswers(l)
  <2>1. client' = client /\ clientCalls' = clientCalls /\ peer' # "none"
    BY <1>12 DEF PeerAnswers
  <2>. QED
    BY <2>1 DEF ClientInv, ClientTypes, InClientCallback
<1>. QED
  BY <1>5, <1>6, <1>7, <1>8, <1>9, <1>10, <1>11, <1>12 DEF ClientNext

LEMMA ClientSafe == ClientInv => ClientTypeOK /\ (client.mem = "freed" => clientCalls = <<>>)
BY DEF ClientInv, ClientTypes, ClientTypeOK, ClientRecord

-----------------------------------------------------------------------------
(***************************************************************************)
(* The TLS client.  A user who sends in callbacks nests handlers, and      *)
(* there is_in_callback is set only while a callback runs; but a failed    *)
(* handshake leaves it set, in a client that then is doomed: it nests      *)
(* nothing any more, since nothing can be sent.                            *)
(***************************************************************************)
TlsCalls == TlsCallbacks \cup {"out", "end"}
SoundCalls == (TlsCallbacks \ {"rejected"}) \cup {"out", "end"}

CallsTyped == /\ tlsTodo \in Seq(TlsCalls)
              /\ tlsLink \in {"up", "broken", "dead"}
              /\ submitted \in 0 .. MaxBytes
              /\ tlsFault \in {"none", "assert"}

Doomed == /\ tlsLink = "dead" /\ tls.state = "HANDSHAKE"
          /\ tlsTodo \in Flat(TlsCallbacks)
Sound == /\ tls.isAlive /\ (tls.inCallback => InTlsCallback)
         /\ tlsTodo \in Seq(SoundCalls)

\* How the calls stand in which a destruction may be asked for.
Orderly ==
    /\ tls.style \in {"calls", "destroys"}
    /\ tls.style = "destroys" => /\ tlsTodo \in Flat(TlsCallbacks)
                                 /\ InTlsCallback => tls.inCallback
    /\ tls.style = "calls" => Doomed \/ Sound

TlsFree == /\ CallsTyped
           /\ tls.mem = "freed" => tlsTodo = <<>>
           /\ tls.mem = "live" => Orderly

LEMMA TlsFreeInit == ASSUME "both" \notin Styles PROVE Init => TlsFree
<1> SUFFICES ASSUME Init PROVE TlsFree
  OBVIOUS
<1>1. /\ tlsTodo = <<>> /\ tlsLink = "up" /\ submitted = 0 /\ tlsFault = "none"
  BY DEF Init, NoTls, TlsInit, TlsUnused
<1>2. /\ <<>> \in Seq(TlsCalls) /\ <<>> \in Seq(SoundCalls) /\ <<>> \in Flat(TlsCallbacks)
  BY EmptySeq DEF Flat
<1>3. \A style \in Styles \cup {"both"} :
         /\ NewTls(style) \in TlsRecord /\ NewTls(style).style = style
         /\ NewTls(style).isAlive /\ ~NewTls(style).inCallback /\ NewTls(style).mem = "live"
  BY EmptySeq DEF NewTls, TlsRecord
<1>4. \A t \in TlsRecord : [t EXCEPT !.mem = "none"].mem = "none"
  BY DEF TlsRecord
<1>5. CASE TlsInit
  <2>1. PICK style \in Styles : tls = NewTls(style)
    BY <1>5 DEF TlsInit
  <2>2. style \in {"calls", "destroys"}
    BY StylesAssumption
  <2>. QED
    BY <1>1, <1>2, <1>3, <2>1, <2>2, MaxBytesAssumption
    DEF TlsFree, CallsTyped, Orderly, Sound, InTlsCallback
<1>6. CASE NoTls
  <2>1. tls.mem = "none"
    BY <1>3, <1>4, <1>6 DEF NoTls
  <2>. QED
    BY <1>1, <1>2, <2>1, MaxBytesAssumption DEF TlsFree, CallsTyped
<1>. QED
  BY <1>5, <1>6 DEF Init

LEMMA SeqOfMore == ASSUME NEW S, NEW T, S \subseteq T, NEW s \in Seq(S) PROVE s \in Seq(T)
<1>1. PICK n \in Nat : s \in [1 .. n -> S]
  BY LenProperties
<1>. QED
  BY <1>1

LEMMA SoundIsTyped == ASSUME NEW s \in Seq(SoundCalls) PROVE s \in Seq(TlsCalls)
<1>1. SoundCalls \subseteq TlsCalls
  BY DEF SoundCalls, TlsCalls
<1>. QED
  BY <1>1, SeqOfMore

\* Calls are entered: from between events, or by a user who sends.
LEMMA TlsEntered ==
    ASSUME tls \in TlsRecord, CallsTyped, Orderly,
           tls.style = "destroys" => tlsTodo = <<>>,
           NEW t \in TlsRecord, NEW c \in Flat(TlsCallbacks), c # <<>>, Enters(t, c),
           t.mem = "live", t.style = tls.style, t.isAlive = tls.isAlive,
           t.inCallback = tls.inCallback,
           tls.style = "calls" =>
              \/ tlsTodo = <<>> /\ tlsLink' = "dead" /\ t.state = "HANDSHAKE"
              \/ /\ Sound /\ c \in Seq(SoundCalls)
                 /\ c[1] \in TlsCallbacks \/ tlsTodo = <<>>
    PROVE  /\ tlsTodo' \in Seq(TlsCalls) /\ tls'.mem = "live"
           /\ Orderly'
<1>0. tlsTodo \in Seq(TlsCalls) /\ c \in Seq(TlsCalls)
  BY FlatIsSeq DEF CallsTyped, TlsCalls
<1>1. /\ tlsTodo' = c \o tlsTodo
      /\ tls' = [t EXCEPT !.inCallback = tls.inCallback \/ c[1] \in TlsCallbacks]
  BY DEF Enters
<1>2. /\ tls'.mem = "live" /\ tls'.style = tls.style /\ tls'.isAlive = tls.isAlive
      /\ tls'.state = t.state
      /\ tls'.inCallback <=> tls.inCallback \/ c[1] \in TlsCallbacks
  BY <1>1, Zenon DEF TlsRecord
<1>3. tlsTodo = <<>> => tlsTodo' = c
  BY <1>0, <1>1, Entered
<1>4. tlsTodo' \in Seq(TlsCalls) /\ tlsTodo' # <<>> /\ tlsTodo'[1] = c[1]
  BY <1>0, <1>1, ConcatProperties
<1>5. InTlsCallback' <=> c[1] \in TlsCallbacks
  BY <1>4 DEF InTlsCallback, TlsCallbacks
<1>6. CASE tls.style = "destroys"
  BY <1>2, <1>3, <1>4, <1>5, <1>6 DEF Orderly
<1>7. CASE tls.style = "calls"
  <2>1. CASE tlsTodo = <<>> /\ tlsLink' = "dead" /\ t.state = "HANDSHAKE"
    BY <1>2, <1>3, <1>4, <1>7, <2>1 DEF Orderly, Doomed
  <2>2. CASE /\ Sound /\ c \in Seq(SoundCalls)
             /\ c[1] \in TlsCallbacks \/ tlsTodo = <<>>
    <3>1. tlsTodo' \in Seq(SoundCalls)
      BY <1>1, <2>2, ConcatProperties DEF Sound
    <3>2. tls'.isAlive /\ (tls'.inCallback => InTlsCallback')
      BY <1>2, <1>5, <2>2 DEF Sound, InTlsCallback
    <3>. QED
      BY <1>2, <1>4, <1>7, <3>1, <3>2 DEF Orderly, Sound
  <2>. QED
    BY <1>7, <2>1, <2>2
<1>. QED
  BY <1>2, <1>4, <1>6, <1>7 DEF Orderly

\* What the handlers of the TLS client enter.
LEMMA TlsEntries ==
    /\ "end" \notin TlsCallbacks /\ "out" \notin TlsCallbacks /\ "close" \in TlsCallbacks
    /\ \A c \in TlsCallbacks :
          /\ <<c, "end">> \in Flat(TlsCallbacks) /\ <<c, "end">>[1] = c /\ <<c, "end">> # <<>>
          /\ c # "rejected" => <<c, "end">> \in Seq(SoundCalls)
    /\ \A c \in {"data", "close"} :
          /\ <<c>> \o (<<"out">> \o <<"end">>) = <<c, "out", "end">>
          /\ <<c>> \o (<<>> \o <<"end">>) = <<c, "end">>
          /\ <<c, "out", "end">> \in Flat(TlsCallbacks) /\ <<c, "out", "end">>[1] = c
          /\ <<c, "out", "end">> # <<>> /\ <<c, "out", "end">> \in Seq(SoundCalls)
    /\ <<"out">> \o <<"end">> = <<"out", "end">> /\ <<>> \o <<"end">> = <<"end">>
    /\ \A s \in {<<"end">>, <<"out", "end">>} :
          s \in Flat(TlsCallbacks) /\ s # <<>> /\ s \in Seq(SoundCalls)
    /\ <<>> \in Flat(TlsCallbacks)
<1>1. /\ "end" \notin TlsCallbacks /\ "out" \notin TlsCallbacks
      /\ "close" \in TlsCallbacks /\ "data" \in TlsCallbacks
      /\ "end" \in SoundCalls /\ "out" \in SoundCalls
      /\ \A c \in TlsCallbacks : c # "rejected" => c \in SoundCalls
      /\ "close" \in SoundCalls /\ "data" \in SoundCalls
  BY DEF TlsCallbacks, SoundCalls
<1>2. \A c \in TlsCallbacks : <<c, "end">> \in Flat(TlsCallbacks)
                              /\ <<c, "out", "end">> \in Flat(TlsCallbacks)
  BY DEF Flat
<1>3. \A c : /\ <<c, "end">>[1] = c /\ <<c, "end">> # <<>>
             /\ <<c, "out", "end">>[1] = c /\ <<c, "out", "end">> # <<>>
  BY Heads1
<1>4. \A c \in SoundCalls : /\ <<c, "end">> \in Seq(SoundCalls)
                            /\ <<c, "out", "end">> \in Seq(SoundCalls)
  BY <1>1, Short
<1>5. <<"out">> \o <<"end">> = <<"out", "end">> /\ <<>> \o <<"end">> = <<"end">>
  <2>1. <<"end">> \in Seq({"end"})
    OBVIOUS
  <2>. QED
    BY <2>1, JoinedTwo, Entered
<1>6. \A c : <<c>> \o <<"out", "end">> = <<c, "out", "end">> /\ <<c>> \o <<"end">> = <<c, "end">>
  BY JoinedTwo, JoinedThree
<1>7. ASSUME NEW c PROVE  /\ <<c>> \o (<<"out">> \o <<"end">>) = <<c, "out", "end">>
                          /\ <<c>> \o (<<>> \o <<"end">>) = <<c, "end">>
  BY <1>5, <1>6, Zenon
<1>8. /\ <<"end">> \in Flat(TlsCallbacks) /\ <<"out", "end">> \in Flat(TlsCallbacks)
      /\ <<>> \in Flat(TlsCallbacks)
  BY DEF Flat
<1>9. /\ <<"end">> \in Seq(SoundCalls) /\ <<"end">> # <<>>
      /\ <<"out", "end">> \in Seq(SoundCalls) /\ <<"out", "end">> # <<>>
  BY <1>1, Short, Heads1
<1>10. \A s \in {<<"end">>, <<"out", "end">>} :
          s \in Flat(TlsCallbacks) /\ s # <<>> /\ s \in Seq(SoundCalls)
  BY <1>8, <1>9, Zenon
<1>11. \A c \in TlsCallbacks :
          /\ <<c, "end">> \in Flat(TlsCallbacks) /\ <<c, "end">>[1] = c /\ <<c, "end">> # <<>>
          /\ c # "rejected" => <<c, "end">> \in Seq(SoundCalls)
  BY <1>1, <1>2, <1>3, <1>4, Zenon
<1>12. \A c \in {"data", "close"} :
          /\ <<c, "out", "end">> \in Flat(TlsCallbacks) /\ <<c, "out", "end">>[1] = c
          /\ <<c, "out", "end">> # <<>> /\ <<c, "out", "end">> \in Seq(SoundCalls)
  BY <1>1, <1>2, <1>3, <1>4, Zenon
<1>. QED
  BY <1>1, <1>5, <1>7, <1>8, <1>10, <1>11, <1>12, Zenon

LEMMA TlsTypesKept == ASSUME CallsTyped, TlsNext
                      PROVE  /\ tlsLink' \in {"up", "broken", "dead"}
                             /\ submitted' \in 0 .. MaxBytes
                             /\ tlsFault' \in {"none", "assert"}
<1>1. /\ tlsLink \in {"up", "broken", "dead"} /\ tlsFault \in {"none", "assert"}
      /\ submitted \in 0 .. MaxBytes
  BY DEF CallsTyped
<1>2. CASE TlsSend
  <2>1. PICK n \in 1 .. MaxBytes - submitted : Send(n) /\ submitted' = submitted + n
    BY <1>2 DEF TlsSend
  <2>2. submitted' \in 0 .. MaxBytes
    BY <1>1, <2>1, MaxBytesAssumption
  <2>3. tlsLink' = tlsLink \/ tlsLink' = "dead"
    BY <2>1 DEF Send, Keeps, Breaks, Dies
  <2>. QED
    BY <1>1, <1>2, <2>2, <2>3 DEF TlsSend
<1>3. CASE TlsHandshake \/ Exchange \/ WriteOut
  BY <1>1, <1>3 DEF TlsHandshake, Exchange, WriteOut, Dies
<1>4. CASE TlsConnect \/ TlsDestroy \/ HangUp \/ TlsReturn \/ TlsEnd
  BY <1>1, <1>4 DEF TlsConnect, TlsDestroy, HangUp, TlsReturn, TlsEnd
<1>5. CASE NothingToWrite \/ LinkBreaks
  BY <1>1, <1>5 DEF NothingToWrite, LinkBreaks
<1>. QED
  BY <1>2, <1>3, <1>4, <1>5 DEF TlsNext

\* The calls stay orderly.
CallsOrderly == /\ tlsTodo \in Seq(TlsCalls)
                /\ tls.mem = "freed" => tlsTodo = <<>>
                /\ tls.mem = "live" => Orderly

\* A deletion is safe when no call is left.
LEMMA TlsDeletedSafe == ASSUME tls \in TlsRecord, tls' = TlsDeleted, tlsTodo' = <<>>
                        PROVE  CallsOrderly'
<1>1. tls'.mem = "freed"
  BY DEF TlsDeleted, TlsRecord
<1>2. tlsTodo' \in Seq(TlsCalls)
  BY EmptySeq
<1>. QED
  BY <1>1, <1>2 DEF CallsOrderly

\* So is a step that leaves the calls alone.
LEMMA TlsCallsKept ==
    ASSUME tls.mem = "live", CallsTyped, Orderly,
           tlsTodo' = tlsTodo, tls'.mem = "live", tls'.style = tls.style,
           tls'.state = tls.state, tls'.inCallback = tls.inCallback,
           tls'.isAlive = tls.isAlive, tlsLink = "dead" => tlsLink' = "dead"
    PROVE  CallsOrderly'
<1>1. InTlsCallback' = InTlsCallback
  BY DEF InTlsCallback
<1>2. Orderly'
  BY <1>1 DEF Orderly, Doomed, Sound
<1>3. tlsTodo' \in Seq(TlsCalls)
  BY DEF CallsTyped
<1>. QED
  BY <1>2, <1>3 DEF CallsOrderly

\* Sending, which only a user who calls does in a callback.
LEMMA TlsSendOrderly ==
    ASSUME SendInv, CallsTyped, Orderly, TlsSend, tls.mem = "live"
    PROVE  CallsOrderly'
<1>0. tls \in TlsRecord
  BY DEF SendInv, SendTypes
<1>1. /\ tls.state = "SNDRCV" /\ (tls.style = "destroys" => tlsTodo = <<>>)
  BY DEF TlsSend, TlsUser, MayDo
<1>2. PICK n \in 1 .. MaxBytes - submitted : Send(n)
  BY DEF TlsSend
<1>3. (\E out, taken, watch : Keeps(out, taken, watch))
      \/ \E out \in {tls.out, <<>>} : \E taken : Breaks(out, taken)
  BY <1>2 DEF Send
<1>4. CASE \E out, taken, watch : Keeps(out, taken, watch)
  <2>1. PICK out, taken, watch : Keeps(out, taken, watch)
    BY <1>4
  <2>2. /\ tlsTodo' = tlsTodo /\ tlsLink' = tlsLink
        /\ tls' = [tls EXCEPT !.out = out, !.watch = watch]
    BY <2>1 DEF Keeps
  <2>3. /\ tls'.mem = "live" /\ tls'.style = tls.style /\ tls'.state = tls.state
        /\ tls'.inCallback = tls.inCallback /\ tls'.isAlive = tls.isAlive
    BY <1>0, <2>2 DEF TlsRecord
  <2>. QED
    BY <2>2, <2>3, TlsCallsKept
<1>5. CASE \E out \in {tls.out, <<>>} : \E taken : Breaks(out, taken)
  <2>1. PICK out \in {tls.out, <<>>} : \E taken : Breaks(out, taken)
    BY <1>5
  <2> DEFINE t == [tls EXCEPT !.out = out]
  <2>2. out \in Seq(Nat)
    BY <1>0, <2>1, EmptySeq DEF TlsRecord
  <2>3. /\ t \in TlsRecord /\ t.mem = "live" /\ t.style = tls.style /\ t.state = tls.state
        /\ t.inCallback = tls.inCallback /\ t.isAlive = tls.isAlive
    BY <1>0, <2>2 DEF TlsRecord
  <2>4. Enters(t, <<"close", "end">>)
    BY <2>1 DEF Breaks
  <2>5. tls.style = "calls" => Sound
    BY <1>1 DEF Orderly, Doomed
  <2>6. /\ "close" \in TlsCallbacks /\ <<"close", "end">> \in Flat(TlsCallbacks)
        /\ <<"close", "end">>[1] = "close" /\ <<"close", "end">> # <<>>
        /\ <<"close", "end">> \in Seq(SoundCalls)
    BY TlsEntries
  <2> HIDE DEF t
  <2>7. tlsTodo' \in Seq(TlsCalls) /\ tls'.mem = "live" /\ Orderly'
    BY <1>0, <1>1, <2>3, <2>4, <2>5, <2>6, TlsEntered
  <2>. QED
    BY <2>7 DEF CallsOrderly
<1>. QED
  BY <1>3, <1>4, <1>5

\* An event is handled from between events.
LEMMA HandlersOrderly ==
    ASSUME SendInv, CallsTyped, Orderly, tls.mem = "live",
           HangUp \/ TlsHandshake \/ Exchange
    PROVE  CallsOrderly'
<1>0. tls \in TlsRecord /\ tlsTodo = <<>> /\ ~InTlsCallback
  BY DEF SendInv, SendTypes, HangUp, TlsHandshake, Exchange, Event, InTlsCallback
<1>1. /\ "failed" \in TlsCallbacks /\ "close" \in TlsCallbacks /\ "connected" \in TlsCallbacks
      /\ "rejected" \in TlsCallbacks
  BY DEF TlsCallbacks
<1>2. tls.style = "calls" => Sound \/ (tlsLink = "dead" /\ tls.state = "HANDSHAKE")
  BY DEF Orderly, Doomed
<1>3. ASSUME Orderly', tlsTodo' \in Seq(TlsCalls), tls'.mem = "live" PROVE CallsOrderly'
  BY <1>3 DEF CallsOrderly
<1>4. CASE HangUp
  <2>1. PICK c \in {"close", "failed"} : Enters(tls, <<c, "end">>)
    BY <1>4 DEF HangUp
  <2>2. tlsLink' = tlsLink
    BY <1>4 DEF HangUp
  <2>3. /\ <<c, "end">> \in Flat(TlsCallbacks) /\ <<c, "end">> # <<>>
        /\ <<c, "end">> \in Seq(SoundCalls)
    BY <1>1, <2>1, TlsEntries
  <2>. QED
    BY <1>0, <1>2, <1>3, <2>1, <2>2, <2>3, TlsEntered
<1>5. CASE TlsHandshake
  <2>1. PICK result \in Handshake, t \in {[tls EXCEPT !.state = st, !.watch = {"IN"}] :
                                            st \in {"HANDSHAKE", "SNDRCV"}} :
           /\ CASE result = "done"   -> Enters(t, <<"connected", "end">>)
                [] result = "want"   -> Enters(t, <<"end">>)
                [] result = "failed" -> Enters(t, <<"rejected", "end">>)
           /\ t.state = IF result = "done" THEN "SNDRCV" ELSE "HANDSHAKE"
           /\ Dies(result = "failed")
    BY <1>0, <1>5 DEF TlsHandshake, TlsRecord
  <2>2. /\ t \in TlsRecord /\ t.mem = "live" /\ t.style = tls.style
        /\ t.inCallback = tls.inCallback /\ t.isAlive = tls.isAlive
    <3>1. PICK st \in {"HANDSHAKE", "SNDRCV"} : t = [tls EXCEPT !.state = st, !.watch = {"IN"}]
      BY <2>1
    <3>. QED
      BY <1>0, <3>1 DEF TlsRecord
  <2>3. tlsLink = "dead" => result = "failed"
    BY DEF Handshake
  <2>4. CASE result = "done"
    <3>1. /\ Enters(t, <<"connected", "end">>) /\ tlsLink # "dead"
      BY <2>1, <2>3, <2>4
    <3>2. /\ <<"connected", "end">> \in Flat(TlsCallbacks) /\ <<"connected", "end">> # <<>>
          /\ <<"connected", "end">> \in Seq(SoundCalls)
      BY <1>1, TlsEntries
    <3>. QED
      BY <1>0, <1>2, <1>3, <2>2, <3>1, <3>2, TlsEntered
  <2>5. CASE result = "want"
    <3>1. /\ Enters(t, <<"end">>) /\ tlsLink # "dead"
      BY <2>1, <2>3, <2>5
    <3>2. /\ <<"end">> \in Flat(TlsCallbacks) /\ <<"end">> # <<>>
          /\ <<"end">> \in Seq(SoundCalls)
      BY TlsEntries
    <3>. QED
      BY <1>0, <1>2, <1>3, <2>2, <3>1, <3>2, TlsEntered
  <2>6. CASE result = "failed"
    <3>1. /\ Enters(t, <<"rejected", "end">>) /\ tlsLink' = "dead" /\ t.state = "HANDSHAKE"
      BY <2>1, <2>6 DEF Dies
    <3>2. /\ <<"rejected", "end">> \in Flat(TlsCallbacks) /\ <<"rejected", "end">> # <<>>
      BY <1>1, TlsEntries
    <3>. QED
      BY <1>0, <1>3, <2>2, <3>1, <3>2, TlsEntered
  <2>. QED
    BY <2>4, <2>5, <2>6 DEF Handshake
<1>6. CASE Exchange
  <2>1. PICK o \in {<<"out">>, <<>>}, c \in {"data", "close"} :
           \/ Enters(tls, o \o <<"end">>)
           \/ Enters(tls, <<c>> \o (o \o <<"end">>))
    BY <1>6 DEF Exchange
  <2>2. Sound \/ tls.style # "calls"
    BY <1>6 DEF Exchange, Orderly, Doomed
  <2>3. CASE Enters(tls, o \o <<"end">>)
    <3>1. o \o <<"end">> \in {<<"end">>, <<"out", "end">>}
      BY TlsEntries
    <3>2. PICK s \in {<<"end">>, <<"out", "end">>} : Enters(tls, s)
      BY <2>3, <3>1
    <3>3. s \in Flat(TlsCallbacks) /\ s # <<>> /\ s \in Seq(SoundCalls)
      BY TlsEntries
    <3>. QED
      BY <1>0, <1>3, <2>2, <3>2, <3>3, TlsEntered
  <2>4. CASE Enters(tls, <<c>> \o (o \o <<"end">>))
    <3>1. c \in TlsCallbacks /\ c # "rejected"
      BY DEF TlsCallbacks
    <3>2. <<c>> \o (o \o <<"end">>) \in {<<c, "end">>, <<c, "out", "end">>}
      BY TlsEntries
    <3>3. PICK s \in {<<c, "end">>, <<c, "out", "end">>} : Enters(tls, s)
      BY <2>4, <3>2
    <3>4. s \in Flat(TlsCallbacks) /\ s # <<>> /\ s \in Seq(SoundCalls)
      BY <3>1, TlsEntries
    <3>. QED
      BY <1>0, <1>3, <2>2, <3>3, <3>4, TlsEntered
  <2>. QED
    BY <2>1, <2>3, <2>4
<1>. QED
  BY <1>4, <1>5, <1>6

\* The POLLOUT half: while output is pending, a user who calls is not doomed.
LEMMA WriteOutOrderly ==
    ASSUME SendInv, CallsTyped, Orderly, tls.mem = "live", WriteOut
    PROVE  CallsOrderly'
<1>0. /\ tls \in TlsRecord /\ tls.state = "SNDRCV" /\ tlsTodo # <<>> /\ tlsTodo[1] = "out"
      /\ tlsTodo \in Seq(TlsCalls)
  BY DEF SendInv, SendTypes, NoneBeforeExchange, WriteOut, CallsTyped
<1>1. ~InTlsCallback
  BY <1>0, TlsEntries DEF InTlsCallback
<1>2. tls.style = "calls" => Sound /\ ~tls.inCallback
  BY <1>0, <1>1 DEF Orderly, Doomed, Sound
<1>3. tls.style = "destroys" => Tail(tlsTodo) = <<"end">>
  BY <1>0, FlatTail, TlsEntries DEF Orderly
<1>4. /\ Tail(tlsTodo) \in Seq(TlsCalls)
      /\ tls.style = "calls" => Tail(tlsTodo) \in Seq(SoundCalls)
  BY <1>0, <1>2, HeadTailProperties DEF Sound
<1>5. tls.style \in {"calls", "destroys"}
  BY DEF Orderly
<1>6. CASE tlsTodo' = <<"close">> \o Tail(tlsTodo) /\ tls' = [tls EXCEPT !.inCallback = TRUE]
  <2>1. /\ tls'.mem = "live" /\ tls'.style = tls.style /\ tls'.inCallback
        /\ tls'.isAlive = tls.isAlive
    BY <1>0, <1>6 DEF TlsRecord
  <2>2. /\ <<"close">> \in Seq(TlsCalls) /\ <<"close">> \in Seq(SoundCalls)
        /\ <<"close">> # <<>> /\ <<"close">>[1] = "close" /\ Len(<<"close">>) = 1
    BY DEF TlsCalls, SoundCalls, TlsCallbacks
  <2>3. tlsTodo' \in Seq(TlsCalls) /\ tlsTodo' # <<>> /\ tlsTodo'[1] = "close"
    BY <1>4, <1>6, <2>2, ConcatProperties
  <2>4. InTlsCallback'
    BY <2>3, TlsEntries DEF InTlsCallback
  <2>5. tls.style = "calls" => Sound'
    <3>1. tls.style = "calls" => tlsTodo' \in Seq(SoundCalls)
      BY <1>4, <1>6, <2>2, ConcatProperties
    <3>. QED
      BY <1>2, <2>1, <2>4, <3>1 DEF Sound
  <2>6. tls.style = "destroys" => tlsTodo' \in Flat(TlsCallbacks)
    <3>1. <<"close">> \o <<"end">> \in Flat(TlsCallbacks)
      BY JoinedTwo, TlsEntries
    <3>. QED
      BY <1>3, <1>6, <3>1
  <2>. QED
    BY <1>5, <2>1, <2>3, <2>4, <2>5, <2>6 DEF CallsOrderly, Orderly
<1>7. ASSUME tlsTodo' = Tail(tlsTodo), tls'.mem = "live", tls'.style = tls.style,
             tls'.inCallback = tls.inCallback, tls'.isAlive = tls.isAlive
      PROVE  CallsOrderly'
  <2>1. tls.style = "calls" => Sound'
    BY <1>2, <1>4, <1>7 DEF Sound
  <2>2. tls.style = "destroys" => /\ tlsTodo' \in Flat(TlsCallbacks)
                                  /\ ~InTlsCallback'
    <3>1. <<"end">> \in Flat(TlsCallbacks) /\ <<"end">>[1] = "end" /\ "end" \notin TlsCallbacks
      BY TlsEntries, Heads1
    <3>. QED
      BY <1>3, <1>7, <3>1 DEF InTlsCallback
  <2>. QED
    BY <1>4, <1>5, <1>7, <2>1, <2>2 DEF CallsOrderly, Orderly
<1>8. CASE tlsTodo' = Tail(tlsTodo) /\ tls' = tls
  BY <1>7, <1>8
<1>9. ASSUME NEW r, tlsTodo' = Tail(tlsTodo),
             tls' = [tls EXCEPT !.out = Left(@, r), !.watch = Watched(r)]
      PROVE  CallsOrderly'
  <2>1. /\ tls'.mem = "live" /\ tls'.style = tls.style
        /\ tls'.inCallback = tls.inCallback /\ tls'.isAlive = tls.isAlive
    BY <1>0, <1>9 DEF TlsRecord
  <2>. QED
    BY <1>7, <1>9, <2>1
<1>10. PICK r : \/ tlsTodo' = <<"close">> \o Tail(tlsTodo) /\ tls' = [tls EXCEPT !.inCallback = TRUE]
                \/ tlsTodo' = Tail(tlsTodo) /\ tls' = tls
                \/ /\ tlsTodo' = Tail(tlsTodo)
                   /\ tls' = [tls EXCEPT !.out = Left(@, r), !.watch = Watched(r)]
  BY DEF WriteOut, Failed, Want
<1>. QED
  BY <1>6, <1>8, <1>9, <1>10

\* A callback returns, or a handler ends.
LEMMA ReturnOrderly ==
    ASSUME SendInv, CallsTyped, Orderly, tls.mem = "live", TlsReturn
    PROVE  CallsOrderly'
<1>0. /\ tls \in TlsRecord /\ InTlsCallback /\ tlsTodo # <<>> /\ tlsTodo[1] \in TlsCallbacks
      /\ tlsTodo \in Seq(TlsCalls) /\ tls.style \in {"calls", "destroys"}
      /\ tlsTodo' = Tail(tlsTodo) /\ tlsLink' = tlsLink
      /\ tls' = [tls EXCEPT !.inCallback = (tlsTodo[1] = "rejected")]
  BY DEF SendInv, SendTypes, TlsReturn, InTlsCallback, CallsTyped, Orderly
<1>1. /\ tls'.mem = "live" /\ tls'.style = tls.style /\ tls'.state = tls.state
      /\ tls'.isAlive = tls.isAlive /\ tls'.inCallback = (tlsTodo[1] = "rejected")
  BY <1>0 DEF TlsRecord
<1>2. /\ tlsTodo' \in Seq(TlsCalls)
      /\ Sound => tlsTodo' \in Seq(SoundCalls) /\ tlsTodo[1] # "rejected"
  <2>1. Sound => tlsTodo[1] \in SoundCalls
    BY <1>0, HeadTailProperties DEF Sound
  <2>2. "rejected" \notin SoundCalls
    BY DEF SoundCalls
  <2>. QED
    BY <1>0, <2>1, <2>2, HeadTailProperties DEF Sound
<1>3. tlsTodo \in Flat(TlsCallbacks) => /\ tlsTodo' \in Flat(TlsCallbacks)
                                        /\ ~InTlsCallback'
  <2>1. tlsTodo \in Flat(TlsCallbacks) => tlsTodo' \in {<<>>, <<"end">>, <<"out", "end">>}
    BY <1>0, FlatTail, TlsEntries
  <2>2. \A s \in {<<>>, <<"end">>, <<"out", "end">>} :
           s \in Flat(TlsCallbacks) /\ (s # <<>> => s[1] \in {"end", "out"})
    BY Heads1 DEF Flat
  <2>. QED
    BY <2>1, <2>2, TlsEntries DEF InTlsCallback
<1>4. tls.style = "calls" => Doomed' \/ Sound'
  BY <1>0, <1>1, <1>2, <1>3 DEF Orderly, Doomed, Sound
<1>5. tls.style = "destroys" => tlsTodo' \in Flat(TlsCallbacks) /\ ~InTlsCallback'
  BY <1>3 DEF Orderly
<1>. QED
  BY <1>0, <1>1, <1>2, <1>4, <1>5 DEF CallsOrderly, Orderly

LEMMA EndOrderly ==
    ASSUME SendInv, CallsTyped, Orderly, tls.mem = "live", TlsEnd
    PROVE  CallsOrderly'
<1>0. /\ tls \in TlsRecord /\ tlsTodo # <<>> /\ tlsTodo[1] = "end"
      /\ tlsTodo \in Seq(TlsCalls) /\ tls.style \in {"calls", "destroys"}
      /\ tlsTodo' = Tail(tlsTodo) /\ tlsLink' = tlsLink
  BY DEF SendInv, SendTypes, TlsEnd, CallsTyped, Orderly
<1>1. /\ tlsTodo' \in Seq(TlsCalls)
      /\ Sound => tlsTodo' \in Seq(SoundCalls)
  BY <1>0, HeadTailProperties DEF Sound
<1>2. tlsTodo \in Flat(TlsCallbacks) => tlsTodo' = <<>>
  BY <1>0, FlatTail, TlsEntries
<1>3. ~InTlsCallback
  BY <1>0, TlsEntries DEF InTlsCallback
<1>4. CASE tls.isAlive
  <2>1. tls' = tls
    BY <1>4 DEF TlsEnd
  <2>2. <<>> \in Flat(TlsCallbacks)
    BY TlsEntries
  <2>3. tls.style = "calls" => Doomed' \/ Sound'
    BY <1>0, <1>1, <1>2, <1>3, <2>1, <2>2 DEF Orderly, Doomed, Sound
  <2>4. tls.style = "destroys" => tlsTodo' \in Flat(TlsCallbacks) /\ ~InTlsCallback'
    BY <1>2, <2>2 DEF Orderly, InTlsCallback
  <2>. QED
    BY <1>0, <1>1, <2>1, <2>3, <2>4 DEF CallsOrderly, Orderly
<1>5. CASE ~tls.isAlive
  <2>1. tls' = TlsDeleted
    BY <1>5 DEF TlsEnd
  <2>2. tlsTodo' = <<>>
    BY <1>0, <1>2, <1>5 DEF Orderly, Doomed, Sound
  <2>. QED
    BY <1>0, <2>1, <2>2, TlsDeletedSafe
<1>. QED
  BY <1>4, <1>5

LEMMA TlsFreeStep == ASSUME SendInv, TlsFree, TlsNext PROVE TlsFree'
<1>0. tls \in TlsRecord /\ CallsTyped
  BY DEF SendInv, SendTypes, TlsFree
<1>1. tls.mem = "live" /\ Orderly
  BY DEF TlsFree, TlsNext, TlsConnect, TlsSend, TlsDestroy, TlsUser, HangUp, TlsHandshake,
         Exchange, Event, NothingToWrite, WriteOut, TlsReturn, TlsEnd, LinkBreaks, TlsRunning
<1>2. CASE TlsConnect
  <2>0. /\ tlsTodo = <<>> /\ tls.state = "INIT" /\ tlsLink' = tlsLink
    BY <1>2 DEF TlsConnect
  <2>1. CASE Enters(tls, <<"failed", "end">>)
    <3>1. /\ <<"failed", "end">> \in Flat(TlsCallbacks) /\ <<"failed", "end">> # <<>>
          /\ <<"failed", "end">> \in Seq(SoundCalls)
      BY TlsEntries DEF TlsCallbacks
    <3>2. tls.style = "calls" => Sound
      BY <1>1, <2>0 DEF Orderly, Doomed
    <3>3. tlsTodo' \in Seq(TlsCalls) /\ tls'.mem = "live" /\ Orderly'
      BY <1>0, <1>1, <2>0, <2>1, <3>1, <3>2, TlsEntered
    <3>. QED
      BY <1>0, <3>3, <1>2, TlsTypesKept DEF TlsFree, CallsTyped
  <2>2. CASE /\ tls' = [tls EXCEPT !.hasChannel = TRUE, !.watch = {"OUT"}]
             /\ tlsTodo' = tlsTodo
    <3>1. /\ tls'.mem = "live" /\ tls'.style = tls.style /\ tls'.state = tls.state
          /\ tls'.inCallback = tls.inCallback /\ tls'.isAlive = tls.isAlive
      BY <1>0, <1>1, <2>2 DEF TlsRecord
    <3>2. CallsOrderly'
      BY <1>0, <1>1, <2>0, <2>2, <3>1, TlsCallsKept
    <3>. QED
      BY <1>0, <3>2, TlsTypesKept DEF TlsFree, CallsTyped, CallsOrderly
  <2>. QED
    BY <1>2, <2>1, <2>2 DEF TlsConnect
<1>3. CASE TlsDestroy
  <2>0. /\ tls' = TlsDestroyed /\ tlsTodo' = tlsTodo /\ tlsLink' = tlsLink
        /\ tls.style = "calls" => tlsTodo = <<>>
        /\ tlsTodo = <<>> \/ InTlsCallback
    BY <1>3 DEF TlsDestroy, TlsUser, MayDo
  <2>1. CASE tls.inCallback
    <3>1. /\ tls'.mem = "live" /\ tls'.style = tls.style /\ tls'.state = tls.state
          /\ tls'.inCallback
      BY <1>0, <1>1, <2>0, <2>1 DEF TlsDestroyed, TlsRecord
    <3>2. tls.style = "calls" => Doomed'
      BY <1>1, <2>0, <2>1, <3>1 DEF Orderly, Doomed, Sound, InTlsCallback
    <3>3. CallsOrderly'
      BY <1>0, <1>1, <2>0, <3>1, <3>2 DEF CallsOrderly, CallsTyped, Orderly
    <3>. QED
      BY <1>0, <3>3, TlsTypesKept DEF TlsFree, CallsTyped, CallsOrderly
  <2>2. CASE ~tls.inCallback
    <3>1. tls' = TlsDeleted /\ tlsTodo' = <<>>
      BY <1>1, <2>0, <2>2 DEF TlsDestroyed, Orderly
    <3>. QED
      BY <1>0, <3>1, TlsDeletedSafe, TlsTypesKept DEF TlsFree, CallsTyped, CallsOrderly
  <2>. QED
    BY <2>1, <2>2
<1>4. CASE NothingToWrite \/ LinkBreaks
  <2>1. /\ tls' = tls /\ tlsTodo' = tlsTodo /\ (tlsLink = "dead" => tlsLink' = "dead")
    BY <1>4 DEF NothingToWrite, LinkBreaks
  <2>2. CallsOrderly'
    BY <1>0, <1>1, <2>1, TlsCallsKept
  <2>. QED
    BY <1>0, <2>2, TlsTypesKept DEF TlsFree, CallsTyped, CallsOrderly
<1>5. CASE TlsSend \/ HangUp \/ TlsHandshake \/ Exchange \/ WriteOut \/ TlsReturn \/ TlsEnd
  <2>1. CallsOrderly'
    BY <1>0, <1>1, <1>5, TlsSendOrderly, HandlersOrderly, WriteOutOrderly, ReturnOrderly,
       EndOrderly
  <2>. QED
    BY <1>0, <2>1, TlsTypesKept DEF TlsFree, CallsTyped, CallsOrderly
<1>. QED
  BY <1>2, <1>3, <1>4, <1>5 DEF TlsNext

LEMMA TlsSafe == ASSUME SendInv, TlsFree
                 PROVE  TlsTypeOK /\ (tls.mem = "freed" => tlsTodo = <<>>)
BY DEF SendInv, SendTypes, TlsRecord, TlsFree, CallsTyped, TlsCalls, TlsTypeOK

-----------------------------------------------------------------------------
EndpointsInv == ServerInv /\ ClientInv /\ TlsFree /\ DtlsInv

LEMMA EndpointsStep == ASSUME "both" \notin Styles, SendInv, EndpointsInv, [Next]_vars
                       PROVE  EndpointsInv'
<1>0. ServerInv /\ ClientInv /\ TlsFree /\ DtlsInv
  BY DEF EndpointsInv
<1>1. UNCHANGED serverVars => ServerInv'
  BY <1>0 DEF serverVars, ServerInv
<1>2. UNCHANGED clientVars => ClientInv'
  BY <1>0 DEF clientVars, ClientInv, ClientTypes, InClientCallback
<1>3. UNCHANGED tlsVars => TlsFree'
  BY <1>0 DEF tlsVars, TlsFree, CallsTyped, Orderly, Doomed, Sound, InTlsCallback
<1>4. UNCHANGED dtlsVars => DtlsInv'
  BY <1>0 DEF dtlsVars, DtlsInv, InDtlsCallback
<1>5. CASE TcpNext /\ UNCHANGED <<tlsVars, dtlsVars>>
  <2>1. CASE ClientNext /\ UNCHANGED serverVars
    BY <1>0, <1>1, <1>3, <1>4, <1>5, <2>1, ClientStep DEF EndpointsInv
  <2>2. CASE ServerNext /\ UNCHANGED clientVars
    BY <1>0, <1>2, <1>3, <1>4, <1>5, <2>2, ServerStep DEF EndpointsInv
  <2>3. CASE Connect
    <3>1. \E l : PeerAnswers(l)
      BY <2>3 DEF Connect
    <3>. QED
      BY <1>0, <1>3, <1>4, <1>5, <2>3, <3>1, ClientStep, ServerStep DEF EndpointsInv
  <2>. QED
    BY <1>5, <2>1, <2>2, <2>3 DEF TcpNext
<1>6. CASE TlsNext /\ UNCHANGED <<clientVars, serverVars, dtlsVars>>
  BY <1>0, <1>1, <1>2, <1>4, <1>6, TlsFreeStep DEF EndpointsInv
<1>7. CASE DtlsNext /\ UNCHANGED <<clientVars, serverVars, tlsVars>>
  BY <1>0, <1>1, <1>2, <1>3, <1>7, DtlsStep DEF EndpointsInv
<1>8. CASE UNCHANGED vars
  BY <1>1, <1>2, <1>3, <1>4, <1>8 DEF vars, EndpointsInv
<1>. QED
  BY <1>5, <1>6, <1>7, <1>8 DEF Next

\* is_in_callback and is_alive put off every destruction asked for in a
\* callback to the end of the handler, in tcp_client.c, tcp_server.c,
\* tls_client.c and dtls_endpoint.c: none is freed under a call that goes on
\* to use it, if the users who send in callbacks do not destroy there.
THEOREM NoneFreedInACall == ASSUME "both" \notin Styles PROVE Spec => []FreedOutsideCalls
<1>1. Init => EndpointsInv
  BY ServerInitInv, ClientInitInv, TlsFreeInit, DtlsInitInv DEF EndpointsInv
<1>2. SendInv /\ EndpointsInv /\ [Next]_vars => EndpointsInv'
  BY EndpointsStep
<1>3. SendInv /\ EndpointsInv => FreedOutsideCalls
  BY ServerSafe, ClientSafe, TlsSafe, DtlsSafe DEF EndpointsInv, FreedOutsideCalls
<1>. QED
  BY <1>1, <1>2, <1>3, SendInvariant, PTL DEF Spec
=============================================================================
