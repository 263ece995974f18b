----------------------------- MODULE TlsClient -----------------------------
(***************************************************************************)
(* The TLS client, ssl/tls_client.c, on its loop thread: connecting, the   *)
(* handshake, reading, and sending with an output buffer for what OpenSSL  *)
(* does not take.  Each call of OpenSSL is a choice among its outcomes.    *)
(*                                                                         *)
(* tlsTodo is what is left of the calls the loop thread is in, innermost   *)
(* first: a callback that runs, the POLLOUT half of tls_client_onevent(),  *)
(* and the test of is_alive that ends a handler.  A failed assertion stops *)
(* the program.                                                            *)
(***************************************************************************)
EXTENDS Integers, Sequences, SequencesExt, CallbackUser

CONSTANT MaxBytes  \* how many bytes the user sends

ASSUME MaxBytesAssumption == MaxBytes \in Nat

VARIABLES tls,        \* tls_client_t
          tlsTodo,    \* the loop thread's calls
          tlsLink,    \* the connection below: "up", "broken" (POLLHUP), "dead" (OpenSSL failed)
          written,    \* the bytes OpenSSL took, in order
          submitted,  \* how many bytes tls_client_send() was given
          tlsFault

tlsVars == <<tls, tlsTodo, tlsLink, written, submitted, tlsFault>>

TlsCallbacks == {"connected", "failed", "rejected", "data", "close"}

NewTls(style) == [mem |-> "live", state |-> "INIT", watch |-> {}, hasChannel |-> FALSE,
                  inCallback |-> FALSE, isAlive |-> TRUE, out |-> <<>>, style |-> style]

TlsUnused == /\ tlsTodo = <<>> /\ tlsLink = "up" /\ written = <<>> /\ submitted = 0
             /\ tlsFault = "none"

\* tls_client_new(); tls_client_use_ca() only prepares OpenSSL.
TlsInit == tls \in {NewTls(style) : style \in Styles} /\ TlsUnused

TlsRunning == tlsFault = "none" /\ tls.mem = "live"
InTlsCallback == tlsTodo # <<>> /\ tlsTodo[1] \in TlsCallbacks

\* The user's code runs in a callback, or between events.
TlsUser(does) == /\ TlsRunning
                 /\ tlsTodo = <<>> \/ (InTlsCallback /\ MayDo(tls.style, does))

\* What calls of OpenSSL and the kernel may answer.
Handshake == IF tlsLink = "dead" THEN {"failed"} ELSE {"done", "want", "failed"}
Reading == IF tlsLink = "dead" THEN {"failed"} ELSE {"data", "closed", "want", "failed"}
Want == 0
Failed == -1
Writing(size) == {Failed} \cup (IF tlsLink = "dead" THEN {} ELSE {Want} \cup 1 .. size)

\* A fatal error of OpenSSL is for good.
Dies(failed) == tlsLink' = IF failed THEN "dead" ELSE tlsLink

\* Enter calls, the first of which may be a callback.
Enters(t, calls) == /\ tlsTodo' = calls \o tlsTodo
                    /\ tls' = [t EXCEPT !.inCallback = @ \/ calls[1] \in TlsCallbacks]

\* delete_tls_client()
TlsDeleted == [tls EXCEPT !.mem = "freed", !.isAlive = FALSE, !.hasChannel = FALSE,
                          !.watch = {}, !.out = <<>>]

-----------------------------------------------------------------------------
(***************************************************************************)
(* What the user calls.                                                    *)
(***************************************************************************)
\* do_tls_client_connect(): the socket or connect() fails, or the connection
\* is under way.  The user connects once.
TlsConnect ==
    /\ TlsUser("calls") /\ tlsTodo = <<>> /\ tls.state = "INIT" /\ ~tls.hasChannel
    /\ \/ Enters(tls, <<"failed", "end">>)
       \/ /\ tls' = [tls EXCEPT !.hasChannel = TRUE, !.watch = {"OUT"}]
          /\ UNCHANGED tlsTodo
    /\ UNCHANGED <<tlsLink, written, submitted, tlsFault>>

\* do_ssl_send_inloop(): first what is pending, then the new bytes, which are
\* added to out_buffer, and POLLOUT watched for, when not all are taken.  An
\* error loses them.  (The mutant writes the new bytes past the pending ones.)
NewBytes(n) == [i \in 1 .. n |-> submitted + i]
Left(bytes, n) == SubSeq(bytes, n + 1, Len(bytes))

Keeps(out, taken, watch) ==
    /\ tls' = [tls EXCEPT !.out = out, !.watch = watch]
    /\ written' = written \o taken
    /\ UNCHANGED <<tlsTodo, tlsLink>>

Breaks(out, taken) == /\ Enters([tls EXCEPT !.out = out], <<"close", "end">>)
                      /\ written' = written \o taken
                      /\ Dies(TRUE)

MutantSend(n) ==
    \E s \in Writing(n) :
        IF s = Failed THEN Breaks(tls.out, <<>>)
        ELSE Keeps(tls.out \o Left(NewBytes(n), s), SubSeq(NewBytes(n), 1, s),
                   IF s = n THEN tls.watch ELSE tls.watch \cup {"OUT"})

Send(n) ==
    \E r \in IF tls.out = <<>> THEN {0} ELSE Writing(Len(tls.out)) :
        IF r = Len(tls.out)
        THEN \E s \in Writing(n) :
                IF s = Failed THEN Breaks(<<>>, tls.out)
                ELSE Keeps(Left(NewBytes(n), s), tls.out \o SubSeq(NewBytes(n), 1, s),
                           IF s = n THEN tls.watch ELSE tls.watch \cup {"OUT"})
        ELSE IF r = Failed THEN Breaks(tls.out, <<>>)
        ELSE Keeps(Left(tls.out, r) \o NewBytes(n), SubSeq(tls.out, 1, r), tls.watch \cup {"OUT"})

\* tls_client_send()
TlsSend == /\ TlsUser("calls") /\ tls.state = "SNDRCV"
           /\ \E n \in 1 .. MaxBytes - submitted : Send(n) /\ submitted' = submitted + n
           /\ UNCHANGED tlsFault

\* do_tls_client_destroy().  (The mutant does not look at is_in_callback.)
MutantTlsDestroyed == TlsDeleted
TlsDestroyed == IF tls.inCallback THEN [tls EXCEPT !.isAlive = FALSE] ELSE TlsDeleted

TlsDestroy == /\ TlsUser("destroys") /\ tls.isAlive
              /\ tls' = TlsDestroyed
              /\ UNCHANGED <<tlsTodo, tlsLink, written, submitted, tlsFault>>

-----------------------------------------------------------------------------
(***************************************************************************)
(* tls_client_onevent() and what the loop thread goes on with.             *)
(***************************************************************************)
Event == TlsRunning /\ tlsTodo = <<>> /\ tls.hasChannel

\* POLLHUP or POLLERR, reported again each turn while the channel is there.
HangUp == /\ Event /\ tlsLink # "up"
          /\ Enters(tls, <<IF tls.state = "SNDRCV" THEN "close" ELSE "failed", "end">>)
          /\ UNCHANGED <<tlsLink, written, submitted, tlsFault>>

\* The connection is established, or more of the handshake has arrived.  After
\* a failed SSL_connect() is_in_callback stays 1 ("rejected").
TlsHandshake ==
    /\ Event
    /\ \/ tls.state = "INIT" /\ "OUT" \in tls.watch
       \/ tls.state = "HANDSHAKE" /\ "IN" \in tls.watch
    /\ \E result \in Handshake :
        LET t == [tls EXCEPT !.state = IF result = "done" THEN "SNDRCV" ELSE "HANDSHAKE",
                             !.watch = {"IN"}]
        IN /\ CASE result = "done"   -> Enters(t, <<"connected", "end">>)
                [] result = "want"   -> Enters(t, <<"end">>)
                [] result = "failed" -> Enters(t, <<"rejected", "end">>)
           /\ Dies(result = "failed")
    /\ UNCHANGED <<written, submitted, tlsFault>>

\* POLLIN, POLLOUT or both while data is exchanged.
Exchange ==
    /\ Event /\ tls.state = "SNDRCV"
    /\ \E event \in SUBSET tls.watch \ {{}} :
        LET rest == (IF "OUT" \in event THEN <<"out">> ELSE <<>>) \o <<"end">> IN
        IF "IN" \notin event THEN Enters(tls, rest) /\ UNCHANGED tlsLink
        ELSE \E result \in Reading :
                /\ CASE result = "data" -> Enters(tls, <<"data">> \o rest)
                     [] result = "want" -> Enters(tls, rest)
                     [] OTHER           -> Enters(tls, <<"close">> \o rest)
                /\ Dies(result = "failed")
    /\ UNCHANGED <<written, submitted, tlsFault>>

\* The POLLOUT half: assert(data_size > 0), then one SSL_write().
NothingToWrite == /\ TlsRunning /\ tlsTodo # <<>> /\ tlsTodo[1] = "out" /\ tls.out = <<>>
                  /\ tlsFault' = "assert"
                  /\ UNCHANGED <<tls, tlsTodo, tlsLink, written, submitted>>

\* (The mutant clears POLLOUT after any write.)
MutantWatched(r) == tls.watch \ {"OUT"}
Watched(r) == IF r = Len(tls.out) THEN tls.watch \ {"OUT"} ELSE tls.watch

WriteOut ==
    /\ TlsRunning /\ tlsTodo # <<>> /\ tlsTodo[1] = "out" /\ tls.out # <<>>
    /\ \E r \in Writing(Len(tls.out)) :
        /\ CASE r = Failed -> /\ tlsTodo' = <<"close">> \o Tail(tlsTodo)
                              /\ tls' = [tls EXCEPT !.inCallback = TRUE]
                              /\ UNCHANGED written
             [] r = Want   -> tlsTodo' = Tail(tlsTodo) /\ UNCHANGED <<tls, written>>
             [] OTHER      -> /\ tlsTodo' = Tail(tlsTodo)
                              /\ tls' = [tls EXCEPT !.out = Left(@, r), !.watch = Watched(r)]
                              /\ written' = written \o SubSeq(tls.out, 1, r)
        /\ Dies(r = Failed)
    /\ UNCHANGED <<submitted, tlsFault>>

\* A callback returns.
TlsReturn == /\ TlsRunning /\ InTlsCallback
             /\ tlsTodo' = Tail(tlsTodo)
             /\ tls' = [tls EXCEPT !.inCallback = tlsTodo[1] = "rejected"]
             /\ UNCHANGED <<tlsLink, written, submitted, tlsFault>>

\* A handler ends.
TlsEnd == /\ TlsRunning /\ tlsTodo # <<>> /\ tlsTodo[1] = "end"
          /\ tlsTodo' = Tail(tlsTodo)
          /\ tls' = IF tls.isAlive THEN tls ELSE TlsDeleted
          /\ UNCHANGED <<tlsLink, written, submitted, tlsFault>>

\* The peer or the network closes the connection.
LinkBreaks == /\ TlsRunning /\ tls.hasChannel /\ tlsLink = "up"
              /\ tlsLink' = "broken"
              /\ UNCHANGED <<tls, tlsTodo, written, submitted, tlsFault>>

TlsNext == \/ TlsConnect \/ TlsSend \/ TlsDestroy
           \/ HangUp \/ TlsHandshake \/ Exchange \/ NothingToWrite \/ WriteOut
           \/ TlsReturn \/ TlsEnd \/ LinkBreaks

-----------------------------------------------------------------------------
TlsTypeOK ==
    /\ tls.mem \in {"none", "live", "freed"}
    /\ tls.state \in {"INIT", "HANDSHAKE", "SNDRCV"}
    /\ tls.watch \subseteq {"IN", "OUT"}
    /\ tls.inCallback \in BOOLEAN /\ tls.isAlive \in BOOLEAN
    /\ tlsTodo \in Seq(TlsCallbacks \cup {"out", "end"})
    /\ tlsLink \in {"up", "broken", "dead"}
    /\ submitted \in 0 .. MaxBytes
    /\ tlsFault \in {"none", "assert"}

\* OpenSSL is given the bytes of tls_client_send() in the order of the calls,
\* none twice; and while it works, all that it was not given yet is pending in
\* out_buffer (do_ssl_send_inloop and the POLLOUT half of tls_client_onevent).
StreamInOrder ==
    LET all == [i \in 1 .. submitted |-> i] IN
    /\ IsPrefix(written, all)
    /\ tls.mem = "live" /\ tlsLink # "dead" => written \o tls.out = all

\* What is pending has POLLOUT watched, so that it is written when it can be.
PendingIsWatched == tls.mem = "live" /\ tls.out # <<>> => "OUT" \in tls.watch

\* assert(data_size > 0) in tls_client_onevent(): POLLOUT is watched, so there
\* is something to write.
PollOutHasData == tlsFault # "assert"
=============================================================================
