---------------------------- MODULE DtlsEndpoint ---------------------------
(***************************************************************************)
(* The DTLS endpoint, ssl/dtls_endpoint.c, used from its loop thread: the  *)
(* handshake as a client or as a server, messages, and destruction in or   *)
(* between callbacks.  dtlsTodo is as tlsTodo in TlsClient.                *)
(***************************************************************************)
EXTENDS Naturals, Sequences

VARIABLES dtls,      \* dtls_endoint_t
          dtlsTodo   \* what is left of the calls the loop thread is in

dtlsVars == <<dtls, dtlsTodo>>

DtlsCallbacks == {"handshaken", "message", "shutdown", "writable"}

\* dtls_endoint_new(), with a callback for writable or without; the task it
\* submits, init_dtls_endoint_event(), sets the events to watch.
NewDtls(mode, writecb) ==
    [mem |-> "live", mode |-> mode, state |-> "INIT", inCallback |-> FALSE, isAlive |-> TRUE,
     writecb |-> writecb, watch |-> IF writecb THEN {"IN", "OUT"} ELSE {"IN"}]

DtlsInit == /\ \E mode \in {"client", "server"}, w \in BOOLEAN : dtls = NewDtls(mode, w)
            /\ dtlsTodo = <<>>

DtlsRunning == dtls.mem = "live"
InDtlsCallback == dtlsTodo # <<>> /\ dtlsTodo[1] \in DtlsCallbacks
DtlsUser == DtlsRunning /\ (dtlsTodo = <<>> \/ InDtlsCallback)

DtlsEnters(d, calls) ==
    /\ dtlsTodo' = calls \o dtlsTodo
    /\ dtls' = [d EXCEPT !.inCallback = calls # <<>> /\ calls[1] \in DtlsCallbacks]

-----------------------------------------------------------------------------
\* dtls_endoint_start(): a server waits; a client's first SSL_do_handshake()
\* may be all there is to it, and notify_handshake_ok() does not look at
\* is_alive.  When it fails the endpoint stays in its handshake.
DtlsStart ==
    /\ DtlsRunning /\ dtlsTodo = <<>> /\ dtls.state = "INIT"
    /\ \/ /\ dtls.mode = "client"
          /\ DtlsEnters([dtls EXCEPT !.state = "SNDRCV"], <<"handshaken">>)
       \/ DtlsEnters([dtls EXCEPT !.state = "HANDSHAKE"], <<>>)

\* delete_dtls_endoint()
DtlsDeleted == [dtls EXCEPT !.mem = "freed", !.isAlive = FALSE, !.watch = {}]

\* do_dtls_endoint_destroy().
DtlsDestroyed == IF dtls.inCallback THEN [dtls EXCEPT !.isAlive = FALSE] ELSE DtlsDeleted

DtlsDestroy == /\ DtlsUser /\ dtls.isAlive
               /\ dtls' = DtlsDestroyed
               /\ UNCHANGED dtlsTodo

\* dtls_endoint_onevent(): a step of the handshake, done, failed or waiting;
\* or a message, an end of the peer's or nothing, and then writecb.
DtlsHandshake ==
    /\ DtlsRunning /\ dtlsTodo = <<>> /\ dtls.state = "HANDSHAKE"
    /\ \/ DtlsEnters([dtls EXCEPT !.state = "SNDRCV"], <<"handshaken", "end">>)
       \/ DtlsEnters(dtls, <<"handshaken", "end">>)
       \/ DtlsEnters(dtls, <<"end">>)

DtlsExchange ==
    /\ DtlsRunning /\ dtlsTodo = <<>> /\ dtls.state = "SNDRCV"
    /\ \E event \in SUBSET dtls.watch \ {{}} :
        \E called \in IF "IN" \in event THEN {<<"message">>, <<"shutdown">>, <<>>} ELSE {<<>>} :
            DtlsEnters(dtls, called \o (IF "OUT" \in event THEN <<"out">> ELSE <<>>) \o <<"end">>)

\* The POLLOUT half, after the callback of the POLLIN half.
DtlsWritable == /\ DtlsRunning /\ dtlsTodo # <<>> /\ dtlsTodo[1] = "out"
                /\ dtlsTodo' = (IF dtls.writecb THEN <<"writable">> ELSE <<>>) \o Tail(dtlsTodo)
                /\ dtls' = [dtls EXCEPT !.inCallback = dtls.writecb]
            
DtlsReturn == /\ DtlsRunning /\ InDtlsCallback
              /\ dtlsTodo' = Tail(dtlsTodo)
              /\ dtls' = [dtls EXCEPT !.inCallback = FALSE]
          
DtlsEnd == /\ DtlsRunning /\ dtlsTodo # <<>> /\ dtlsTodo[1] = "end"
           /\ dtlsTodo' = Tail(dtlsTodo)
           /\ dtls' = IF dtls.isAlive THEN dtls ELSE DtlsDeleted
       
DtlsNext == \/ DtlsStart \/ DtlsDestroy \/ DtlsHandshake \/ DtlsExchange
            \/ DtlsWritable \/ DtlsReturn \/ DtlsEnd

DtlsTypeOK ==
    /\ dtls.mem \in {"none", "live", "freed"}
    /\ dtls.state \in {"INIT", "HANDSHAKE", "SNDRCV"}
    /\ dtls.inCallback \in BOOLEAN /\ dtls.isAlive \in BOOLEAN
    /\ dtlsTodo \in Seq(DtlsCallbacks \cup {"out", "end"})
=============================================================================
