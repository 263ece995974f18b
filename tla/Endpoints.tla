----------------------------- MODULE Endpoints -----------------------------
(***************************************************************************)
(* The endpoints that hold a socket for their user, each with its loop     *)
(* thread: a TCP client and a TCP server in one program (TcpClient,        *)
(* TcpServer), a TLS client (TlsClient), or a DTLS endpoint (DtlsEndpoint).*)
(* The three share nothing, so that a behaviour has one of them only.      *)
(* They put off a destruction asked for in a callback in the same way.     *)
(***************************************************************************)
EXTENDS TcpClient, TcpServer, TlsClient, DtlsEndpoint

vars == <<clientVars, serverVars, tlsVars, dtlsVars>>

NoTcp == /\ client = [NewClient("both") EXCEPT !.mem = "none"] /\ ClientUnused
         /\ server = [NewServer EXCEPT !.mem = "none"] /\ ServerUnused
NoTls == tls = [NewTls("both") EXCEPT !.mem = "none"] /\ TlsUnused
NoDtls == dtls = [NewDtls("client", FALSE) EXCEPT !.mem = "none"] /\ dtlsTodo = <<>>

Init == \/ ClientInit /\ ServerInit /\ NoTls /\ NoDtls
        \/ TlsInit /\ NoTcp /\ NoDtls
        \/ DtlsInit /\ NoTcp /\ NoTls

\* The client's connection reaches the server of the program.
Connect == /\ PeerAnswers(server.listening)
           /\ IF server.listening THEN backlog < MaxBacklog /\ backlog' = backlog + 1
                                  ELSE UNCHANGED backlog
           /\ UNCHANGED <<server, calls, arrived, open>>

TcpNext == \/ ClientNext /\ UNCHANGED serverVars
           \/ ServerNext /\ UNCHANGED clientVars
           \/ Connect

Next == \/ TcpNext /\ UNCHANGED <<tlsVars, dtlsVars>>
        \/ TlsNext /\ UNCHANGED <<clientVars, serverVars, dtlsVars>>
        \/ DtlsNext /\ UNCHANGED <<clientVars, serverVars, tlsVars>>

\* The server's loop thread runs, and its on_connection returns.
Spec == Init /\ [][Next]_vars /\ WF_serverVars(ServerLoop)

\* A client, server or endpoint is freed only when no call of the loop thread
\* is left that goes on to use it: is_in_callback and is_alive put off to the
\* end of the handler a destruction asked for in a callback.  (It holds for a
\* user who in callbacks either calls connect and send, or destroys: the
\* callback of a call that fails at once clears is_in_callback for the outer
\* one.)  The type invariants are checked with it.
FreedOutsideCalls ==
    /\ ClientTypeOK /\ ServerTypeOK /\ TlsTypeOK /\ DtlsTypeOK
    /\ client.mem = "freed" => clientCalls = <<>>
    /\ server.mem = "freed" => calls = <<>>
    /\ tls.mem = "freed" => tlsTodo = <<>>
    /\ dtls.mem = "freed" => dtlsTodo = <<>>
=============================================================================
