----------------------------- MODULE TcpServer -----------------------------
(***************************************************************************)
(* The TCP server, linux/net/tcp_server.c, on its loop thread: starting,   *)
(* accepting, and stopping, with the descriptor idle_fd it keeps in        *)
(* reserve for when accept() finds none free.  No other thread takes a     *)
(* descriptor in the middle of a handler.                                  *)
(***************************************************************************)
EXTENDS Naturals, Sequences

CONSTANTS MaxBacklog,  \* connections that wait to be accepted at most
          MaxArrivals, \* connections that peers make
          MaxOpen      \* descriptors free for all but the server's own two

ASSUME ServerAssumption == /\ MaxBacklog \in Nat /\ MaxArrivals \in Nat
                           /\ MaxOpen \in Nat

VARIABLES server,   \* tcp_server_t
          calls,    \* what is left of the calls the loop thread is in
          backlog,  \* connections the kernel has completed
          arrived,  \* how many there were
          open      \* descriptors in use, those of accepted connections among them

serverVars == <<server, calls, backlog, arrived, open>>

\* tcp_server_new()
NewServer == [mem |-> "live", isStarted |-> FALSE, listening |-> FALSE, hasIdle |-> TRUE,
              inCallback |-> FALSE, isAlive |-> TRUE]

ServerUnused == calls = <<>> /\ backlog = 0 /\ arrived = 0 /\ open = 0
ServerInit == server = NewServer /\ ServerUnused

Running == server.mem = "live"
InOnConnection == calls # <<>> /\ calls[1] = "connection"
ServerUser == Running /\ (calls = <<>> \/ InOnConnection)

-----------------------------------------------------------------------------
\* do_tcp_server_start(): the socket is made, bound and listened on, or none of
\* it is kept.  A user does not start again a server that was stopped, since
\* do_tcp_server_stop() closes idle_fd for good.
StartServer ==
    /\ ServerUser /\ server.isAlive /\ ~server.isStarted /\ server.hasIdle
    /\ \E works \in BOOLEAN :
        server' = [server EXCEPT !.isStarted = works, !.listening = works]
    /\ UNCHANGED <<calls, backlog, arrived, open>>

\* do_tcp_server_stop(): the kernel resets what waits.
Stopped(s) == [s EXCEPT !.isStarted = FALSE, !.listening = FALSE, !.hasIdle = FALSE]

StopServer == /\ ServerUser /\ server.isAlive /\ server.isStarted
              /\ server' = Stopped(server) /\ backlog' = 0
              /\ UNCHANGED <<calls, arrived, open>>

\* delete_server()
ServerDeleted == /\ server' = [(IF server.isStarted THEN Stopped(server) ELSE server)
                                EXCEPT !.mem = "freed", !.isAlive = FALSE]
                 /\ backlog' = 0

\* do_tcp_server_destroy()
DestroyServer == /\ ServerUser /\ server.isAlive
                 /\ IF server.inCallback
                    THEN server' = [server EXCEPT !.isAlive = FALSE] /\ UNCHANGED backlog
                    ELSE ServerDeleted
                 /\ UNCHANGED <<calls, arrived, open>>

-----------------------------------------------------------------------------
Acceptable == Running /\ calls = <<>> /\ server.listening /\ backlog > 0

\* server_onevent(): accept() has a descriptor for the connection, which is
\* handed to on_connection; or the peer has gone.
AcceptOne ==
    /\ Acceptable /\ open < MaxOpen
    /\ backlog' = backlog - 1
    /\ \/ /\ open' = open + 1
          /\ calls' = <<"connection", "end">>
          /\ server' = [server EXCEPT !.inCallback = TRUE]
       \/ UNCHANGED <<server, calls, open>>
    /\ UNCHANGED arrived

\* EMFILE: idle_fd makes room to accept one connection and close it, and is
\* opened again.  (The mutant does not open it again.)
MutantIdleAfter == FALSE
IdleAfter == server.hasIdle

AcceptNone == /\ Acceptable /\ open = MaxOpen
              /\ backlog' = IF server.hasIdle THEN backlog - 1 ELSE backlog
              /\ server' = [server EXCEPT !.hasIdle = IdleAfter]
              /\ UNCHANGED <<calls, arrived, open>>

\* on_connection returns.
ServerReturn == /\ Running /\ InOnConnection
                /\ calls' = Tail(calls)
                /\ server' = [server EXCEPT !.inCallback = FALSE]
                /\ UNCHANGED <<backlog, arrived, open>>

ServerEnd == /\ Running /\ calls = <<"end">>
             /\ calls' = <<>>
             /\ IF server.isAlive THEN UNCHANGED <<server, backlog>> ELSE ServerDeleted
             /\ UNCHANGED <<arrived, open>>

\* A peer's connection is complete; other parts of the program open and close.
Arrive == /\ server.listening /\ backlog < MaxBacklog /\ arrived < MaxArrivals
          /\ backlog' = backlog + 1 /\ arrived' = arrived + 1
          /\ UNCHANGED <<server, calls, open>>

OtherDescriptors == /\ Running /\ \/ open < MaxOpen /\ open' = open + 1
                                  \/ open > 0 /\ open' = open - 1
                    /\ UNCHANGED <<server, calls, backlog, arrived>>

ServerLoop == AcceptOne \/ AcceptNone \/ ServerReturn \/ ServerEnd
ServerNext == StartServer \/ StopServer \/ DestroyServer \/ ServerLoop \/ Arrive \/ OtherDescriptors

ServerTypeOK == /\ server.mem \in {"none", "live", "freed"}
                /\ calls \in Seq({"connection", "end"})
                /\ backlog \in 0 .. MaxBacklog /\ open \in 0 .. MaxOpen
                /\ server.listening <=> server.isStarted

\* A connection that waits is accepted, or closed when the program is out of
\* descriptors, even if none is ever freed; or the server stops.
WaitingServed == backlog > 0 ~> backlog = 0
=============================================================================
