----------------------------- MODULE TcpClient -----------------------------
(***************************************************************************)
(* The TCP client, linux/net/tcp_client.c, on its loop thread: connecting, *)
(* what it passes on of its connection's callbacks, and destruction.  The  *)
(* connection itself is TcpConnection.  clientCalls is as tlsTodo in       *)
(* TlsClient.                                                              *)
(***************************************************************************)
EXTENDS Naturals, Sequences, CallbackUser

CONSTANT MaxAttempts  \* how often it connects

ASSUME MaxAttemptsAssumption == MaxAttempts \in Nat

VARIABLES client,       \* tcp_client_t
          clientCalls,  \* what is left of the calls the loop thread is in
          peer          \* the kernel's side of connect(): "none", "pending", "ready", "refused"

clientVars == <<client, clientCalls, peer>>

ClientCallbacks == {"connected", "failed", "data", "closed"}

\* tcp_client_new()
NewClient(style) ==
    [mem |-> "live", hasChannel |-> FALSE, connection |-> "none", inCallback |-> FALSE,
     isAlive |-> TRUE, attempts |-> 0, style |-> style]

ClientUnused == clientCalls = <<>> /\ peer = "none"
ClientInit == client \in {NewClient(style) : style \in Styles} /\ ClientUnused

ClientRunning == client.mem = "live"
InClientCallback == clientCalls # <<>> /\ clientCalls[1] \in ClientCallbacks
ClientUser(does) ==
    /\ ClientRunning
    /\ clientCalls = <<>> \/ (InClientCallback /\ MayDo(client.style, does))

\* A callback is entered, and the test of is_alive follows it.
Notifies(c, callback) == /\ clientCalls' = <<callback, "end">> \o clientCalls
                         /\ client' = [c EXCEPT !.inCallback = TRUE]

-----------------------------------------------------------------------------
\* do_tcp_client_connect(): without a socket, or when connect() fails, the
\* callback is called at once.
ClientConnect ==
    /\ ClientUser("calls") /\ ~client.hasChannel /\ client.connection = "none"
    /\ client.attempts < MaxAttempts
    /\ LET c == [client EXCEPT !.attempts = @ + 1] IN
       \/ Notifies(c, "failed") /\ UNCHANGED peer
       \/ /\ client' = [c EXCEPT !.hasChannel = TRUE]
          /\ peer' = "pending"
          /\ UNCHANGED clientCalls

\* The kernel has connected, or could not.
PeerAnswers(listening) == /\ ClientRunning /\ peer = "pending"
                          /\ peer' = IF listening THEN "ready" ELSE "refused"
                          /\ UNCHANGED <<client, clientCalls>>

\* client_onevent(): the channel is given up first.
ClientOnEvent ==
    /\ ClientRunning /\ clientCalls = <<>> /\ client.hasChannel /\ peer \in {"ready", "refused"}
    /\ IF peer = "refused"
       THEN Notifies([client EXCEPT !.hasChannel = FALSE], "failed") /\ peer' = "none"
       ELSE /\ Notifies([client EXCEPT !.hasChannel = FALSE, !.connection = "open"], "connected")
            /\ UNCHANGED peer

\* client_ondata() and client_onclose(), from the connection's handler.
ClientOnData == /\ ClientRunning /\ clientCalls = <<>> /\ client.connection = "open"
                /\ Notifies(client, "data")
                /\ UNCHANGED peer
ClientOnClose == /\ ClientRunning /\ clientCalls = <<>> /\ client.connection = "open"
                 /\ Notifies([client EXCEPT !.connection = "closed"], "closed")
                 /\ UNCHANGED peer

\* delete_client(), and do_tcp_client_destroy().
ClientDeleted == [client EXCEPT !.mem = "freed", !.isAlive = FALSE, !.hasChannel = FALSE,
                                !.connection = "none"]
ClientDestroyed == IF client.inCallback THEN [client EXCEPT !.isAlive = FALSE] ELSE ClientDeleted

ClientDestroy == /\ ClientUser("destroys") /\ client.isAlive
                 /\ client' = ClientDestroyed
                 /\ UNCHANGED <<clientCalls, peer>>

ClientReturn == /\ ClientRunning /\ InClientCallback
                /\ clientCalls' = Tail(clientCalls)
                /\ client' = [client EXCEPT !.inCallback = FALSE]
                /\ UNCHANGED peer

ClientEnd == /\ ClientRunning /\ clientCalls # <<>> /\ clientCalls[1] = "end"
             /\ clientCalls' = Tail(clientCalls)
             /\ client' = IF client.isAlive THEN client ELSE ClientDeleted
             /\ UNCHANGED peer

ClientNext == \/ ClientConnect \/ ClientOnEvent \/ ClientOnData \/ ClientOnClose
              \/ ClientDestroy \/ ClientReturn \/ ClientEnd

ClientTypeOK == /\ client.mem \in {"none", "live", "freed"}
                /\ client.connection \in {"none", "open", "closed"}
                /\ clientCalls \in Seq(ClientCallbacks \cup {"end"})
                /\ client.hasChannel => peer # "none" /\ client.connection = "none"
=============================================================================
