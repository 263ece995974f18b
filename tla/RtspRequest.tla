---------------------------- MODULE RtspRequest ----------------------------
(***************************************************************************)
(* The RTSP client, rtsp/rtsp_request.c: connecting, one function for each *)
(* method that writes a request to the connection, and the loop that reads *)
(* responses and interleaved frames and calls the user's handler, who may  *)
(* send the next request or destroy the client.                            *)
(*                                                                         *)
(* is_new_response is 0 whenever request_ondata() is entered, so that its  *)
(* second loop is the one that runs: it takes a new response_msg each time *)
(* and reads the response from its beginning (the old one is not freed).   *)
(***************************************************************************)
EXTENDS RtspStream

VARIABLES request,   \* rtsp_request_t, with the response being read
          outbox,    \* the connection's input buffer at the client
          clientPc   \* where the client's loop thread is

requestVars == <<request, outbox, clientPc>>

\* rtsp_request_new()
NewRequest == [mem |-> "live", isAlive |-> TRUE, isInHandler |-> FALSE,
               cseq |-> 0, current |-> "NONE", serverMethods |-> FALSE,
               sessionId |-> None, timeout |-> 0, response |-> NewDecoder]

RequestInit == request = NewRequest /\ outbox = <<>> /\ clientPc = "idle"

-----------------------------------------------------------------------------
(***************************************************************************)
(* What the user calls, between events or in the handler.                  *)
(***************************************************************************)
InClientHandler == clientPc \in {"onconnected", "response", "badResponse", "onclose"}

MayCall == request.mem = "live" /\ request.isAlive /\ (clientPc = "idle" \/ InClientHandler)

\* rtsp_request_launch(): tcp_client_connect()
Launch == /\ MayCall /\ clientEnd = "none"
          /\ clientEnd' = "connecting"
          /\ UNCHANGED <<requestVars, up, down, serverEnd>>

\* The methods whose requests carry the session's id: all but these two.
Plain == {"OPTIONS", "DESCRIBE"}

\* The request of that method, cseq included, as the function of that name
\* builds it from the headers and the body of the user.
\* (The mutant leaves the session out.)
MutantRequestFor(method, heads, body) ==
    [method |-> method, code |-> 0, cseq |-> request.cseq + 1, body |-> body,
     heads |-> heads]

RequestFor(method, heads, body) ==
    [method |-> method, code |-> 0, cseq |-> request.cseq + 1, body |-> body,
     heads |-> IF method \in Plain \/ request.sessionId = None THEN heads
               ELSE <<[key |-> "Session", value |-> <<request.sessionId>>]>> \o heads]

\* A mutant: current_request is left as it was.
MutantCall(method, heads, body) ==
    /\ MayCall /\ clientEnd \in {"open", "closing", "closed"}
    /\ method = "SET_PARAMETER" => body # <<>>
    /\ request' = [request EXCEPT !.cseq = @ + 1]
    /\ SendUp(RequestText(RequestFor(method, heads, body)))
    /\ UNCHANGED <<outbox, clientPc, down, clientEnd, serverEnd>>

\* rtsp_request_options() .. rtsp_request_set_parameter(): there is a connection
\* from the connect on, and a request written to a closed one is lost.
Call(method, heads, body) ==
    /\ MayCall /\ clientEnd \in {"open", "closing", "closed"}
    /\ method = "SET_PARAMETER" => body # <<>>
    /\ request' = [request EXCEPT !.cseq = @ + 1, !.current = method]
    /\ SendUp(RequestText(RequestFor(method, heads, body)))
    /\ UNCHANGED <<outbox, clientPc, down, clientEnd, serverEnd>>

\* An interleaved frame of the user's, written to the connection.
SendFrameUp(frame) ==
    /\ MayCall /\ clientEnd = "open"
    /\ SendUp(FrameText(frame))
    /\ UNCHANGED <<requestVars, down, clientEnd, serverEnd>>

\* request_delete(): tcp_client_destroy() closes the socket at once; what was sent
\* is taken to be with the kernel by then (bytes still in the connection's output
\* buffer would be lost).
Released == /\ request' = [request EXCEPT !.mem = "freed", !.isAlive = FALSE,
                                          !.isInHandler = FALSE]
            /\ clientEnd' = "closed" /\ serverEnd' = Hears(serverEnd)
            /\ outbox' = <<>> /\ down' = <<>>

\* rtsp_request_destroy()
RequestDestroy ==
    /\ MayCall
    /\ IF request.isInHandler
       THEN /\ request' = [request EXCEPT !.isAlive = FALSE]
            /\ UNCHANGED <<outbox, down, clientEnd, serverEnd>>
       ELSE Released
    /\ UNCHANGED <<clientPc, up>>

-----------------------------------------------------------------------------
(***************************************************************************)
(* What the client's loop does.                                            *)
(***************************************************************************)
EnterHandler(pc) == /\ clientPc' = pc
                    /\ request' = [request EXCEPT !.isInHandler = TRUE]

\* request_onconnected(), with a connection or with none; in that case the
\* socket is closed, and what the server sent on it is lost.
OnConnected == /\ clientPc = "idle" /\ request.mem = "live"
               /\ \/ clientEnd = "established" /\ clientEnd' = "open" /\ UNCHANGED down
                  \/ clientEnd = "refused" /\ clientEnd' = "none" /\ down' = <<>>
               /\ EnterHandler("onconnected")
               /\ UNCHANGED <<outbox, up, serverEnd>>

\* connection_onevent(): a piece has arrived.
ClientReads == /\ clientPc = "idle" /\ clientEnd \in {"open", "closing"}
               /\ \E n \in DownPieces : /\ outbox' = outbox \o SubSeq(down, 1, n)
                                        /\ down' = After(down, n)
               /\ clientPc' = "ondata"
               /\ UNCHANGED <<request, up, clientEnd, serverEnd>>

\* The buffer is empty: whatever byte it holds from before, the loop returns.
NothingLeft == /\ clientPc = "ondata" /\ outbox = <<>>
               /\ clientPc' = "idle"
               /\ UNCHANGED <<request, outbox, streamVars>>

\* An interleaved frame, handed to the sink when it is complete.
RequestFrame ==
    /\ clientPc = "ondata" /\ outbox # <<>> /\ outbox[1] = Dollar
    /\ IF FrameComplete(outbox)
       THEN outbox' = After(outbox, FrameSize(outbox)) /\ UNCHANGED clientPc
       ELSE clientPc' = "idle" /\ UNCHANGED outbox
    /\ UNCHANGED <<request, streamVars>>

\* request_filt_response(): what the client keeps of a response r, to the
\* request it believes to be the one answered.  The value of a Session header
\* is <<id>> or <<id, ";timeout=", n>>.
Values(r, key) == {h.value : h \in {r.heads[i] : i \in {j \in DOMAIN r.heads :
                                                        r.heads[j].key = key}}}

\* The search for the Session header starts at the newest.
SessionHeads(r) == {i \in DOMAIN r.heads : r.heads[i].key = "Session"}
FirstSession(r) == CHOOSE i \in SessionHeads(r) : \A j \in SessionHeads(r) : i <= j

Kept(r) ==
    CASE request.current = "OPTIONS" /\ Values(r, "Public") # {} ->
            [request EXCEPT !.serverMethods = TRUE]
      [] request.current = "SETUP" /\ SessionHeads(r) # {} ->
            LET v == r.heads[FirstSession(r)].value
            IN [request EXCEPT !.sessionId = v[1],
                               !.timeout = IF Len(v) = 3 THEN Atoi(<<v[3]>>) ELSE 0]
      [] OTHER -> request

\* What it leaves of r for the handler: a '\0' is written over the ';' of the
\* Session value in r itself.
Handled(r) == IF request.current = "SETUP" /\ SessionHeads(r) # {}
              THEN [r EXCEPT !.heads[FirstSession(r)].value = <<@[1]>>]
              ELSE r

\* A response: it is decoded from its first byte each time.  (The mutant goes
\* on where the last call ended.)
MutantResponseDecoder == request.response
ResponseDecoder == NewDecoder

ResponseArrives ==
    /\ clientPc = "ondata" /\ outbox # <<>> /\ outbox[1] # Dollar
    /\ \E d \in {DecodeResponse(ResponseDecoder, outbox)} :
       /\ request' = [IF d.ret = "done" THEN Kept(d) ELSE request
                      EXCEPT !.response = IF d.ret = "done" THEN Handled(d) ELSE d,
                             !.isInHandler = d.ret # "more"]
       /\ clientPc' = CASE d.ret = "done" -> "response"
                        [] d.ret = "bad"  -> "badResponse"
                        [] d.ret = "more" -> "idle"
       /\ UNCHANGED <<outbox, streamVars>>

\* request_onclose(): all that was sent has been read.
RequestOnClose == /\ clientPc = "idle" /\ clientEnd = "closing" /\ down = <<>>
                  /\ request.mem = "live"
                  /\ clientEnd' = "closed" /\ EnterHandler("onclose")
                  /\ UNCHANGED <<outbox, up, down, serverEnd>>

\* The handler returns; a client destroyed meanwhile is deleted.
ClientHandlerReturns ==
    /\ InClientHandler
    /\ IF ~request.isAlive
       THEN Released /\ clientPc' = "idle"
       ELSE /\ request' = [request EXCEPT !.isInHandler = FALSE,
                           !.response = IF clientPc = "response" THEN NewDecoder ELSE @]
            /\ outbox' = IF clientPc = "response" THEN After(outbox, request.response.offset)
                                                  ELSE outbox
            /\ clientPc' = IF clientPc = "response" THEN "ondata" ELSE "idle"
            /\ UNCHANGED <<down, clientEnd, serverEnd>>
    /\ UNCHANGED up

RequestTypeOK ==
    /\ clientPc \in {"idle", "ondata", "onconnected", "response", "badResponse", "onclose"}
    /\ outbox \in Seq(Token)
    /\ request.mem \in {"live", "freed"} /\ request.cseq \in Nat
    /\ request.current \in Methods \cup {"NONE"}
    /\ request.isAlive \in BOOLEAN /\ request.isInHandler \in BOOLEAN
    /\ request.isAlive => request.mem = "live"
=============================================================================
