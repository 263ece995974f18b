---------------------------- MODULE RtspSession ----------------------------
(***************************************************************************)
(* The RTSP server: rtsp/rtsp_server.c and rtsp/rtsp_session.c.  The       *)
(* server turns an accepted connection into a session; the session reads   *)
(* requests and interleaved frames out of the connection's input buffer,   *)
(* one turn of session_ondata()'s loop at a time, and hands them to the    *)
(* user's handler, who answers on the connection and may end the session.  *)
(* The user does not end it in the interleaved sink, which is called       *)
(* without is_in_handler.                                                  *)
(***************************************************************************)
EXTENDS RtspStream

VARIABLES listening,    \* rtsp_server_t: started
          session,      \* rtsp_session_t
          inbox,        \* the connection's input buffer
          serverPc      \* where the server's loop thread is

sessionVars == <<listening, session, inbox, serverPc>>

NoSession == [mem |-> "unused", isAlive |-> FALSE, isInHandler |-> FALSE,
              request |-> NewDecoder]

SessionInit == /\ listening = FALSE /\ session = NoSession
               /\ inbox = <<>> /\ serverPc = "idle"

-----------------------------------------------------------------------------
(***************************************************************************)
(* The server.                                                             *)
(***************************************************************************)
\* rtsp_server_start(), tcp_server_start()
ServerStart == /\ serverPc = "idle" /\ ~listening /\ clientEnd \in {"none", "connecting"}
               /\ listening' = TRUE
               /\ UNCHANGED <<session, inbox, serverPc, streamVars>>

\* rtsp_server_stop(): a connection nobody accepted is reset.  (A session goes
\* on after it, so a later stop is left out.)
ServerStop ==
    /\ serverPc = "idle" /\ listening /\ session.mem = "unused"
    /\ listening' = FALSE
    /\ IF serverEnd \in {"established", "refused"}
       THEN serverEnd' = "closed" /\ clientEnd' = Hears(clientEnd)
       ELSE UNCHANGED <<serverEnd, clientEnd>>
    /\ UNCHANGED <<session, inbox, serverPc, up, down>>

\* server_onconnection() and rtsp_session_start().  The handler is told of the
\* session with no request, and is_in_handler not set.
Accept ==
    /\ serverPc = "idle" /\ listening
    /\ \/ serverEnd = "established" /\ serverEnd' = "open"
       \/ serverEnd = "refused" /\ serverEnd' = "closing"
    /\ session' = [NoSession EXCEPT !.mem = "live", !.isAlive = TRUE]
    /\ UNCHANGED <<listening, inbox, serverPc, up, down, clientEnd>>

-----------------------------------------------------------------------------
(***************************************************************************)
(* The session.                                                            *)
(***************************************************************************)
\* session_delete(): tcp_connection_destroy() closes once what was sent is out.
Deleted == /\ session' = [session EXCEPT !.mem = "freed", !.isAlive = FALSE,
                                         !.isInHandler = FALSE]
           /\ serverEnd' = "closed" /\ clientEnd' = Hears(clientEnd)
           /\ inbox' = <<>> /\ up' = <<>>

\* connection_onevent(): a piece has arrived.
ServerReads ==
    /\ serverPc = "idle" /\ serverEnd \in {"open", "closing"}
    /\ \E n \in UpPieces : /\ inbox' = inbox \o SubSeq(up, 1, n)
                           /\ up' = After(up, n)
    /\ serverPc' = "ondata"
    /\ UNCHANGED <<listening, session, down, clientEnd, serverEnd>>

\* The buffer is empty: the loop looks at a byte left from before, and whatever
\* that is finds too few bytes and returns.
AllRead == /\ serverPc = "ondata" /\ inbox = <<>>
           /\ serverPc' = "idle"
           /\ UNCHANGED <<listening, session, inbox, streamVars>>

\* An interleaved frame, handed to the sink when it is complete; the loop goes
\* on with the session afterwards.
SessionFrame ==
    /\ serverPc = "ondata" /\ inbox # <<>> /\ inbox[1] = Dollar
    /\ IF FrameComplete(inbox)
       THEN inbox' = After(inbox, FrameSize(inbox)) /\ UNCHANGED serverPc
       ELSE serverPc' = "idle" /\ UNCHANGED inbox
    /\ UNCHANGED <<listening, session, streamVars>>

\* A request: the decoder goes on where it was.  The handler is called with
\* the request when it is complete and with none when it is not one.
SessionText ==
    /\ serverPc = "ondata" /\ inbox # <<>> /\ inbox[1] # Dollar
    /\ \E d \in {DecodeRequest(session.request, inbox)} :
       /\ session' = [session EXCEPT !.request = d, !.isInHandler = d.ret # "more"]
       /\ serverPc' = CASE d.ret = "done" -> "request"
                        [] d.ret = "bad"  -> "badRequest"
                        [] d.ret = "more" -> "idle"
       /\ UNCHANGED <<listening, inbox, streamVars>>

InHandler == serverPc \in {"request", "badRequest", "onclose"}

\* The handler returns: the request is dropped from the buffer, the session
\* deleted if it was ended meanwhile.  A text that is no request stays.
HandlerReturns ==
    /\ InHandler
    /\ IF ~session.isAlive
       THEN Deleted /\ serverPc' = "idle"
       ELSE /\ session' = [session EXCEPT !.isInHandler = FALSE,
                           !.request = IF serverPc = "request" THEN NewDecoder ELSE @]
            /\ inbox' = IF serverPc = "request" THEN After(inbox, session.request.offset)
                                                ELSE inbox
            /\ serverPc' = IF serverPc = "request" THEN "ondata" ELSE "idle"
            /\ UNCHANGED <<up, clientEnd, serverEnd>>
    /\ UNCHANGED <<listening, down>>

\* session_onclose(): all that was sent has been read.
SessionOnClose ==
    /\ serverPc = "idle" /\ serverEnd = "closing" /\ up = <<>> /\ session.mem = "live"
    /\ session' = [session EXCEPT !.isInHandler = TRUE]
    /\ serverEnd' = "closed" /\ serverPc' = "onclose"
    /\ UNCHANGED <<listening, inbox, up, down, clientEnd>>

\* rtsp_session_end(), by the handler or by the loop thread between events.
SessionEnd ==
    /\ session.mem = "live" /\ session.isAlive
    /\ serverPc = "idle" \/ InHandler
    /\ IF session.isInHandler
       THEN /\ session' = [session EXCEPT !.isAlive = FALSE]
            /\ UNCHANGED <<inbox, up, clientEnd, serverEnd>>
       ELSE Deleted
    /\ UNCHANGED <<listening, serverPc, down>>

SessionTypeOK ==
    /\ listening \in BOOLEAN
    /\ serverPc \in {"idle", "ondata", "request", "badRequest", "onclose"}
    /\ inbox \in Seq(Token)
    /\ session.mem \in {"unused", "live", "freed"}
    /\ session.isAlive \in BOOLEAN /\ session.isInHandler \in BOOLEAN
    /\ session.isAlive => session.mem = "live"
=============================================================================
