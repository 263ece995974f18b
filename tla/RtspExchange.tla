---------------------------- MODULE RtspExchange ---------------------------
(***************************************************************************)
(* A client and a server of the library over one connection: RtspRequest   *)
(* and RtspSession with the users behind them.  The client's user has one  *)
(* request outstanding at a time (rtsp_request.h: no pipelining) and may   *)
(* send frames in between; the server's user answers a request in its      *)
(* handler or ends the session.                                            *)
(***************************************************************************)
EXTENDS RtspSession, RtspRequest

CONSTANTS Callable,     \* the methods the client's user calls
          MaxRequests,  \* how many requests it sends
          MaxFrames,    \* how many frames the two users send
          MaxCuts       \* how many reads find less than all that is on its way

ASSUME BoundsAssumption == /\ Callable \subseteq Methods
                           /\ MaxRequests \in Nat /\ MaxFrames \in Nat /\ MaxCuts \in Nat
                           /\ {2, 3, 9, 200} \cup 0 .. MaxRequests \subseteq Numbers

ASSUME NoneAssumption == None \notin [method : Methods, cseq : 0 .. MaxRequests]

VARIABLES upward,    \* requests and frames sent and not yet handed over, oldest first
          downward,  \* responses and frames
          asked,     \* the request the client's user waits for, or None
          owed,      \* the request the server's user has not answered, or None
          issued,    \* the session id that the server's user gave out, or None
          frames,    \* frames the users have sent
          cuts       \* reads that left something on its way

ghostVars == <<upward, downward, asked, owed, issued, frames, cuts>>
vars == <<streamVars, sessionVars, requestVars, ghostVars>>

Init == /\ StreamInit /\ SessionInit /\ RequestInit
        /\ upward = <<>> /\ downward = <<>>
        /\ asked = None /\ owed = None /\ issued = None
        /\ frames = 0 /\ cuts = 0

\* What the users put into messages.
SessionId == "sid"
BodyText == <<"v=0", LF>>
Head1(key, value) == <<[key |-> key, value |-> value]>>

AskedHeads(method) == CASE method = "SETUP"    -> Head1("Transport", <<"RTP/AVP">>)
                        [] method = "DESCRIBE" -> Head1("Accept", <<"application/sdp">>)
                        [] OTHER               -> <<>>
AskedBody(method) == IF method \in {"GET_PARAMETER", "SET_PARAMETER"} THEN BodyText ELSE <<>>

AnswerHeads(method) ==
    CASE method = "OPTIONS"  -> Head1("Public", <<"OPTIONS">>)
      [] method = "DESCRIBE" -> Head1("Content-Type", <<"application/sdp">>)
      [] method = "SETUP"    -> Head1("Session", <<SessionId, ";timeout=", Numeral[9]>>)
                                \o Head1("Transport", <<"RTP/AVP">>)
      [] OTHER               -> <<>>
AnswerBody(method) == IF method = "DESCRIBE" THEN BodyText ELSE <<>>

Frame == [channel |-> "channel", payload |-> <<"rtp", CR, LF>>]

\* A send is noted unless it is lost.
Noted(sent, item, text, text2) == IF text2 = text THEN sent ELSE Append(sent, item)
Rest(sent) == IF sent = <<>> THEN sent ELSE Tail(sent)

ASSUME WordsAssumption ==
    {SessionId, "v=0", "Session", ";timeout=", "Transport", "RTP/AVP", "Accept", "Public",
     "Content-Type", "application/sdp", "channel", "rtp"} \subseteq Token

-----------------------------------------------------------------------------
(***************************************************************************)
(* The users.                                                              *)
(***************************************************************************)
Ask(method) ==
    LET m == RequestFor(method, AskedHeads(method), AskedBody(method)) IN
    /\ asked = None /\ request.cseq < MaxRequests
    /\ Call(method, AskedHeads(method), AskedBody(method))
    /\ asked' = [method |-> method, cseq |-> m.cseq]
    /\ upward' = Noted(upward, AsRead(m), up, up')
    /\ UNCHANGED <<sessionVars, downward, owed, issued, frames, cuts>>

FrameUp == /\ frames < MaxFrames
           /\ SendFrameUp(Frame)
           /\ frames' = frames + 1
           /\ upward' = Noted(upward, Frame, up, up')
           /\ UNCHANGED <<sessionVars, downward, asked, owed, issued, cuts>>

\* tcp_connection_send() of rtsp_msg_build_response(), in the handler.
Respond ==
    LET m == [method |-> "NONE", code |-> 200, cseq |-> owed.cseq,
              heads |-> AnswerHeads(owed.method), body |-> AnswerBody(owed.method)]
    IN /\ SendDown(ResponseText(m))
       /\ downward' = Noted(downward, AsRead(m), down, down')
       /\ issued' = IF owed.method = "SETUP" THEN SessionId ELSE issued

Answer == /\ serverPc = "request" /\ owed # None /\ session.isAlive
          /\ Respond
          /\ owed' = None
          /\ UNCHANGED <<sessionVars, requestVars, up, clientEnd, serverEnd, upward, asked, frames, cuts>>

FrameDown == /\ frames < MaxFrames
             /\ session.isAlive /\ (serverPc = "idle" \/ InHandler)
             /\ SendDown(FrameText(Frame))
             /\ frames' = frames + 1
             /\ downward' = Noted(downward, Frame, down, down')
             /\ UNCHANGED <<sessionVars, requestVars, up, clientEnd, serverEnd,
                            upward, asked, owed, issued, cuts>>

-----------------------------------------------------------------------------
(***************************************************************************)
(* The two ends and the connection.                                        *)
(***************************************************************************)
\* A read takes all there is, or is one of the MaxCuts that do not.
Cut(left) == /\ cuts' = IF left = <<>> THEN cuts ELSE cuts + 1
             /\ cuts' <= MaxCuts
             /\ UNCHANGED <<upward, downward, asked, owed, issued, frames>>

ServerRead == ServerReads /\ Cut(up') /\ UNCHANGED requestVars
ClientRead == ClientReads /\ Cut(down') /\ UNCHANGED sessionVars

\* The frame at the front of the input buffer is handed over.
FrameTaken(text, sent) ==
    IF FrameComplete(text) THEN Rest(sent) ELSE sent

ServerFrame == /\ SessionFrame /\ upward' = FrameTaken(inbox, upward)
               /\ UNCHANGED <<requestVars, downward, asked, owed, issued, frames, cuts>>

ServerText == /\ SessionText
              /\ owed' = IF session'.request.ret = "done"
                         THEN [method |-> session'.request.method,
                               cseq |-> session'.request.cseq]
                         ELSE owed
              /\ UNCHANGED <<requestVars, upward, downward, asked, issued, frames, cuts>>

\* Nothing more is handed over at an end that is closed, or never was open.
Awaited(end, sent) == IF end \in {"none", "closed"} THEN <<>> ELSE sent

\* The server's user has answered before the handler returns.
ServerReturns == /\ owed = None \/ ~session.isAlive
                 /\ HandlerReturns
                 /\ owed' = None
                 /\ upward' = Awaited(serverEnd', IF serverPc = "request" THEN Rest(upward)
                                                                        ELSE upward)
                 /\ UNCHANGED <<requestVars, downward, asked, issued, frames, cuts>>

ServerStep == \/ /\ \/ ServerStart \/ ServerStop \/ Accept
                    \/ AllRead \/ SessionOnClose \/ SessionEnd
                 /\ upward' = Awaited(serverEnd', upward)
                 /\ UNCHANGED <<requestVars, downward, asked, owed, issued, frames, cuts>>
              \/ ServerRead \/ ServerFrame \/ ServerText \/ ServerReturns

ClientFrame == /\ RequestFrame /\ downward' = FrameTaken(outbox, downward)
               /\ UNCHANGED <<sessionVars, upward, asked, owed, issued, frames, cuts>>

ClientText == /\ ResponseArrives
              /\ asked' = IF clientPc' = "response" THEN None ELSE asked
              /\ UNCHANGED <<sessionVars, upward, downward, owed, issued, frames, cuts>>

ClientReturns == /\ ClientHandlerReturns
                 /\ downward' = Awaited(clientEnd', IF clientPc = "response" THEN Rest(downward)
                                                                          ELSE downward)
                 /\ UNCHANGED <<sessionVars, upward, asked, owed, issued, frames, cuts>>

ClientStep == \/ /\ \/ Launch \/ RequestDestroy \/ OnConnected
                    \/ NothingLeft \/ RequestOnClose
                 /\ downward' = Awaited(clientEnd', downward)
                 /\ UNCHANGED <<sessionVars, upward, asked, owed, issued, frames, cuts>>
              \/ ClientRead \/ ClientFrame \/ ClientText \/ ClientReturns

Network == /\ Establish(listening) \/ Break
           /\ UNCHANGED <<sessionVars, requestVars, ghostVars>>

Next == \/ \E method \in Callable : Ask(method)
        \/ FrameUp \/ Answer \/ FrameDown
        \/ ServerStep \/ ClientStep \/ Network

\* Each end is one loop thread that goes on while it has something to do, the
\* server's user answers, and bytes travel.
ServerLoop == /\ UNCHANGED requestVars
              /\ \/ ServerRead \/ ServerFrame \/ ServerText \/ Answer \/ ServerReturns
                 \/ (Accept \/ AllRead \/ SessionOnClose) /\ ServerStep
ClientLoop == /\ UNCHANGED sessionVars
              /\ \/ ClientRead \/ ClientFrame \/ ClientText \/ ClientReturns
                 \/ (OnConnected \/ NothingLeft \/ RequestOnClose) /\ ClientStep

Spec == Init /\ [][Next]_vars /\ WF_vars(ServerLoop) /\ WF_vars(ClientLoop)

-----------------------------------------------------------------------------
(***************************************************************************)
(* Properties.                                                             *)
(***************************************************************************)
TypeOK == StreamTypeOK /\ SessionTypeOK /\ RequestTypeOK

\* The server hands over what the client sent: the request in its handler is
\* the oldest one not yet handed over, field for field, so is the frame it is
\* about to give the sink, and nothing is taken for a bad request, however the
\* bytes were cut into pieces (session_ondata, rtsp_request_msg_decode).
RequestsIntact ==
    /\ serverPc = "request" =>
           upward # <<>> /\ Read(session.request) = Head(upward)
    /\ serverPc = "ondata" /\ inbox # <<>> /\ inbox[1] = Dollar /\ FrameComplete(inbox) =>
           upward # <<>> /\ FrameRead(inbox) = Head(upward)
    /\ serverPc # "badRequest"

\* What the client's user is given of a response: of SETUP's answer, the one
\* that has a Session header, only the id and not the timeout that follows it.
WithoutTimeout(heads) ==
    [i \in DOMAIN heads |-> IF heads[i].key = "Session"
                            THEN [heads[i] EXCEPT !.value = <<SessionId>>] ELSE heads[i]]

Handed(m) == [m EXCEPT !.heads = WithoutTimeout(m.heads)]

\* The same for responses and for the frames of the server, but for the timeout
\* in SETUP's answer, which request_filt_response() cuts off before the handler
\* sees it (request_ondata, rtsp_response_msg_decode).
ResponsesIntact ==
    /\ clientPc = "response" =>
           downward # <<>> /\ Read(request.response) = Handed(Head(downward))
    /\ clientPc = "ondata" /\ outbox # <<>> /\ outbox[1] = Dollar /\ FrameComplete(outbox) =>
           downward # <<>> /\ FrameRead(outbox) = Head(downward)
    /\ clientPc # "badResponse"

\* Both directions, with the type invariant.
StreamsIntact == TypeOK /\ RequestsIntact /\ ResponsesIntact

\* A response is handed to the client's user as the answer to the request it
\* answers: request_ondata() passes current_request and never looks at CSeq.
AnswersTheRequest ==
    [][clientPc # "response" /\ clientPc' = "response" =>
           /\ asked # None
           /\ request'.current = asked.method
           /\ request'.response.cseq = asked.cseq]_vars

\* Once the server gave out a session id, every request it is handed of a
\* method that belongs to a session carries that id (request_filt_response,
\* rtsp_request_setup .. rtsp_request_set_parameter).
SessionCarried ==
    serverPc = "request" /\ owed # None /\ issued # None /\ owed.method \notin {"OPTIONS", "DESCRIBE"}
        => Values(session.request, "Session") = {<<issued>>}

\* A request is answered, or its connection ends and the client is told.
RequestsAnswered == asked # None ~> asked = None \/ clientEnd = "closed"
=============================================================================
