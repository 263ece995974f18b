----------------------------- MODULE RtspStream ----------------------------
(***************************************************************************)
(* The TCP connection between an RTSP client and an RTSP server, as their  *)
(* code sees it: what tcp_client, tcp_server and tcp_connection give them. *)
(* Bytes arrive in order, in pieces of any size; a piece may be cut short  *)
(* by a close of the other end or a reset, and nothing follows it.         *)
(***************************************************************************)
EXTENDS RtspCodec

CONSTANTS None, CutAnywhere  \* pieces that reach the server may end within a
                             \* line end, or right after a header's colon

ASSUME CutAssumption == CutAnywhere \in BOOLEAN

VARIABLES up,         \* tokens on their way from the client to the server
          down,       \* and from the server to the client
          clientEnd,  \* the client's end of the connection
          serverEnd   \* the server's end

streamVars == <<up, down, clientEnd, serverEnd>>

\* "established" and "refused": the kernel has connected the ends, or failed
\* to, and the owner has not been told; "closing": lost or closed by the peer,
\* and the owner has not been told; "closed": told, or closed by the owner.
Ends == {"none", "connecting", "established", "refused", "open", "closing", "closed"}

StreamInit == /\ up = <<>> /\ down = <<>>
              /\ clientEnd = "none" /\ serverEnd = "none"

\* How many tokens the next piece may have.  A piece that ends in CR or a
\* colon makes the server's decoder look at it twice, in two states.
UpPieces == {n \in 1 .. Len(up) : CutAnywhere \/ up[n] \notin {CR, Colon}}
DownPieces == 1 .. Len(down)

After(text, n) == SubSeq(text, n + 1, Len(text))

\* tcp_connection_send(): refused once the connection is known to be closed;
\* what is sent after the other end is gone is lost.
SendUp(text) == up' = IF clientEnd = "open" /\ serverEnd # "closed" THEN up \o text ELSE up
SendDown(text) == down' = IF serverEnd = "open" /\ clientEnd # "closed" THEN down \o text ELSE down

\* The other end hears of a close when it has read what was sent before.
Hears(end) == CASE end = "established" -> "refused"
                [] end = "open"        -> "closing"
                [] OTHER               -> end

\* The kernel's answer to connect().
Establish(listening) ==
    /\ clientEnd = "connecting"
    /\ IF listening THEN clientEnd' = "established" /\ serverEnd' = "established"
                    ELSE clientEnd' = "refused" /\ UNCHANGED serverEnd
    /\ UNCHANGED <<up, down>>

\* The connection breaks: what is on its way is lost.
Break == /\ clientEnd = "open"
         /\ up' = <<>> /\ down' = <<>>
         /\ clientEnd' = Hears(clientEnd) /\ serverEnd' = Hears(serverEnd)

StreamTypeOK == /\ clientEnd \in Ends /\ serverEnd \in Ends
                /\ up \in Seq(Token) /\ down \in Seq(Token)
=============================================================================
