----------------------------- MODULE RtspCodec -----------------------------
(***************************************************************************)
(* RTSP messages as text, rtsp/rtsp_message_codec.c: how a request or a    *)
(* response is written, and the decoder that reads it, which is fed the    *)
(* input buffer again each time more of the message has arrived.           *)
(*                                                                         *)
(* Text is a sequence of tokens.  CR, LF, a space, a colon and the bytes   *)
(* of a body are tokens of their own; a word or a number is one token,     *)
(* since the decoder treats all its characters after the first alike.      *)
(* Positions are counted from the first unread token of the buffer: the    *)
(* buffer is assumed not to move while a message is incomplete.            *)
(***************************************************************************)
EXTENDS Naturals, Sequences, SequencesExt

CONSTANTS Token,   \* what texts are made of
          Numeral  \* the token a number is written as, for the numbers that occur

CR == "CR"
LF == "LF"
SP == "SP"
Colon == ":"
Dollar == "$"   \* 0x24, the magic of an interleaved frame

Version == "RTSP/1.0"
Url == "rtsp://host:554/path"

Methods == {"OPTIONS", "DESCRIBE", "ANNOUNCE", "SETUP", "PLAY", "PAUSE", "TEARDOWN",
            "GET_PARAMETER", "SET_PARAMETER", "REDIRECT", "RECORD"}

\* The numbers that occur as text: no two are written alike, and none as a
\* word or a separator.
Numbers == DOMAIN Numeral
Separators == {CR, LF, SP, Colon, Dollar}

ASSUME NumeralAssumption ==
    /\ Numbers \subseteq Nat
    /\ \A k \in Numbers : /\ Numeral[k] \in Token \ (Separators \cup {Version, Url})
                           /\ \A n \in Numbers : Numeral[k] = Numeral[n] => k = n

\* The words the library writes by itself.
ASSUME TokenAssumption ==
    Separators \cup Methods \cup {Version, Url, "OK", "CSeq", "Content-Length", "User-Agent",
                                  "tinylib/rtsp", "Server", "Date", "now"} \subseteq Token

\* atoi() of a span of tokens.
Atoi(span) == LET n == {k \in Numbers : span = <<Numeral[k]>>}
              IN IF n = {} THEN 0 ELSE CHOOSE k \in n : TRUE

\* A word that starts with a letter.
IsWord(c) == c \notin Separators \cup {Numeral[k] : k \in Numbers}

-----------------------------------------------------------------------------
(***************************************************************************)
(* Writing.  A message to write has a cseq, heads (its headers but CSeq    *)
(* and Content-Length) and a body; a request a method, a response a code.  *)
(***************************************************************************)
\* A header; its value is a sequence of tokens.
HeadText(key, value) == <<key, Colon, SP>> \o value \o <<CR, LF>>

\* The headers the user gave, then Content-Length, the empty line and the body.
Trailer(heads, body) ==
    FlattenSeq([i \in DOMAIN heads |-> HeadText(heads[i].key, heads[i].value)])
    \o (IF body = <<>> THEN <<>> ELSE HeadText("Content-Length", <<Numeral[Len(body)]>>))
    \o <<CR, LF>> \o body

\* rtsp_msg_buid_request()
RequestText(m) ==
    <<m.method, SP, Url, SP, Version, CR, LF>>
    \o HeadText("CSeq", <<Numeral[m.cseq]>>) \o HeadText("User-Agent", <<"tinylib/rtsp">>)
    \o Trailer(m.heads, m.body)

\* rtsp_msg_build_response(): get_status_text() turns the code into a word.
ResponseText(m) ==
    <<Version, SP, Numeral[m.code], SP, "OK", CR, LF>>
    \o HeadText("CSeq", <<Numeral[m.cseq]>>) \o HeadText("Server", <<"tinylib/rtsp">>)
    \o HeadText("Date", <<"now">>) \o Trailer(m.heads, m.body)

-----------------------------------------------------------------------------
(***************************************************************************)
(* Reading.  d is a decoder with the message it builds: request_msg and    *)
(* its request_msg_private, or the response's.  offset is data_ptr_offset, *)
(* the token looked at last, which the next call looks at again.           *)
(***************************************************************************)
\* rtsp_request_msg_new(), rtsp_response_msg_new()
NewDecoder == [state |-> "start", offset |-> 1, start |-> 0, key |-> 0, keyEnd |-> 0,
               value |-> 0, bodyStart |-> 0, ret |-> "more",
               method |-> "NONE", code |-> 0, cseq |-> 0, heads |-> <<>>,
               bodyLen |-> 0, body |-> <<>>]

Enter(d, state) == [d EXCEPT !.state = state]
Bad(d) == [d EXCEPT !.ret = "bad"]

\* The request line: method, URL and version.
AtMethod(d, c, data, p) ==
    LET span == SubSeq(data, d.start, p - 1) IN
    IF c # SP THEN IF c \in Methods THEN d ELSE Bad(d)
    ELSE IF \E m \in Methods : span = <<m>>
         THEN [Enter(d, "spaces_before_uri") EXCEPT !.method = span[1]]
         ELSE Bad(d)

AtUri(d, c, data, p) ==
    CASE d.state = "spaces_before_uri" /\ c = SP -> d
      [] d.state = "spaces_before_uri" /\ c # SP ->
            IF IsWord(c) THEN [Enter(d, "uri") EXCEPT !.start = p] ELSE Bad(d)
      [] d.state = "uri" /\ c = SP ->
            IF SubSeq(data, d.start, p - 1) = <<Url>> THEN Enter(d, "spaces_after_uri")
                                                      ELSE Bad(d)
      [] OTHER -> d

AtRequestVersion(d, c, data, p) ==
    CASE d.state = "spaces_after_uri" -> IF c = SP THEN d
                                         ELSE [Enter(d, "version") EXCEPT !.start = p]
      [] d.state = "version" /\ c = CR ->
            IF SubSeq(data, d.start, p - 1) = <<Version>> THEN Enter(d, "rl_crlf") ELSE Bad(d)
      [] OTHER -> d

RequestLine(d, c, data, p) ==
    CASE d.state = "start" -> IF c \in {CR, LF} THEN d
                              ELSE IF c \in Methods THEN [Enter(d, "method") EXCEPT !.start = p]
                              ELSE Bad(d)
      [] d.state = "method" -> AtMethod(d, c, data, p)
      [] d.state \in {"spaces_before_uri", "uri"} -> AtUri(d, c, data, p)
      [] OTHER -> AtRequestVersion(d, c, data, p)

\* The status line: version, code and the text of the code.  (A word in the
\* place of the code is refused at its second letter.)
StatusLine(d, c, data, p) ==
    LET span == SubSeq(data, d.start, p - 1) IN
    CASE d.state = "start" -> IF c \in {CR, LF} THEN d
                              ELSE IF IsWord(c) THEN [Enter(d, "version") EXCEPT !.start = p]
                              ELSE Bad(d)
      [] d.state = "version" -> IF c # SP THEN d
                                ELSE IF span = <<Version>> THEN Enter(d, "space_after_version")
                                ELSE Bad(d)
      [] d.state = "space_after_version" ->
            IF c = SP THEN d
            ELSE IF IsWord(c) THEN Bad(d) ELSE [Enter(d, "status_code") EXCEPT !.start = p]
      [] d.state = "status_code" ->
            IF c = SP THEN [Enter(d, "space_after_status_code") EXCEPT !.code = Atoi(span)]
            ELSE IF \E k \in Numbers : c = Numeral[k] THEN d ELSE Bad(d)
      [] d.state = "space_after_status_code" -> IF c = SP THEN d ELSE Enter(d, "status_text")
      [] OTHER -> IF c = CR THEN Enter(d, "rl_crlf") ELSE d

-----------------------------------------------------------------------------
\* rtsp_msg_head_parse() tells headers apart by the length of their names: the
\* headers of up to 7 letters it knows, and the longer ones.  Others are dropped.
ShortHeads == {"CSeq", "Public", "Session"}
LongHeads  == {"Transport", "Content-Type", "Content-Length"}

\* The '\r' that ends a header's value.  CSeq and Content-Length are numbers of
\* the message's own; of the others the newest comes first, save_rtsp_head().
Counted  == {"CSeq", "Content-Length"}
KeptKeys == (ShortHeads \cup LongHeads) \ Counted

Stored(d, key, value) ==
    CASE key = <<"CSeq">>           -> [d EXCEPT !.cseq = Atoi(value)]
      [] key = <<"Content-Length">> -> [d EXCEPT !.bodyLen = Atoi(value)]
      [] \E k \in KeptKeys : key = <<k>> ->
             [d EXCEPT !.heads = <<[key |-> key[1], value |-> value]>> \o d.heads]
      [] OTHER -> d

StoreHead(d, data, p) ==
    Stored(d, SubSeq(data, d.key, d.keyEnd), SubSeq(data, d.value, p - 1))

HeadStates == {"rl_crlf", "head_key", "head_colon", "head_value", "head_crlf"}

Heads(d, c, data, p) ==
    CASE d.state = "rl_crlf"    -> IF c = LF THEN d ELSE [Enter(d, "head_key") EXCEPT !.key = p]
      [] d.state = "head_key"   -> IF c = Colon THEN [Enter(d, "head_colon") EXCEPT !.keyEnd = p - 1]
                                                ELSE d
      [] d.state = "head_colon" -> IF c = SP THEN d ELSE [Enter(d, "head_value") EXCEPT !.value = p]
      [] d.state = "head_value" -> IF c = CR THEN Enter(StoreHead(d, data, p), "head_crlf") ELSE d
      [] OTHER -> CASE c = CR -> Enter(d, "head_end")
                    [] c = LF -> d
                    [] OTHER  -> [Enter(d, "head_key") EXCEPT !.key = p]

\* A mutant: the body's first byte is not counted.
MutantBody(d, c, data, p) ==
    IF d.state = "head_end"
    THEN CASE c # LF -> [Enter(d, "body") EXCEPT !.bodyStart = p]
           [] c = LF -> IF d.bodyLen = 0 THEN [d EXCEPT !.ret = "done"] ELSE d
    ELSE IF p - d.bodyStart # d.bodyLen THEN d
    ELSE [d EXCEPT !.ret = "done", !.body = SubSeq(data, d.bodyStart + 1, p)]

\* The empty line and the body.  The body's first byte is not counted when it
\* is met, so that a body of one byte is complete only at a later call.
Body(d, c, data, p) ==
    IF d.state = "head_end"
    THEN CASE c # LF -> [Enter(d, "body") EXCEPT !.bodyStart = p]
           [] c = LF -> IF d.bodyLen = 0 THEN [d EXCEPT !.ret = "done"] ELSE d
    ELSE IF p - d.bodyStart + 1 # d.bodyLen THEN d
    ELSE [d EXCEPT !.ret = "done", !.body = SubSeq(data, d.bodyStart, p)]

\* One turn of the decoder's loop; kind is "request" or "response".
FirstLine(kind, d, c, data, p) == IF kind = "request" THEN RequestLine(d, c, data, p)
                                                      ELSE StatusLine(d, c, data, p)

Turn(kind, d, data, p) ==
    LET e == [d EXCEPT !.offset = p]
        c == data[p]
    IN CASE d.state \in HeadStates           -> Heads(e, c, data, p)
         [] d.state \in {"head_end", "body"} -> Body(e, c, data, p)
         [] OTHER                            -> FirstLine(kind, e, c, data, p)

\* reads[p] holds the decoder after token p (as the one member of a set).
Decode(kind, d, data) ==
    LET reads[p \in d.offset - 1 .. Len(data)] ==
            IF p < d.offset THEN {[d EXCEPT !.ret = "more"]}
            ELSE {IF e.ret = "more" THEN Turn(kind, e, data, p) ELSE e : e \in reads[p - 1]}
    IN CHOOSE e \in reads[Len(data)] : TRUE

\* rtsp_request_msg_decode() and rtsp_response_msg_decode(): ret is "done" (0),
\* "more" (1) or "bad" (-1), and offset, when done, the tokens parsed.
DecodeRequest(d, data)  == Decode("request", d, data)
DecodeResponse(d, data) == Decode("response", d, data)

-----------------------------------------------------------------------------
(***************************************************************************)
(* What a message is for its reader, and the reading that writing calls    *)
(* for: every field, and the headers that are kept, newest first.          *)
(***************************************************************************)
Read(d) == [method |-> d.method, code |-> d.code, cseq |-> d.cseq, heads |-> d.heads,
            body |-> d.body]

KeptHeads(heads) ==
    LET kept[i \in 0 .. Len(heads)] ==
            IF i = 0 THEN <<>>
            ELSE IF heads[i].key \in KeptKeys THEN <<heads[i]>> \o kept[i - 1]
            ELSE kept[i - 1]
    IN kept[Len(heads)]

AsRead(m) == [method |-> m.method, code |-> m.code, cseq |-> m.cseq, body |-> m.body,
              heads |-> KeptHeads(m.heads)]

\* An interleaved frame (RFC 2326 10.12): channel, length, payload.
FrameText(f) == <<Dollar, f.channel, Numeral[Len(f.payload)]>> \o f.payload
FrameSize(data) == Atoi(SubSeq(data, 3, 3)) + 3
FrameComplete(data) == Len(data) >= 3 /\ Len(data) >= FrameSize(data)
FrameRead(data) == [channel |-> data[2], payload |-> SubSeq(data, 4, FrameSize(data))]
=============================================================================
