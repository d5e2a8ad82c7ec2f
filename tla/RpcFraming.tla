----------------------------- MODULE RpcFraming -----------------------------
(***************************************************************************)
(* How a response crosses the socket: the inline server of                  *)
(* rpcsocket_mpack.nim writes a length prefix (sendLength) and the message  *)
(* in pieces (sendChunks), and execRpc of the clients puts it together.     *)
(*                                                                          *)
(* A body byte is known by its response and its place in it.  A send is a   *)
(* segment; the stream may also split and join segments.                    *)
(***************************************************************************)
EXTENDS Integers, Sequences

CONSTANTS
    Base,           \* values of a byte: 256
    MaxLen,         \* bound: bytes of the longest response
    MsgChunk,       \* bytes of a send of sendChunks: 1400
    RecvSize,       \* bytes a recv of the client's loop asks for: 4096
    MaxCalls,       \* bound: calls the client makes
    HeaderMaySplit, \* can the four bytes of the prefix arrive apart?
    SendMayFail,    \* can the handler raise, a send after part of its bytes?
    StreamMayEnd    \* can the connection end when the server is gone?

ASSUME SizesAssumption ==
    /\ Base \in Nat \ {0, 1} /\ MaxLen \in Nat \ {0}
    /\ MsgChunk \in Nat \ {0} /\ RecvSize \in Nat \ {0} /\ MaxCalls \in Nat

\* The top byte of a length leaves the sign of the client's int32 alone: no
\* response is as long as 2^31 bytes.
ASSUME LengthAssumption ==
    \A n \in 1 .. MaxLen : 2 * (((n \div Base) \div Base) \div Base) < Base

VARIABLES
    lens,       \* lens[k]: bytes of the k-th response
    spc,        \* the server: "recv", "length", "chunks", or "dead"
    sentBytes,  \* i of sendChunks: bytes of the body that were sent
    wire,       \* segments on their way
    rx,         \* bytes that have arrived at the client
    ended,      \* has the end of the stream been sent?
    cpc,        \* the client: "idle", "header", "body", "stopped"
    msgLen,     \* its msgLen
    msg,        \* its msg
    results     \* history: what its calls returned

vars == <<lens, spc, sentBytes, wire, rx, ended, cpc, msgLen, msg, results>>

Digit(d) == [kind |-> "len", val |-> d]
BodyByte(k, i) == [kind |-> "body", call |-> k, pos |-> i]
Body(k, first, last) == [i \in 1 .. last - first + 1 |-> BodyByte(k, first + i - 1)]

\* Mutation of EncodeLength: the bytes in network order.
EncodeLengthBig(n) ==
    LET b1 == n \div Base
        b2 == b1 \div Base
        b3 == b2 \div Base
    IN  <<b3 % Base, b2 % Base, b1 % Base, n % Base>>

\* sendLength: rmsgN and 0xFF, rmsgN shr 8, four times.
EncodeLength(n) ==
    LET b1 == n \div Base
        b2 == b1 \div Base
        b3 == b2 \div Base
    IN  <<n % Base, b1 % Base, b2 % Base, b3 % Base>>

\* The client shifts the bytes into an int32, last byte first.
DecodeLength(d) ==
    LET unsigned == ((d[4] * Base + d[3]) * Base + d[2]) * Base + d[1]
    IN  IF 2 * d[4] < Base THEN unsigned ELSE unsigned - Base * Base * Base * Base

Init ==
    /\ lens = <<>>
    /\ spc = "recv"
    /\ sentBytes = 0
    /\ wire = <<>>
    /\ rx = <<>>
    /\ ended = FALSE
    /\ cpc = "idle"
    /\ msgLen = 0
    /\ msg = <<>>
    /\ results = <<>>

-----------------------------------------------------------------------------
(* The server: rpcMsgPackReadHandler after recv. *)

\* The size of the response that is being sent: rmsg.len().
Size == lens[Len(lens)]

serverUnchanged == UNCHANGED <<rx, cpc, msgLen, msg, results>>

\* The prefix, as sendLength writes it in one send.
Prefix == [i \in 1 .. 4 |-> Digit(EncodeLength(Size)[i])]

\* j of sendChunks: the end of the next piece.
NextEnd == IF sentBytes + MsgChunk < Size THEN sentBytes + MsgChunk ELSE Size

SendLength ==
    /\ spc = "length"
    /\ wire' = Append(wire, Prefix)
    /\ spc' = "chunks"
    /\ sentBytes' = 0
    /\ UNCHANGED <<lens, ended>>
    /\ serverUnchanged

\* Mutation of SendChunk: an inclusive range, rmsg[i .. j].
SendChunkInclusive ==
    /\ spc = "chunks"
    /\ sentBytes < Size
    /\ wire' = Append(wire, Body(Len(lens), sentBytes + 1,
                                 IF NextEnd < Size THEN NextEnd + 1 ELSE NextEnd))
    /\ sentBytes' = NextEnd
    /\ UNCHANGED <<lens, spc, ended>>
    /\ serverUnchanged

SendChunk ==
    /\ spc = "chunks"
    /\ sentBytes < Size
    /\ wire' = Append(wire, Body(Len(lens), sentBytes + 1, NextEnd))
    /\ sentBytes' = NextEnd
    /\ UNCHANGED <<lens, spc, ended>>
    /\ serverUnchanged

ChunksSent ==
    /\ spc = "chunks"
    /\ sentBytes = Size
    /\ spc' = "recv"
    /\ UNCHANGED <<lens, sentBytes, wire, ended>>
    /\ serverUnchanged

\* A send raises after part of its bytes, or, before the first, the decoding of the
\* call or route does: the exception ends the server task.
HandlerRaises ==
    /\ SendMayFail
    /\ \/ spc = "length"
       \/ spc = "chunks" /\ sentBytes < Size
    /\ LET piece == IF spc = "length" THEN Prefix ELSE Body(Len(lens), sentBytes + 1, NextEnd)
       IN  \E n \in 0 .. Len(piece) - 1 :
              wire' = IF n = 0 THEN wire ELSE Append(wire, SubSeq(piece, 1, n))
    /\ spc' = "dead"
    /\ UNCHANGED <<lens, sentBytes, ended>>
    /\ serverUnchanged

EndOfStream ==
    /\ StreamMayEnd
    /\ spc = "dead"
    /\ ~ ended
    /\ ended' = TRUE
    /\ UNCHANGED <<lens, spc, sentBytes, wire>>
    /\ serverUnchanged

-----------------------------------------------------------------------------
(* The stream. *)

IsHeader(seg) == seg[1].kind = "len"

Arrive ==
    /\ wire # <<>>
    /\ LET seg == Head(wire)
       IN  \E n \in 1 .. Len(seg) :
              /\ IsHeader(seg) /\ ~ HeaderMaySplit => n = Len(seg)
              /\ rx' = rx \o SubSeq(seg, 1, n)
              /\ wire' = IF n = Len(seg) THEN Tail(wire)
                         ELSE <<SubSeq(seg, n + 1, Len(seg))>> \o Tail(wire)
    /\ UNCHANGED <<lens, spc, sentBytes, ended, cpc, msgLen, msg, results>>

-----------------------------------------------------------------------------
(* The client: execRpc. *)

clientUnchanged == UNCHANGED <<sentBytes, wire, ended>>

\* client.send(mcall), and the server's recv and route, which write nothing.
Call ==
    /\ cpc = "idle"
    /\ spc = "recv"
    /\ Len(lens) < MaxCalls
    /\ \E n \in 1 .. MaxLen : lens' = Append(lens, n)
    /\ spc' = "length"
    /\ cpc' = "header"
    /\ UNCHANGED <<rx, msgLen, msg, results>>
    /\ clientUnchanged

RecvHeader ==
    /\ cpc = "header"
    /\ Len(rx) >= 4
    /\ msgLen' = DecodeLength([i \in 1 .. 4 |-> rx[i].val])
    /\ rx' = SubSeq(rx, 5, Len(rx))
    /\ msg' = <<>>
    /\ cpc' = "body"
    /\ UNCHANGED <<lens, spc, results>>
    /\ clientUnchanged

\* A recv that returns less than four bytes: msgLenBytes[i] is an IndexDefect.
RecvShortHeader ==
    /\ cpc = "header"
    /\ rx # <<>> /\ Len(rx) < 4
    /\ rx' = <<>>
    /\ cpc' = "stopped"
    /\ UNCHANGED <<lens, spc, msgLen, msg, results>>
    /\ clientUnchanged

\* Mutation of RecvBody: one recv for the whole message.
RecvBodyOnce ==
    /\ cpc = "body"
    /\ rx # <<>>
    /\ LET n == IF Len(rx) < RecvSize THEN Len(rx) ELSE RecvSize
       IN  results' = Append(results, msg \o SubSeq(rx, 1, n)) /\ rx' = SubSeq(rx, n + 1, Len(rx))
    /\ cpc' = "idle"
    /\ UNCHANGED <<lens, spc, msgLen, msg>>
    /\ clientUnchanged

\* The loop: recv takes what has arrived, up to its size, wherever the message ends.
RecvBody ==
    /\ cpc = "body"
    /\ Len(msg) < msgLen
    /\ rx # <<>>
    /\ LET n == IF Len(rx) < RecvSize THEN Len(rx) ELSE RecvSize
       IN  msg' = msg \o SubSeq(rx, 1, n) /\ rx' = SubSeq(rx, n + 1, Len(rx))
    /\ UNCHANGED <<lens, spc, cpc, msgLen, results>>
    /\ clientUnchanged

\* At the end of the stream recv returns "": the header gives up, the loop of the
\* body does not, and the client goes round for ever.
RecvNothing ==
    /\ cpc = "header"
    /\ rx = <<>> /\ wire = <<>> /\ ended
    /\ cpc' = "stopped"
    /\ UNCHANGED <<lens, spc, rx, msgLen, msg, results>>
    /\ clientUnchanged

\* Mutation of Return: the loop goes on while msg.len() <= msgLen.
ReturnOffByOne ==
    /\ cpc = "body"
    /\ Len(msg) > msgLen
    /\ results' = Append(results, msg)
    /\ cpc' = "idle"
    /\ UNCHANGED <<lens, spc, rx, msgLen, msg>>
    /\ clientUnchanged

Return ==
    /\ cpc = "body"
    /\ Len(msg) >= msgLen
    /\ results' = Append(results, msg)
    /\ cpc' = "idle"
    /\ UNCHANGED <<lens, spc, rx, msgLen, msg>>
    /\ clientUnchanged

-----------------------------------------------------------------------------

Server == SendLength \/ SendChunk \/ ChunksSent \/ HandlerRaises \/ EndOfStream
Client == RecvHeader \/ RecvShortHeader \/ RecvBody \/ RecvNothing \/ Return

Next == Server \/ Arrive \/ Call \/ Client

Spec == Init /\ [][Next]_vars

\* The server task runs when it has something to do, TCP delivers, the client reads.
FairSpec == Spec /\ WF_vars(Server) /\ WF_vars(Arrive) /\ WF_vars(Client)

-----------------------------------------------------------------------------

Bytes == [kind : {"len"}, val : 0 .. Base - 1]
         \union [kind : {"body"}, call : 1 .. MaxCalls, pos : 1 .. MaxLen]

TypeOK ==
    /\ lens \in Seq(1 .. MaxLen)
    /\ spc \in {"recv", "length", "chunks", "dead"}
    /\ sentBytes \in 0 .. MaxLen
    /\ wire \in Seq(Seq(Bytes))
    /\ rx \in Seq(Bytes)
    /\ ended \in BOOLEAN
    /\ cpc \in {"idle", "header", "body", "stopped"}
    /\ msgLen \in 0 .. MaxLen
    /\ msg \in Seq(Bytes)
    /\ results \in Seq(Seq(Bytes))

\* Whatever the sizes of the pieces and however the stream cuts them, a call returns
\* its own response, whole, each byte once, or does not return.
ResponsesIntact ==
    \A k \in 1 .. Len(results) : results[k] = Body(k, 1, lens[k])

\* The greedy recv of the body never takes a byte of the next frame: between calls
\* nothing is left, a header is read where a header begins, and the client's int32 is the
\* length the server cut into bytes, even if the server is gone by then.
FramesStayAligned ==
    /\ cpc = "idle" => rx = <<>> /\ wire = <<>>
    /\ cpc = "header" /\ rx # <<>> => rx[1] = Digit(EncodeLength(Size)[1])
    /\ cpc = "body" => msgLen = Size

\* A call returns, or the client stops on a piece of a prefix, unless the server died
\* in the middle of the response.  No other cut of the stream makes it wait for ever.
EveryCallReturns ==
    (cpc \in {"header", "body"}) ~> (cpc \in {"idle", "stopped"} \/ spc = "dead")
=============================================================================
