\* Lengths of three digits, several chunks and several recvs, any cut of the stream.
SPECIFICATION FairSpec
CONSTANTS
    Base = 2
    MaxLen = 7
    MsgChunk = 3
    RecvSize = 4
    MaxCalls = 2
    HeaderMaySplit = TRUE
    SendMayFail = TRUE
    StreamMayEnd = TRUE
INVARIANTS TypeOK ResponsesIntact FramesStayAligned
PROPERTY EveryCallReturns
\* The client stops at MaxCalls, or waits for a server that is gone.
CHECK_DEADLOCK FALSE
