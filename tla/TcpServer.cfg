\* Three peers on two descriptors, which are reused and run out, with every fault.
SPECIFICATION FairSpec
CONSTANTS
    p1 = p1
    p2 = p2
    p3 = p3
    Peers = {p1, p2, p3}
    Fds = {1, 2}
    ServerFd = 0
    NoPeer = NoPeer
    MaxLines = 1
    AbortsHappen = TRUE
    PartialReads = TRUE
    SendMayFail = TRUE
    HandlerMayReject = TRUE
INVARIANTS TypeOK TablesAgree BatchIsCurrent BroadcastInOrder
PROPERTIES PeersAreServed
\* The peers stop, and a server left by an exception stays down.
CHECK_DEADLOCK FALSE
