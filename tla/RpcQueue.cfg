\* Two clients that pipeline, with every fault: parse errors, procedures that
\* raise, sends that fail; and the same steps against the abstract exchange.
SPECIFICATION FairSpec
CONSTANTS
    c1 = c1
    c2 = c2
    Clients = {c1, c2}
    MaxRequests = 3
    Pipeline = 2
    NoNode = NoNode
    ParseMayFail = TRUE
    RouteMayRaise = TRUE
    SendMayFail = TRUE
INVARIANTS QueuesHaveRoom AnswersGoHome NodesOwnedOnce IInv
PROPERTIES OldestIsAnswered ImplementsExchange
\* The clients stop at MaxRequests, and a server left by an exception stays down.
CHECK_DEADLOCK FALSE
