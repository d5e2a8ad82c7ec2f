\* Each of the four servers, two clients, every fault.
SPECIFICATION Spec
CONSTANTS
    c1 = c1
    c2 = c2
    Clients = {c1, c2}
    MaxRequests = 3
    NoData = NoData
    BadRequests = TRUE
    RouteMayRaise = TRUE
    SendMayFail = TRUE
INVARIANTS TypeOK SharedDataIntact
PROPERTY ImplementsExchange
\* The clients stop at MaxRequests, a server may be down or wait for ever.
CHECK_DEADLOCK FALSE
