\* Two senders, three variables for two I2C ports, three NVS keys, five bytes of SPI, two
\* queued transactions, two devices with two transactions each on an SPI bus, four bytes for a
\* UART ring of three, three sessions and three drops of the network, every fault.
SPECIFICATION FairSpec
CONSTANTS
    Senders = {a1, a2}
    MaxDatagrams = 2
    SendToMayFail = TRUE
    Vars = {v1, v2, v3}
    Ports = {0, 1}
    InitMayFail = TRUE
    IntKeys = {i1, i2}
    StrKeys = {s1}
    NvsValues = {x1, x2}
    NoValue = none
    MaxFills = 2
    NvsMayFail = TRUE
    MaxBytes = 5
    Transactions = {t1, t2}
    Junk = junk
    MaxHeld = 1
    WaitsAreShort = TRUE
    UartBytes = 4
    RingSize = 3
    UartMayFail = TRUE
    Devices = {0, 1}
    Styles <- UsesOfTheBus
    PerDevice = 2
    QueueSize = 2
    MaxSessions = 3
    MaxDrops = 3
    StartMayFail = TRUE
INVARIANTS TypeOK KnownAreTold DriversHaveOwners CommittedSurvives TransferIsExact QueuedStayAlive ReadIsExact IdNodeKept
INVARIANTS TransactionsIntact NothingLeaks AddressBeforeServer
PROPERTIES ArrivedAreEchoed CallsComeToAnEnd LinkComesBack
\* Datagrams, fills of the partition and transactions come to an end.
CHECK_DEADLOCK FALSE
