\* Two devices, one transmits and one polls.
SPECIFICATION Spec
CONSTANTS
    Devices = {0, 1}
    Styles <- TransmitAndPoll
    PerDevice = 1
    QueueSize = 1
INVARIANT TransmitGetsItsOwn
\* A failed assertion ends the program.
CHECK_DEADLOCK FALSE
