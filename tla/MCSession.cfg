\* Safety of a session: a queue of one message, two chunks of output.
SPECIFICATION SafeSpec
CONSTANTS
    QueueDepth = 1
    OutputLimit = 2
    ReadError = {"timeout", "peer_closed", "too_large", "other"}
    ClientFrame <- AnyMessage
    ConsoleEnd = {"console_closed", "ssh_error"}
INVARIANTS
    TypeOK
    OutputIntact
    EndAnnounced
    ResultsNeverBlock
    AnsweredCloseIsDisconnect
    OverLeavesNothing
