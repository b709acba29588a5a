\* Is a message over the size limit a protocol violation?
SPECIFICATION SafeSpec
CONSTANTS
    QueueDepth = 1
    OutputLimit = 0
    ReadError = {"timeout", "peer_closed", "too_large", "other"}
    ClientFrame <- AnyMessage
    ConsoleEnd = {"console_closed", "ssh_error"}
INVARIANT OversizedIsViolation
