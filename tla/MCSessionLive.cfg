\* Liveness and refinement of a session: no console output.
SPECIFICATION Spec
CONSTANTS
    QueueDepth = 1
    OutputLimit = 0
    ReadError = {"timeout", "peer_closed", "other"}
    ClientFrame <- Typing
    ConsoleEnd = {"console_closed"}
PROPERTIES
    EndsCompletely
    AbandonedEnds
    ImplementsPool
