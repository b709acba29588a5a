\* Is the end of a session whose browser has left told apart from a failure?
SPECIFICATION Spec
CONSTANTS
    QueueDepth = 1
    OutputLimit = 0
    ReadError = {"timeout", "peer_closed", "other"}
    ClientFrame <- Typing
    ConsoleEnd = {"console_closed"}
PROPERTY LeavingIsDisconnect
