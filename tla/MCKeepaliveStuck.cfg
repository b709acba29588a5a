\* Is a silent browser timed out while the reader is stuck in the console?
SPECIFICATION FairKeepaliveSpec
CONSTANTS
    Blank = Blank
    Malformed = Malformed
    Unset = Unset
    MaxLines = 0
    FileLine <- NoLines
    Environment <- OneEnvironment
    RoundTrip = 1
    ConsoleDelay = 1
    InputLimit = 1
    PongLimit = 3
    TimeLimit = 2
PROPERTY SilenceEndsSession
