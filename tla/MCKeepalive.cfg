\* From the settings to the end of a session: a file of two lines.
SPECIFICATION KeepaliveSpec
CONSTANTS
    Blank = Blank
    Malformed = Malformed
    Unset = Unset
    MaxLines = 2
    FileLine <- SomeLines
    Environment <- SomeEnvironments
    RoundTrip = 1
    ConsoleDelay = 1
    InputLimit = 2
    PongLimit = 5
    TimeLimit = 7
INVARIANTS
    KeepaliveTypeOK
    SourcesRespected
    AcceptedSuits
    FaultIsReal
    AnsweringBrowserStays
    SilenceBounded
