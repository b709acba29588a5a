\* The handshake: two connections compete for one place.
SPECIFICATION GatewaySpec
CONSTANTS
    s1 = s1
    s2 = s2
    Session = {s1, s2}
    MaxConcurrent = 1
    LoopReason = {"browser_disconnect"}
    FirstFrame <- SomeFrames
    Answer <- SomeAnswers
INVARIANTS
    GatewayTypeOK
    ConsoleNeedsGrant
    OneStory
    BlameFits
    RefusalExplained
PROPERTIES
    ImplementsRegistry
    HandshakeSettles
