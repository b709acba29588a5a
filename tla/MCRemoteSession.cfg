\* The ssh session: Open, Close and who is stuck meanwhile.
SPECIFICATION Spec
CONSTANT ChunkLimit = 2
INVARIANTS
    TypeOK
    FailedOpenLeavesNothing
    CloseMeansClosed
PROPERTIES
    NoOutputAfterClose
    CloseWakesAll
