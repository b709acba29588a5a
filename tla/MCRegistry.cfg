\* Three connections compete for two places.
SPECIFICATION Spec
CONSTANTS
    s1 = s1
    s2 = s2
    s3 = s3
    Session = {s1, s2, s3}
    MaxConcurrent = 2
    LoopReason = {"browser_disconnect"}
INVARIANTS
    TypeOK
    CapacityRespected
    ConsoleOwned
    RegistryTracksSessions
    AuditTrail
    ShutdownClosesSnapshot
PROPERTIES
    EndReasonStable
    ShutdownTerminates
    ImplementsPool
