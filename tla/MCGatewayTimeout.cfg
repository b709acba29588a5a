\* Is a missing authorize message told as authorize_timeout?
SPECIFICATION GatewaySafeSpec
CONSTANTS
    s1 = s1
    Session = {s1}
    MaxConcurrent = 1
    LoopReason = {"browser_disconnect"}
    FirstFrame <- OnlyAuthorize
    Answer <- AcceptedOrNot
INVARIANT OverdueIsAuthorizeTimeout
