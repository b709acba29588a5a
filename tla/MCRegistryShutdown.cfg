\* Does a shutdown leave a session behind?
SPECIFICATION SafeSpec
CONSTANTS
    s1 = s1
    Session = {s1}
    MaxConcurrent = 1
    LoopReason = {"browser_disconnect"}
INVARIANT ShutdownLeavesNoSession
