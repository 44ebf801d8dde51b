SPECIFICATION Spec
CONSTANTS
    Requests = {}
    Outcomes = {"running", "idle"}
    MaxAttempts = 2
    MaxLoops = 2
    MaxFaults = 3
    None = None
INVARIANT CheckpointUsable
CHECK_DEADLOCK FALSE
