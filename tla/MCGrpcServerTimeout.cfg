SPECIFICATION Spec
CONSTANTS
    rpc1 = rpc1
    rpc2 = rpc2
    rpc3 = rpc3
    Rpcs <- MCRpcs
    Unset = Unset
    Garbage = Garbage
    EnvTimeouts <- MCEnvTimeouts
    MaxWait = 2
SYMMETRY MCSymmetry
INVARIANTS
    ShutdownIsBounded
CHECK_DEADLOCK FALSE
