CONSTANTS
    v8 = v8
    sm = sm
    Free = Free
    Engines <- MCEngines
    Fds <- MCFds
    DropsRet <- MCDropsRet
    Units = 2
    PipeCap = 1
    MaxCuts = 1
SPECIFICATION Spec
INVARIANTS FailedRunIsFailure
