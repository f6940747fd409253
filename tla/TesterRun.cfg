CONSTANTS
    v8 = v8
    sm = sm
    Free = Free
    Engines <- MCEngines
    Fds <- MCFds
    DropsRet <- MCDropsRet
    Units = 1
    PipeCap = 1
    MaxCuts = 1
SPECIFICATION FairSpec
INVARIANTS TypeOK CompleteLog Reaped PidIsOurs FdsBalanced IInv
PROPERTIES EofStable KeepsPromise EveryWorkerReturns
