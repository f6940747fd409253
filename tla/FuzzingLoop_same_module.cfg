CONSTANTS
    V8 = V8
    SpiderMonkey = SpiderMonkey
    Steps = 2
    MemSteps = 2
    FlushEvery = 3
    CallKinds <- MCCallKinds
    MaxCalls = 2
SPECIFICATION Spec
INVARIANTS SameModule
