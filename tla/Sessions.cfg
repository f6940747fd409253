CONSTANTS
    s1 = s1
    Hand = 2
    Gens <- MCGens
    Seeds <- MCSeeds
    Serials <- MCSerials
    Found <- MCFound
    Sizes <- MCSizes
    Blocks <- MCBlocks
    Skips <- MCSkips
    Pages <- MCPages
    IntMod = 16
    SizeMod = 64
    MaxSessions = 2
    Steps = 2
    MemSteps = 1
    FlushEvery = 3
    MaxTyped = 4
SPECIFICATION FairSpec
INVARIANTS TypeOK KeysHold OwnRows Reproducible RefusedOnlyAfterCut ModuleRepeats MemoryRepeats
PROPERTIES LegalCalls KeepsCampaign QuitObeyed
