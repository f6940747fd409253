CONSTANTS
    v8 = v8
    sm = sm
    Engines <- MCEngines
    Bytes = {0, 1}
    Bits = {0, 1, 2}
    Denotes <- MCDenotes
    Count = 2
    Tests <- MCTests
SPECIFICATION Spec
INVARIANTS TypeOK SameCalls LogTellsState SilenceIsAgreement NoFalseAlarm IInv
