CONSTANTS
    Argvs <- MCArgvs
    Numeric <- MCNumeric
    IMod = 4
    LMod = 16
    Lines <- MCLines
    MaxLines = 3
    Stored = {"a.wasm", "mem"}
    Functions = {"f"}
    Globals = {"g"}
    Results <- MCResults
    DropsRet = {"V8"}
SPECIFICATION Spec
INVARIANTS TypeOK OptionsAsGiven EveryLineOnce LeaksOne ExitTells TellsResult
PROPERTIES QuitEnds
