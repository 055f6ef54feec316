CONSTANTS
    None = None
    e1 = e1
    e2 = e2
    Envs <- MCEnvs
    Settings <- MCSettings
    Machine = "AMD64"
    Machine64 = TRUE
    RegPdir <- MCRegPdir
    VswPdir <- MCVswPdir
    ClPairs <- MCClPairs
    NoToolsetFile = {}
    BatFiles <- MCBatFiles
    SdkScripts <- MCSdkScripts
    ScriptFails <- MCScriptFails
    UserScripts = {"setup.bat", "fail.bat"}
    ConfigCache = TRUE
SYMMETRY Symm
SPECIFICATION Spec
INVARIANT LookupFailuresCaught
