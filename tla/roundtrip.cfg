SPECIFICATION RTFairSpec
CONSTANTS
    Path <- MCPath
    Content = {"c1", "c2"}
    Absent = "absent"
    Dir = "dir"
    Partial = "partial"
    Makings <- MCMakings
    DSStore <- MCDSStore
    Patches = {}
    Installs = {}
    Ignored = {}
    Interactive = FALSE
    Fails = {"exdev"}
INVARIANTS
    CTypeOK
    MakesTheNewRelease
    AppliesToItsRelease
    OldOrNew
    ReplaceHeals
    RerunBlockedOnlyByTornFile
PROPERTIES
    AgainIsHarmless
    PatchGetsMade
