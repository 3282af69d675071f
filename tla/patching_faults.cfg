SPECIFICATION MCSpec
CONSTANTS
    Path <- MCPath
    Content <- MCContent
    Absent = "absent"
    Dir = "dir"
    Partial = "partial"
    Version <- MCVersion
    Blank = ""
    Numeric = {"1", "2", "3"}
    LessThan = "less than"
    Misbuilt = "misbuilt"
    VersionOf <- MCVersionOf
    Stamped <- MCStamped
    Plist <- plist
    DirName <- MCDirName
    NameLength <- MCNameLength
    MaxPath = 8
    Patches <- MCPatches
    Archives <- MCArchives
    Installs <- MCInstalls
    Ignored = {}
    Interactive = FALSE
    Fails = {"io", "xdelta", "exdev", "stale"}
INVARIANTS
    PTypeOK
    ToldTheTruth
    SilentFailureIsClean
    PatchedUpIsTrue
    ChainHeals
PROPERTIES
    SkippedUntouched
    PTerminates
