SPECIFICATION PCalmSpec
CONSTANTS
    Path <- MCPath
    Content <- MCContent
    Absent = "absent"
    Dir = "dir"
    Partial = "partial"
    Version <- MCVersion
    Blank = ""
    Numeric = {"1", "2", "3"}
    LessThan = "less than"
    Misbuilt = "misbuilt"
    VersionOf <- MCVersionOf
    Stamped <- MCStamped
    Plist <- plist
    DirName <- MCDirName
    NameLength <- MCNameLength
    MaxPath = 8
    Patches <- MCPatches
    Archives <- ChainOnly
    Installs <- V1Only
    Ignored = {}
    Interactive = FALSE
    Fails = {}
INVARIANTS
    RenamedAsAsked
