SPECIFICATION Spec
CONSTANTS
    Path <- MCPath
    Content = {"c1", "c2", "c3"}
    Absent = "absent"
    Dir = "dir"
    Partial = "partial"
    Patches <- AllPatches
    Installs <- AllInstalls
    Ignored <- IgnoreSome
    Interactive = TRUE
    Fails = {"io", "xdelta", "exdev", "stale", "copy", "uninit"}
INVARIANTS
    TypeOK
    NothingElse
    PatchKeepsAVersion
PROPERTIES
    OnlyExpectedReplaced
