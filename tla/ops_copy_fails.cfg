SPECIFICATION Spec
CONSTANTS
    Path <- MCPath
    Content = {"c1", "c2", "c3"}
    Absent = "absent"
    Dir = "dir"
    Partial = "partial"
    Patches <- UpdateOnly
    Installs <- OldInstall
    Ignored = {}
    Interactive = FALSE
    Fails = {"exdev", "copy"}
INVARIANTS
    DonePatchIsNew
