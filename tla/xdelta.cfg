SPECIFICATION MainSpec
CONSTANTS
    Byte <- MCByte
    QuerySize = 1
    PageSize = 4
    CHEW <- MCCHEW
    Bits = 3
    TableSize = 4
    c_hash <- MCHash
    UintBits = 1
    FromName <- MCName
    Cases <- MCCases
INVARIANTS
    GeneratorIsSound
    DeltaRebuildsTo
    VerifiedOrRefused
    MadeMeansApplied
    NamedFilesAreOpened
PROPERTIES
    DeltaGetsMade
