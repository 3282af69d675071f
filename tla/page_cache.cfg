SPECIFICATION Spec
CONSTANTS
    BlockLen = 4
    LengthLen = 2
    ByteBits = 2
    WordSize = 32
    Lengths = {0, 1, 3, 8, 13, 14, 27}
    PageLen = 8
    IoBuf = 6
    max_mapped_pages = 2
    MaxCopies = 4
INVARIANTS
    PagesAreSound
    DigestIsOfTheFile
CHECK_DEADLOCK FALSE
