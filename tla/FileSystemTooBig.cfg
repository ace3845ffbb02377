CONSTANTS
    SectorSize = 2
    NumSectors = 8
    NumDirect = 2
    Byte = {1}
    Junk = Junk
    NULL = NULL
    a = a
    b = b
    b1 = b1
    b2 = b2
    Name = {a, b1, b2}
    Key = {a, b}
    Prefix <- MCPrefix
    NumDirEntries = 2
    MapSectors = 1
    DirSectors = 1
    Handle = {h1}
    Sizes = {0, 3, 5}
    Offsets = {0, 1, 3}
    Buffers <- MCBuffers
SPECIFICATION Spec
INVARIANT FilesFitTheirHeaders
