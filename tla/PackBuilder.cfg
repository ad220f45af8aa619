SPECIFICATION Spec
CONSTANTS
    Chunk = {c1, c2, c3}
    Name = {n1, n2, n3}
    PackId = {p1, p2, p3}
    NoPack = NoPack
    NoChunk = NoChunk
    Filler = Filler
    MaxBlob = 4
    MaxTarget = 8
    Floor = 2
    GrowthNum = 7
    GrowthDen = 5
    UsizeMax = 8
    U32Modulus = 5
SYMMETRY Symmetry
INVARIANTS ReadsBack PaddingBounded
CHECK_DEADLOCK FALSE
