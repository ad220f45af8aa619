SPECIFICATION VaultSpec
CONSTANTS
    Client = {c1}
    Uid <- MCUid
    Aad <- MCManifest
    Chunk <- MCChunk
    Cipher = {"xchacha"}
    MaxKey = 2
    MaxBatch = 2
    MaxBlobs = 2
    NoVersion = NoVersion
    PackChunk = {e1, e2}
    PackName = {n1, n2}
    PackId = {p1, p2}
    NoPack = NoPack
    NoChunk = NoChunk
    Filler = Filler
INVARIANTS BatchOpens
PROPERTIES BatchReturns PackReturns
CHECK_DEADLOCK FALSE
