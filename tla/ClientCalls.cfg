SPECIFICATION MCSpec
CONSTANTS
    Client = {c1}
    Uid <- MCUid
    Aad <- MCAad
    Chunk <- MCChunk
    Cipher = {"xchacha", "aes"}
    MaxKey = 2
    MaxBatch = 1
    MaxBlobs = 2
    NoVersion = NoVersion
    Undeclared = Undeclared
    t1 = t1
    t2 = t2
    Procs = {t1}
    MaxSessions = 3
    MaxFaults = 2
    MaxDuplicates = 1
    Threads = {t1, t2}
    AesObjects = {"aes"}
    ChunkObjects = {"chunker"}
    MaxChunks = 2
    MaxSize = 2
    Wrapped = TRUE
    DisposeAlone = TRUE
    Reader = {t1}
    Ceiling = {2, 5}
    MaxDeclared = 6
    MaxPiece = 3
    Letters = {1, 2}
    MaxLen = 4
    WordList <- MCWordList
    MaxDistance = 2
INVARIANTS OpensAsSealed FreedExactlyOnce ErrorIsOwn WholeOrOver ClosestIsFirstClosest
PROPERTIES SessionsConsistent
