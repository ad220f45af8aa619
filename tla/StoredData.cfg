SPECIFICATION MCSpec
CONSTANTS
    Ones = {x1, x2}
    Others = {y1, y2}
    Fingerprints = {x1, x2}
    Seeds = {y1, y2}
    Prfs = {q1}
    MaxUploads = 2
    Holder = {x1, x2}
    EncKey = {y1, y2}
    SignKey = {s1}
    Locked = {}
    Uid = {u1}
    MaxMsgs = 1
    MaxSigs = 0
    S3Client <- MCClients
    PrefixOf <- MCPrefixOf
    S3Path <- MCObjectPath
    S3Data = {x1, x2}
    PageSize = 2
    S3MaxCalls = 3
    FileClient = {x1, x2}
    FilePath <- MCFilePath
    FileData = {y1, y2}
    FileMaxCalls = 4
    Pair = {z1, z2}
    c3 = c3
    e1 = e1
    NoKey = NoKey
    Absent = Absent
    NoFile = NoFile
    Torn = Torn
    Unsettled = Unsettled
SYMMETRY Symmetry
INVARIANTS RecoveredIsTheBackup OneMasterPerPhrase OneKeyInForce MessagesStayReadable AcknowledgedHolds
CHECK_DEADLOCK FALSE
