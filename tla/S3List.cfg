SPECIFICATION S3Spec
CONSTANTS
    c1 = c1
    S3Client = {c1}
    PrefixOf <- MCOnePrefix
    S3Path <- MCPath
    S3Data = {d1, d2}
    Absent = Absent
    PageSize = 1
    S3MaxCalls = 3
SYMMETRY Symmetry
INVARIANTS ListComplete
CHECK_DEADLOCK FALSE
