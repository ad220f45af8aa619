SPECIFICATION FilesSpec
CONSTANTS
    Instance = {i1, i2}
    Key = {k1, k2}
    Master = Master
    NoKey = NoKey
    Torn = Torn
    Client = {c1, c2}
    User = {u1, u2}
    NoUser = NoUser
SYMMETRY Symmetry
INVARIANTS ExportStable TargetsWhole CertMatchesKey AnswerAccurate DeleteComplete
PROPERTIES RepairSparesValidUser
