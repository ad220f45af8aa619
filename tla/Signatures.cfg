SPECIFICATION MCSpec
CONSTANTS
    Party = {x1, x2, x3}
    Repo = {y1, y2}
    RepoKey = {z1, z2}
    Delegation = {del1, del2}
    NoDelegation = NoDelegation
    NoKey = NoKey
    MaxVersion = 2
    MaxGrants = 2
    Accounts = {y1, y2}
    Fingerprints = {x1, x2, x3}
    m1 = m1
    m2 = m2
    Masters = {m1, m2}
    MasterOf <- MCMasterOf
    MaxKeyVersion = 3
    Times = {z1, z2}
    MaxSigned = 2
    k1 = k1
    k2 = k2
    d1 = d1
    d2 = d2
    z1 = z1
    z2 = z2
    Keys = {k1, k2}
    Fingerprint <- MCFingerprint
    Prefix <- Gcm
    Nonces = {y1, y2}
    Grants = {g1}
    TokenLife = 1
    Leeway = 1
    MaxAge = 1
    MaxTime = 0
    MaxAhead = 0
    MaxStamped = 1
    NoMaster = NoMaster
    Device = {d1, d2}
    Phrase = {"phrase", "other phrase", "typo"}
    PhraseMaster <- MCPhraseMaster
    Legacy = {"plain", "encrypted", "public only", "not Ed25519", "damaged"}
    LegacyKey = d1
    Verifier = {y1, y2}
    MaxCerts = 3
    Buffer = {y1, y2}
    Byte = {"1", ":", "NL"}
    Digits = {"0", "1", "2", "3", "4", "5", "6", "7", "8", "9"}
    Decimal <- MCDecimal
    MaxField = 2
    MaxFields = 2
SYMMETRY Symmetry
INVARIANTS ImportedWasGranted ReplayDoesNothing LoginWasMeant ChallengeAgeBounded EnrolmentFollowsMaster RevokedSignaturesStop Injective
PROPERTIES EveryChangeConsented
CHECK_DEADLOCK FALSE
