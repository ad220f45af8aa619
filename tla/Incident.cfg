SPECIFICATION FairSpec
CONSTANTS
    Desktop = {desk}
    Key = {k1, other}
    TrustSet = {k1}
    MaxTime = 4
    MaxManifests = 3
PROPERTIES ImplementsFeed LatestReachesEveryone
CHECK_DEADLOCK FALSE
