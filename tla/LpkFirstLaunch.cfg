SPECIFICATION FirstLaunch
CONSTANTS
    NoKey = NoKey
    Absent = Absent
    Plain = Plain
    Nobody = Nobody
    HeadlessKey = HeadlessKey
    p1 = p1
    p2 = p2
    t1 = t1
    t2 = t2
    Process = {p1, p2}
    Thread = {t1, t2}
    ProcOf <- TwoProcesses
    File = {f1}
    Key = {k1, k2, k3}
    Hosts <- KeyringHost
INVARIANTS ProcessesConverge
CHECK_DEADLOCK FALSE
