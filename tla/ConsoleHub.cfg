\* Two tabs race with each other and with redials while the daemon comes and goes.
CONSTANTS
    NoConn = NoConn
    Tabs = {t1, t2}
    Conns = {c1, c2, c3}
    Attempts = 2
SPECIFICATION FairSpec
INVARIANTS
    TypeOK
    FedOnce
    NoOrphanConnection
    NoSilentTab
PROPERTIES
    SilenceEnds
