\* Two nodes and an owner with a limit; settings and limits change and nodes go.
CONSTANTS
    NoRow = NoRow
    NoNode = NoNode
    NoCall = NoCall
    NoContainer = NoContainer
    NoLimit = NoLimit
    Unknown = Unknown
    Nodes = {n1, n2}
    Users = {u1, boss}
    Admins = {boss}
    Servers = {s1, s2}
    Founders = {s1}
    Requests = {r1, r2}
    Resources <- MCResources
    Enforced <- MCEnforced
    Reported = {}
    Demands <- SmallOrLarge
    Settings <- TightOrTighter
    CoreCounts <- OneCore
    Limits <- OneOrNone
    Faults <- AllFaults
SYMMETRY Symmetries
SPECIFICATION Spec
INVARIANTS
    TypeOK
    ChecksStillHold
    NodeStands
    NoLockCycle
PROPERTIES
    CapacityRespected
    BornWithContainer
    LimitRespected
    ImplementsLedger
