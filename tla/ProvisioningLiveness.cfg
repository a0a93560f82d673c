\* Three requests that wait for each other's server, node and user locks.
CONSTANTS
    NoRow = NoRow
    NoNode = NoNode
    NoCall = NoCall
    NoContainer = NoContainer
    NoLimit = NoLimit
    Unknown = Unknown
    Nodes = {n1}
    Users = {u1, boss}
    Admins = {boss}
    Servers = {s1, s2}
    Founders = {s1}
    Requests = {r1, r2, r3}
    Resources <- MCResources
    Enforced <- MCEnforced
    Reported <- MCReported
    Demands <- OnlySmall
    Settings <- TightOrClosed
    CoreCounts <- OneCore
    Limits <- Unlimited
    Faults <- AllFaults
SPECIFICATION FairSpec
PROPERTIES
    RequestsFinish
