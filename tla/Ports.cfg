\* Two servers after two ports, one of them calm; requests overlap, fail and are cut off.
CONSTANTS
    Free = Free
    NoRow = NoRow
    Idle = Idle
    Servers = {s1, s2}
    HostPorts = {p1, p2}
    Requests = {r1, r2}
    Limit = 1
    MaxId = 2
    Calm = {s2}
    Faults <- AllFaults
SPECIFICATION Spec
\* The run ends when every server is gone and the ids of the bound are used up.
CHECK_DEADLOCK FALSE
SYMMETRY Symmetries
\* What the containers of the servers that are not calm publish plays no part.
VIEW Visible
INVARIANTS
    TypeOK
    BookedForLiving
    BookedIsPublished
PROPERTIES
    PoolConserved
