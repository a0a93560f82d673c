\* A rebuild fails after the port it was for has found another owner.
CONSTANTS
    Free = Free
    NoRow = NoRow
    Idle = Idle
    Servers = {s1, s2}
    HostPorts = {p1}
    Requests = {r1, r2}
    Limit = 1
    MaxId = 1
    Calm = {}
    Faults <- DaemonFaults
SPECIFICATION Spec
\* The run ends when every server is gone and the ids of the bound are used up.
CHECK_DEADLOCK FALSE
PROPERTIES
    UndoesItsOwn
