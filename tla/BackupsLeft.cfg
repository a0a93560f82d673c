\* The user of a wild server leaves the page while a backup is written.
CONSTANTS
    Unused = Unused
    Deleted = Deleted
    NoFile = NoFile
    Idle = Idle
    Servers = {s1}
    Archives = {b1}
    Requests = {r1}
    Makers = {TRUE}
    MaxLimit = 1
    Calm = {}
SPECIFICATION Spec
\* The run ends when the servers are gone.
CHECK_DEADLOCK FALSE
INVARIANTS
    LeftCompletes
