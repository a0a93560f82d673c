\* Two requests about a calm and a wild server; two backups are ever made.
CONSTANTS
    Unused = Unused
    Deleted = Deleted
    NoFile = NoFile
    Idle = Idle
    Servers = {s1, s2}
    Archives = {b1, b2}
    Requests = {r1, r2}
    Makers = {TRUE, FALSE}
    MaxLimit = 1
    Calm = {s2}
SPECIFICATION Spec
\* The run ends when the servers are gone.
CHECK_DEADLOCK FALSE
SYMMETRY Symmetries
\* States that differ only in what nothing looks at again are one.
VIEW Visible
INVARIANTS
    TypeOK
    SlotStillFree
    RestoresWhole
    NothingStrands
    SuccessIsStored
    NothingUnfinished
