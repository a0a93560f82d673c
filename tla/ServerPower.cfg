\* Three requests, a schedule and two tabs on one server; the daemon may fail.
CONSTANTS
    Requests = {r1, r2, r3}
    Schedules = {h1}
    Watchers = {w1, w2}
    Actions <- AllActions
    Faults <- AllFaults
SPECIFICATION FairSpec
INVARIANTS
    TypeOK
    SuspensionIsShown
PROPERTIES
    StatusCatchesUp
