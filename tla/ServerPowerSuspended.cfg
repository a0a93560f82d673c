\* A schedule and a suspension, with a daemon that never fails.
CONSTANTS
    Requests = {r1}
    Schedules = {h1}
    Watchers = {w1}
    Actions <- OnlyStart
    Faults = {}
SPECIFICATION Spec
PROPERTIES
    SuspendBlocksStart
