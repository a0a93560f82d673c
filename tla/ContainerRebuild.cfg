\* Two rebuilds, one after the other: beside power actions and crashes, or cut off.
CONSTANTS
    NoContainer = NoContainer
    Idle = Idle
    Workers = {r1, r2}
    Specs = {c1, c2}
    Regimes <- MCRegimes
SPECIFICATION Spec
\* Nothing happens to a server that has been deleted.
CHECK_DEADLOCK FALSE
INVARIANTS
    TypeOK
    OneContainerAtRest
    OneUp
PROPERTIES
    ImplementsContainer
