\* One tab with two requests (one of them me()) and a console, two users who come and go.
CONSTANTS
    Me = c1
    Calls = {c1, c2}
    Users = {u1, u2}
    NoUser = NoUser
    Nothing = Nothing
SPECIFICATION SessionSpec
INVARIANTS
    SessionTypeOK
    ActsAsShown
PROPERTIES
    CallsSettle
    SocketRecovers
