\* Safety of the token families, two requests at a time on chains of three tokens.
SPECIFICATION Spec
CONSTANTS
    admin = admin
    user = user
    t1 = t1
    t2 = t2
    t3 = t3
    r1 = r1
    r2 = r2
    Users <- MCUsers
    Tokens <- MCThreeTokens
    Requests <- MCTwoRequests
    Advisory = Advisory
    None = None
    MayAbort = TRUE
SYMMETRY MCDeep
INVARIANTS
    TypeOK
    OneUnspent
    ReplayKillsFamily
    DisabledHasNoSession
    QuietLogoutFinal
    OnlyRevokersDeadlock
PROPERTIES
    SessionSpec
