\* A replay that loses a deadlock leaves its family alive, whatever is fair.
SPECIFICATION FairSpec
CONSTANTS
    admin = admin
    user = user
    t1 = t1
    t2 = t2
    t3 = t3
    r1 = r1
    r2 = r2
    Users <- MCOneUser
    Tokens <- MCThreeTokens
    Requests <- MCTwoRequests
    Advisory = Advisory
    None = None
    MayAbort = FALSE
PROPERTIES
    ReplayRevokes
