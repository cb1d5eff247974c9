\* Lockout and recovery codes of one account, three logins at once.
SPECIFICATION Spec
CONSTANTS
    alice = alice
    c1 = c1
    l1 = l1
    l2 = l2
    l3 = l3
    Users <- MCUsers
    Protected <- MCProtected
    Codes <- MCCodes
    Logins <- MCThreeLogins
    None = None
    Threshold = 2
    Hold = 2
    LastTick = 4
SYMMETRY MCSymmetry
INVARIANTS
    TypeOK
    GuessesBounded
    RecoveryCodeOnce
PROPERTIES
    LockNeverShortened
    OpensOnlyAvailable
