\* The audit chain, when both tenants hash to one lock key.
SPECIFICATION FairSpec
CONSTANTS
    acme = acme
    bank = bank
    x1 = x1
    x2 = x2
    x3 = x3
    b1 = b1
    b2 = b2
    Tenants <- MCTenants
    Txns <- MCTxns
    Bodies <- MCBodies
    LockKey <- MCOneKey
    MaxRows = 1
INVARIANTS
    TypeOK
    LinearChain
    TailStaysTail
PROPERTIES
    TrailSpec
    Terminates
\* MaxRows stops the clients, and nothing else does.
CHECK_DEADLOCK FALSE
