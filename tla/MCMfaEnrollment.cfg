\* A setup never gets to its answer.
SPECIFICATION Spec
CONSTANTS
    alice = alice
    s1 = s1
    s2 = s2
    r1 = r1
    r2 = r2
    Users <- MCUsers
    Secrets <- MCSecrets
    Requests <- MCRequests
    None = None
PROPERTIES
    SetupReturnsSecret
