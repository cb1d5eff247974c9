\* A key revoked between the answer and the commit of its creation.
SPECIFICATION Spec
CONSTANTS
    k1 = k1
    c1 = c1
    a1 = a1
    a2 = a2
    a3 = a3
    home = home
    cafe = cafe
    Keys <- MCKeys
    Clients <- MCClients
    Admins <- MCAdmins
    Hosts <- MCHosts
    Proxy = Proxy
    None = None
    MaxForged = 1
SYMMETRY MCSymmetry
INVARIANTS
    RevocationHolds
