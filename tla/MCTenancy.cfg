\* Tenants, their administrators and the seed script.
SPECIFICATION Spec
CONSTANTS
    one = one
    two = two
    ana = ana
    ben = ben
    w1 = w1
    w2 = w2
    None = None
    Tenants <- MCTenants
    Emails <- MCEmails
    Workers <- MCWorkers
    SeedTenants <- MCSeedTenants
    AdminEmail <- MCAdminEmail
    MaxChanges = 2
    MaxTokens = 1
SYMMETRY MCSymmetry
INVARIANTS
    TypeOK
    SeedGrantsOnce
    SeedComplete
    OwnTenantOnly
    EffectIsAudited
    OneAccountPerEmail
PROPERTIES
    NoTokenForDisabled
