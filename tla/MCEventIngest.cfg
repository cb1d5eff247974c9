\* Safety of ingestion, two workers, across two changes of the month.
SPECIFICATION Spec
CONSTANTS
    e1 = e1
    x1 = x1
    x2 = x2
    w1 = w1
    w2 = w2
    Monday = Monday
    Friday = Friday
    Ids <- MCIds
    Raws <- MCRaws
    Observed <- MCObserved
    Workers <- MCTwoWorkers
    Vault = Vault
    None = None
    Torn = Torn
    MaxUploads = 1
    LastMonth = 2
    PartitionJob = TRUE
SYMMETRY MCSymmetry
INVARIANTS
    TypeOK
    NothingDangles
    ReferenceHasRow
    QuietProvenance
    QuietSingleRow
