\* Two deliveries of one event_id at once: the row and the bytes disagree.
SPECIFICATION Spec
CONSTANTS
    e1 = e1
    x1 = x1
    x2 = x2
    w1 = w1
    w2 = w2
    Monday = Monday
    Friday = Friday
    Ids <- MCIds
    Raws <- MCRaws
    Observed <- MCObserved
    Workers <- MCTwoWorkers
    Vault = Vault
    None = None
    Torn = Torn
    MaxUploads = 0
    LastMonth = 1
    PartitionJob = FALSE
SYMMETRY MCSymmetry
INVARIANTS
    EventProvenance
