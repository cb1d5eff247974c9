\* The verdict of verify_audit_chain on damaged tables of up to three rows.
SPECIFICATION Spec
CONSTANTS
    b1 = b1
    b2 = b2
    e1 = e1
    e2 = e2
    e3 = e3
    Bodies <- MCBodies
    Ids <- MCIds
    MaxDamage = 3
SYMMETRY MCSymmetry
INVARIANTS
    TypeOK
    VerdictIsRight
    PinnedByTail
    HonestIsAccepted
\* MaxDamage and the ids stop the run, and nothing else does.
CHECK_DEADLOCK FALSE
