\* Two organisations, one app id and two version numbers, two handlers at once.
SPECIFICATION Spec
CONSTANTS
    None = None
    Apps = {a1}
    Versions = {1, 2}
    Texts = {t1}
    MaxRevision = 3
    Tenants = {p1, p2}
    Writers = {w1, w2}
    MaxClock = 4
SYMMETRY MCSymmetry
INVARIANTS
    TypeOK
    ProvenanceReviewed
    OutcomesRecorded
    SubmittedByOwner
PROPERTIES
    ImplementsSource
    OwnerIsForever
