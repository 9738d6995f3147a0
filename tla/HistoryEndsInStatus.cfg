\* Two reviewers decide on one version at the same time.
SPECIFICATION Spec
CONSTANTS
    None = None
    Apps = {a1}
    Versions = {1}
    Texts = {t1}
    MaxRevision = 3
    Tenants = {p1}
    Writers = {w1, w2}
    MaxClock = 3
INVARIANT HistoryEndsInStatus
