\* Two organisations register one app id at the same time.
SPECIFICATION Spec
CONSTANTS
    None = None
    Apps = {a1}
    Versions = {1}
    Texts = {t1}
    MaxRevision = 2
    Tenants = {p1, p2}
    Writers = {w1, w2}
    MaxClock = 1
INVARIANT OnlyOwnerEdits
