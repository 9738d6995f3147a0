\* One platform granted two private apps; nothing fails.
SPECIFICATION Spec
CONSTANTS
    None = None
    Apps = {a1, a2}
    Versions = {1}
    Texts = {t1}
    MaxRevision = 0
    Platforms = {p1}
    Channels = {"stable"}
    PlatformVersions = {"1.0.0"}
    Offers <- MCOffers
    MaxSnapshots = 1
    SigningKeys = {k1}
    Reqs = {r1}
    Ops = {o1}
    Faults = {}
SYMMETRY MCSymmetry
INVARIANT RevokedIsGone
