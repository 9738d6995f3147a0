\* Grants, revocations, disabled credentials and publications racing the
\* requests of a platform that is granted private apps.
SPECIFICATION Spec
CONSTANTS
    None = None
    Apps = {a1}
    Versions = {1}
    Texts = {t1}
    MaxRevision = 1
    Platforms = {p1, p2}
    Channels = {"stable"}
    PlatformVersions = {"1.0.0"}
    Offers <- MCOffers
    MaxSnapshots = 1
    SigningKeys = {k1}
    Reqs = {r1}
    Ops = {o1}
    Faults = {"discard", "touch", "abort"}
SYMMETRY MCSymmetry
INVARIANTS
    TypeOK
    PrivateCacheCoherent
    AnswerCurrent
