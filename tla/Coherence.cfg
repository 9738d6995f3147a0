\* Concurrent builds against concurrent publications: two apps, with and without
\* translations, two requests, every failure of a request, and a signing key
\* that changes across restarts.
SPECIFICATION Spec
CONSTANTS
    None = None
    Apps = {a1, a2}
    Versions = {1}
    Texts = {t1}
    MaxRevision = 2
    Platforms = {}
    Channels = {"stable"}
    PlatformVersions = {"1.0.0"}
    Offers <- MCOffers
    MaxSnapshots = 1
    SigningKeys = {k1, k2}
    Reqs = {r1, r2}
    Ops = {}
    Faults = {"save", "prune", "abort", "restart"}
SYMMETRY MCSymmetry
INVARIANTS
    PublicCacheCoherent
    AnswerCurrent
    PublicResigned
