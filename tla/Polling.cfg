\* An instance polling through failing statements, lost answers, restarts,
\* a key rotation and a publication.
SPECIFICATION PollSpec
CONSTANTS
    None = None
    Apps = {a1}
    Versions = {1}
    Texts = {t1}
    MaxRevision = 1
    Platforms = {}
    Channels = {"stable"}
    PlatformVersions = {"1.0.0"}
    Offers <- MCOffers
    KeysOf <- MCKeysOf
    MaxSnapshots = 1
    SigningKeys = {k1, k2}
    Reqs = {r1}
    Ops = {}
    Faults = {"save", "prune", "abort", "restart"}
PROPERTY PublicationArrives
