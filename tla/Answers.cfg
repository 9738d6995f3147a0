\* Two instances, each upgraded from one platform version to the next and back,
\* through failing statements and a publication; the cache holds one document.
SPECIFICATION PollSafety
CONSTANTS
    None = None
    Apps = {a1}
    Versions = {1}
    Texts = {t1}
    MaxRevision = 1
    Platforms = {}
    Channels = {"stable"}
    PlatformVersions = {"1.0.0", "2.0.0"}
    Offers <- MCOffers
    KeysOf <- MCKeysOf
    MaxSnapshots = 1
    SigningKeys = {k1}
    Reqs = {r1, r2}
    Ops = {}
    Faults = {"save", "abort"}
INVARIANTS
    AnswerWasTrue
    CacheBounded
PROPERTIES
    LeastRecentDropped
