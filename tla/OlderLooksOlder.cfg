\* A signed catalogue held while versions are published, yanked and hidden.
SPECIFICATION Spec
CONSTANTS
    None = None
    Apps = {a1}
    Versions = {1, 2, 3}
    Texts = {t1}
    MaxRevision = 2
    Channels = {"stable"}
    PlatformVersions = {"1.0.0", "2.0.0"}
    Offers <- MCOffers
    Rank <- MCRank
    Second = 1
    Start = 3
SYMMETRY MCSymmetry
INVARIANT OlderLooksOlder
