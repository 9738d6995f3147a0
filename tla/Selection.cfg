\* One app with three versions, two of equal precedence, one for newer
\* platforms only, published, republished, yanked and imported in any order.
SPECIFICATION Spec
CONSTANTS
    None = None
    Apps = {a1}
    Versions = {1, 2, 3}
    Texts = {t1}
    MaxRevision = 2
    Channels = {"stable"}
    PlatformVersions = {"1.0.0", "2.0.0"}
    Offers <- MCOffers
    Rank <- MCRank
    Second = 2
    Start = 4
SYMMETRY MCSymmetry
INVARIANTS
    TypeOK
    NewestRunnable
    GeneratedAtNewest
    AgreesWithDocument
PROPERTY PublishingHidesNothing
