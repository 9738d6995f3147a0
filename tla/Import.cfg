\* An old registry that goes on working while it is imported, into one that has
\* a tenant with a profile of its own.
SPECIFICATION Spec
CONSTANTS
    None = None
    Apps = {a1, a2}
    Entries <- MCEntries
    AppSlugs = {u1, u2}
    Versions = {1}
    Texts = {t1}
    Born <- MCBorn
    Local = {"q1"}
    SourceIds = {i1}
    LocalIds = {j1}
    Slugs = {"s1"}
    Emails = {e1}
    Tenants = {"s1"}
    Users = {}
    MaxRevision = 3
    MaxWork = 2
INVARIANTS
    StatusExplained
PROPERTIES
    OwnersCanAct
    ImplementsSource
    RunsOnlyAdd
    EverythingArrives
