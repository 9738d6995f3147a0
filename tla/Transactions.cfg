\* Two apps that may swap their slugs, two handlers, statement by statement.
SPECIFICATION TxSpec
CONSTANTS
    None = None
    Apps = {a1, a2}
    Versions = {1}
    Texts = {t1}
    MaxRevision = 4
    Tenants = {p1}
    Writers = {w1, w2}
    MaxClock = 2
    Slugs = {s1, s2}
    Edits <- MCEdits
INVARIANTS
    TxTypeOK
    OnlySlugsDeadlock
PROPERTIES
    ImplementsPublishing
    EveryHandlerReturns
