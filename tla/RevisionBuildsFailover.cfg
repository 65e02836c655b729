SPECIFICATION FairSpec
CONSTANTS
    i1 = i1
    i2 = i2
    m1 = m1
    m2 = m2
    r1 = r1
    r2 = r2
    r3 = r3
    None = None
    Api = api
    Instances = {i1, i2}
    Modules = {m1}
    Revisions = {r1}
    ModuleOf <- MCModuleOf
    Serving = {}
    MaxGenerations = 1
    MaxBase = 1
    MaxFaults = 2
    Retention = 2
CONSTRAINT WithoutRetries
INVARIANTS
    PublishedByLastClaim
PROPERTIES
    NoStolenClaim
    OnlyEligiblePublished
    OrphanedClaimRecovered
    DoomedBuildStops
    EligibleRevisionQueued
