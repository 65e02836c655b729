SPECIFICATION Spec
CONSTANTS
    m1 = m1
    m2 = m2
    None = None
    ModuleOf <- MCModuleOf
    MaxBuilds = 2
    Modules = {m1, m2}
    Broken = {}
    MaxGeneration = 1
    MaxRequests = 1
    MaxReplicas = 1
    MaxFaults = 0
CHECK_DEADLOCK FALSE
PROPERTIES
    PromotedBuildRuns
