SPECIFICATION Spec
CONSTANTS
    i1 = i1
    i2 = i2
    m1 = m1
    m2 = m2
    r1 = r1
    r2 = r2
    r3 = r3
    None = None
    Api = api
    Instances = {i1}
    Modules = {m1}
    Revisions = {r1, r2}
    ModuleOf <- MCModuleOf
    Serving = {}
    MaxGenerations = 2
    MaxBase = 1
    MaxFaults = 0
    Retention = 2
CONSTRAINT TwoTransactions
SYMMETRY Symmetry
INVARIANTS
    ActiveIsNewest
    OneReadyPerRevision
PROPERTIES
    BuildContract
    ReadyStaysUntilReplaced
    ImplementsHistory
