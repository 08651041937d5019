CONSTANTS
    n1 = n1
    n2 = n2
    n3 = n3
    n4 = n4
    n5 = n5
    Nodes = {n1, n2, n3, n4, n5}
    FarmNodes = {n1, n2, n3, n4, n5}
    MetaNodes = {}
    DataNodes = {}
    MetaCount = 2
    ExpectedShards = 2
    MaxDeploymentRetries = 2
    MaxRuns = 2
    LoadMayFail = FALSE
    Connected = {n1, n2, n3, n4}
SPECIFICATION Spec
SYMMETRY Symmetry
INVARIANTS
    TypeOK
    OneBackendPerNode
    OncePerRun
PROPERTIES
    ConfigComplete
