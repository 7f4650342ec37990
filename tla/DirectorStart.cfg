SPECIFICATION Spec
CONSTANTS
    RTE_MAX_LCORE = 6
    Enabled = {0, 1, 2, 3, 4}
    Master = 0
    Ports = {0, 1}
    MaxQueues = 2
    PER_CORE_MAX_FLOW_PATHS = 2
    Files <- MCFiles
    NULL = NULL
INVARIANTS
    WorkersIdentified
    NoFault
    ReadyServes
PROPERTY
    StopHonoured
