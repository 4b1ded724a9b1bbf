CONSTANTS
    Keys = {k1, k2}
    Definitions <- MCDefinitions
    Cases = {c1, c2}
    Requests = {p1, p2}
    Nil = Nil
SPECIFICATION FairSpec
CHECK_DEADLOCK FALSE
INVARIANTS
    RunningInstancesAreActive
PROPERTIES
    DefinitionsMoveForward
    RequestsEnd
