SPECIFICATION FairSpec
CONSTANTS
    o1 = o1
    o2 = o2
    OrgOrder <- MCTwoOrgs
    Writers = {w1, w2, w3}
    MaxClock = 4
    Nil = Nil
INVARIANTS
    ChainedWhenInOrder
    NoFalseAlarm
PROPERTIES
    WritesEnd
