SPECIFICATION EvidenceSpec
CONSTANTS
    Items = {e1}
    Documents = {d1, d2}
    Suffixes = {s1}
    Handlers = {p1, p2}
    MaxTime = 3
    None = None
    Deleted = Deleted
INVARIANTS
    
    FilesHaveRows
